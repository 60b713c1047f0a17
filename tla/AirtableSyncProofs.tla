------------------------- MODULE AirtableSyncProofs -------------------------
(***************************************************************************)
(* Theorems about module AirtableSync, for any sets of runs, events and    *)
(* source rows and any batch size, with failures anywhere.                 *)
(***************************************************************************)
EXTENDS MCAirtableSync, TLAPS

(* What a run knows at each of its requests *)
Sound(q) ==
  /\ q \in Run
  /\ q.pc = "idle" => q = Idle
  /\ q.pc \in {"upsert", "list", "delete"} => q.unread = {}
  /\ q.pc \in {"list", "delete"} => q.full
  /\ \A i \in q.rest : q.proj[i] # 0

(* What it read was so, and is not newer than what there is now.            *)
Known(q, al, go, ver) ==
  \A i \in Ids : q.proj[i] # 0 => i \in al \cup go /\ q.proj[i] <= ver[i]

(* Run alone, it has read every row there is of the events behind it, what  *)
(* it read is at least as new as the base, and what it deletes is gone.     *)
Fresh(q, go, s, c) ==
  /\ \A x \in Records :
       /\ q.full /\ s[x] = "managed" /\ EventOf[x[1]] \notin q.unread /\ q.proj[x[1]] = 0
            => x[1] \in go
       /\ s[x] = "managed" /\ q.proj[x[1]] # 0 => c[x] <= q.proj[x[1]]
  /\ \A x \in q.doomed : x[1] \in go

Alone == \A r, o \in Runs : run[r].pc # "idle" /\ run[o].pc # "idle" => r = o

(* The base holds nothing the source never had, and run alone nothing newer *)
(* than the source.                                                        *)
BaseInv ==
  /\ alive \cap gone = {}
  /\ \A x \in Records : st[x] = "managed" => x[1] \in alive \cup gone
  /\ Serial => \A x \in Records : st[x] = "managed" => cell[x] <= version[x[1]]

IInv ==
  /\ TypeOK /\ BaseInv
  /\ Serial => Alone
  /\ \A r \in Runs :
       /\ Sound(run[r])
       /\ Known(run[r], alive, gone, version)
       /\ Serial /\ run[r].pc # "idle" => Fresh(run[r], gone, st, cell)

----------------------------------------------------------------------------
(* The source and the owner of the base *)

LEMMA RecordParts == \A x \in Records : x[1] \in Ids
  BY DEF Records

LEMMA CreateKeeps ==
  ASSUME IInv, NEW i \in Ids, Create(i)
  PROVE  IInv'
<1>1. TypeOK' /\ BaseInv'
  BY DEF IInv, TypeOK, BaseInv, Create, base
<1>2. (Serial => Alone)'
  BY DEF IInv, Alone, Create
<1>3. ASSUME NEW r \in Runs
      PROVE  /\ Sound(run[r])'
             /\ Known(run[r], alive, gone, version)'
             /\ (Serial /\ run[r].pc # "idle" => Fresh(run[r], gone, st, cell))'
  BY <1>3 DEF IInv, Sound, Known, Fresh, Create, base
<1> QED BY <1>1, <1>2, <1>3 DEF IInv

LEMMA ChangeKeeps ==
  ASSUME ConstantsOK, IInv, NEW i \in Ids, Change(i)
  PROVE  IInv'
<1>1. version' \in [Ids -> Versions] /\ \A j \in Ids : version[j] <= version'[j]
  BY DEF IInv, TypeOK, Change, Versions, ConstantsOK
<1>2. TypeOK' /\ BaseInv'
  <2>1. TypeOK'
    BY <1>1 DEF IInv, TypeOK, Change, base
  <2>2. ASSUME Serial, NEW x \in Records, st[x] = "managed" PROVE cell[x] <= version'[x[1]]
    BY <1>1, <2>2, RecordParts DEF IInv, BaseInv, TypeOK, Versions, ConstantsOK
  <2> QED BY <2>1, <2>2 DEF IInv, BaseInv, Change, base
<1>3. (Serial => Alone)'
  BY DEF IInv, Alone, Change
<1>4. ASSUME NEW r \in Runs
      PROVE  /\ Sound(run[r])'
             /\ Known(run[r], alive, gone, version)'
             /\ (Serial /\ run[r].pc # "idle" => Fresh(run[r], gone, st, cell))'
  <2>1. \A j \in Ids : run[r].proj[j] \in Nat /\ version[j] \in Nat /\ version'[j] \in Nat
    BY <1>1 DEF IInv, TypeOK, Run, Versions, ConstantsOK
  <2>2. Known(run[r], alive, gone, version')
    BY <1>1, <2>1 DEF IInv, Known
  <2> QED BY <2>2 DEF IInv, Sound, Known, Fresh, Change, base
<1> QED BY <1>2, <1>3, <1>4 DEF IInv

LEMMA DeleteKeeps ==
  ASSUME IInv, NEW i \in Ids, Delete(i)
  PROVE  IInv'
<1>1. TypeOK' /\ BaseInv'
  BY DEF IInv, TypeOK, BaseInv, Delete, base
<1>2. (Serial => Alone)'
  BY DEF IInv, Alone, Delete
<1>3. ASSUME NEW r \in Runs
      PROVE  /\ Sound(run[r])'
             /\ Known(run[r], alive, gone, version)'
             /\ (Serial /\ run[r].pc # "idle" => Fresh(run[r], gone, st, cell))'
  BY <1>3 DEF IInv, Sound, Known, Fresh, Delete, base
<1> QED BY <1>1, <1>2, <1>3 DEF IInv

LEMMA ClaimKeeps ==
  ASSUME IInv, NEW y \in Records, Claim(y)
  PROVE  IInv'
<1>1. /\ st' \in [Records -> {"absent", "managed", "claimed", "removed"}]
      /\ \A x \in Records : st'[x] = "managed" => st[x] = "managed"
  BY DEF IInv, TypeOK, Claim
<1>2. TypeOK' /\ BaseInv'
  BY <1>1 DEF IInv, TypeOK, BaseInv, Claim, source
<1>3. (Serial => Alone)'
  BY DEF IInv, Alone, Claim
<1>4. ASSUME NEW r \in Runs
      PROVE  /\ Sound(run[r])'
             /\ Known(run[r], alive, gone, version)'
             /\ (Serial /\ run[r].pc # "idle" => Fresh(run[r], gone, st, cell))'
  BY <1>1 DEF IInv, Sound, Known, Fresh, Claim, source
<1> QED BY <1>2, <1>3, <1>4 DEF IInv

----------------------------------------------------------------------------
(* The runs *)

LEMMA IdleSound == ConstantsOK => Sound(Idle)
  BY DEF Sound, Idle, Run, ConstantsOK

LEMMA OthersRest ==
  ASSUME IInv, NEW r \in Runs, run[r].pc # "idle" \/ (Serial => InFlight = {})
  PROVE  Serial => \A o \in Runs \ {r} : run[o].pc = "idle"
  BY DEF IInv, Alone, InFlight

(* A request of run r, after which it is p or at rest *)
LEMMA Becomes ==
  ASSUME ConstantsOK, IInv, NEW r \in Runs, NEW p, Set(r, p),
         UNCHANGED <<source, late>>, failures' \in 0..MaxFailures,
         st' \in [Records -> {"absent", "managed", "claimed", "removed"}],
         cell' \in [Records -> Versions],
         \A x \in Records : st'[x] = "managed" => x[1] \in alive \cup gone,
         Serial => \A x \in Records : st'[x] = "managed" => cell'[x] <= version[x[1]],
         Serial => \A o \in Runs \ {r} : run[o].pc = "idle",
         p.pc # "idle" => /\ Sound(p) /\ Known(p, alive, gone, version)
                          /\ Serial => Fresh(p, gone, st', cell')
  PROVE  IInv'
<1> DEFINE q == IF p.pc = "idle" THEN Idle ELSE p
<1>1. Sound(q) /\ q.pc = p.pc
  BY IdleSound DEF Idle
<1>2. Known(q, alive, gone, version)
  BY DEF Known, Idle
<1>3. Serial /\ q.pc # "idle" => Fresh(q, gone, st', cell')
  BY DEF Idle
<1>4. /\ run' \in [Runs -> Run] /\ run'[r] = q
      /\ \A o \in Runs \ {r} : run'[o] = run[o]
  BY <1>1 DEF Set, Sound, IInv, TypeOK
<1>5. TypeOK' /\ BaseInv'
  BY <1>4 DEF IInv, TypeOK, BaseInv, source
<1>6. (Serial => Alone)'
  BY <1>4 DEF Alone
<1>7. ASSUME NEW o \in Runs
      PROVE  /\ Sound(run'[o])
             /\ Known(run'[o], alive', gone', version')
             /\ Serial /\ run'[o].pc # "idle" => Fresh(run'[o], gone', st', cell')
  <2>0. alive' = alive /\ gone' = gone /\ version' = version
    BY DEF source
  <2>1. CASE o = r
    BY <1>1, <1>2, <1>3, <1>4, <2>0, <2>1
  <2>2. CASE o # r
    <3>1. run'[o] = run[o] /\ Sound(run[o]) /\ Known(run[o], alive, gone, version)
      BY <1>4, <2>2 DEF IInv
    <3>2. run[o].doomed \subseteq Records
      BY <3>1 DEF Sound, Run
    <3>3. Known(run[o], alive, gone, version)
      BY <3>1, <3>2 DEF Known
    <3> QED BY <3>1, <3>3, <2>0, <2>2
  <2> QED BY <2>1, <2>2
<1> QED BY <1>5, <1>6, <1>7 DEF IInv

(* Requests that leave the base as it is *)
LEMMA Moves ==
  ASSUME ConstantsOK, IInv, NEW r \in Runs, NEW p, Set(r, p),
         UNCHANGED <<source, base>>, failures' \in 0..MaxFailures,
         run[r].pc # "idle" \/ (Serial => InFlight = {}),
         p.pc # "idle" => /\ Sound(p) /\ Known(p, alive, gone, version)
                          /\ Serial => Fresh(p, gone, st, cell)
  PROVE  IInv'
<1>1. /\ st' = st /\ cell' = cell /\ UNCHANGED <<source, late>>
      /\ st \in [Records -> {"absent", "managed", "claimed", "removed"}]
      /\ cell \in [Records -> Versions]
      /\ \A x \in Records : st[x] = "managed" => x[1] \in alive \cup gone
      /\ Serial => \A x \in Records : st[x] = "managed" => cell[x] <= version[x[1]]
  BY DEF base, IInv, TypeOK, BaseInv
<1>2. Serial => \A o \in Runs \ {r} : run[o].pc = "idle"
  BY OthersRest
<1>3. p.pc # "idle" => /\ Sound(p) /\ Known(p, alive, gone, version)
                       /\ Serial => Fresh(p, gone, st', cell')
  BY <1>1
<1> QED BY ONLY <1>1, <1>2, <1>3, Becomes, ConstantsOK, IInv, r \in Runs, Set(r, p),
           failures' \in 0..MaxFailures

LEMMA StartKeeps ==
  ASSUME ConstantsOK, IInv, NEW r \in Runs, NEW full \in BOOLEAN, NEW events \in SUBSET Events,
         full => events = Events, Start(r, full, events)
  PROVE  IInv'
<1> DEFINE p == [Idle EXCEPT !.pc = "read", !.full = full, !.unread = events]
<1>1. /\ p.pc = "read" /\ p.full = full /\ p.unread = events /\ p.rest = {}
      /\ p.doomed = {} /\ p.proj = [i \in Ids |-> 0]
  BY DEF Idle
<1>2. p \in Run
  <2>1. Idle \in Run
    BY IdleSound DEF Sound
  <2> QED BY <2>1 DEF Run
<1>3. failures' \in 0..MaxFailures
  BY DEF Start, IInv, TypeOK
<1>4. Set(r, p) /\ UNCHANGED <<source, base>> /\ (Serial => InFlight = {})
  BY DEF Start
<1> HIDE DEF p
<1>5. Sound(p) /\ Known(p, alive, gone, version)
  BY <1>1, <1>2 DEF Sound, Known
<1>6. Fresh(p, gone, st, cell)
  BY <1>1, RecordParts DEF Fresh, ConstantsOK
<1> QED BY <1>3, <1>4, <1>5, <1>6, Moves

(* What follows keeps what the run knows. *)
LEMMA AfterBatchKeeps ==
  ASSUME NEW q, Sound(q), q.pc \in {"read", "upsert"}, q.unread = {},
         Known(q, alive, gone, version), Serial => Fresh(q, gone, st, cell)
  PROVE  /\ Sound(AfterBatch(q)) \/ AfterBatch(q).pc = "idle"
         /\ Known(AfterBatch(q), alive, gone, version)
         /\ Serial => Fresh(AfterBatch(q), gone, st, cell)
<1> DEFINE p == AfterBatch(q)
<1>1. q \in Run
  BY DEF Sound
<1>2. /\ p \in Run /\ p.full = q.full /\ p.unread = q.unread /\ p.proj = q.proj
      /\ p.rest = q.rest /\ p.doomed = q.doomed
      /\ p.pc \in {"upsert", "list", "idle"}
      /\ p.pc = "list" => q.full
  BY <1>1 DEF AfterBatch, Run
<1> HIDE DEF p
<1>3. Sound(p) \/ p.pc = "idle"
  <2>1. p.pc = "list" => p.full
    BY <1>2, Zenon
  <2>2. \A i \in p.rest : p.proj[i] # 0
    BY <1>2 DEF Sound
  <2>3. p.unread = {}
    BY <1>2
  <2>4. p.pc \in {"list", "delete"} => p.pc = "list"
    BY <1>2
  <2>5. p.pc \in {"list", "delete"} => p.full
    BY <2>1, <2>4, Zenon
  <2>6. p \in Run
    BY <1>2
  <2> QED BY <2>2, <2>3, <2>5, <2>6, Zenon DEF Sound
<1>4. Known(p, alive, gone, version) /\ (Serial => Fresh(p, gone, st, cell))
  BY <1>2 DEF Known, Fresh
<1> QED BY <1>3, <1>4 DEF p

LEMMA AfterDeleteKeeps ==
  ASSUME NEW q, Sound(q), q.pc \in {"list", "delete"},
         Known(q, alive, gone, version), Serial => Fresh(q, gone, st, cell)
  PROVE  /\ Sound(AfterDelete(q)) \/ AfterDelete(q).pc = "idle"
         /\ Known(AfterDelete(q), alive, gone, version)
         /\ Serial => Fresh(AfterDelete(q), gone, st, cell)
<1> DEFINE p == AfterDelete(q)
<1>1. q \in Run /\ q.unread = {} /\ q.full
  BY DEF Sound
<1>2. /\ p \in Run /\ p.full = q.full /\ p.unread = q.unread /\ p.proj = q.proj
      /\ p.rest = q.rest /\ p.doomed = q.doomed
      /\ p.pc \in {"delete", "idle"}
  BY <1>1 DEF AfterDelete, Run
<1> HIDE DEF p
<1>3. Sound(p) \/ p.pc = "idle"
  BY <1>1, <1>2 DEF Sound
<1>4. Known(p, alive, gone, version) /\ (Serial => Fresh(p, gone, st, cell))
  BY <1>2 DEF Known, Fresh
<1> QED BY <1>3, <1>4 DEF p

LEMMA ReadKeeps ==
  ASSUME ConstantsOK, IInv, NEW r \in Runs, NEW e \in Events, ReadEvent(r, e)
  PROVE  IInv'
<1> DEFINE o == run[r]
           read == {i \in alive : EventOf[i] = e}
           q == Loaded(o, e)
<1>1. /\ o.pc = "read" /\ o \in Run /\ Sound(o) /\ Known(o, alive, gone, version)
      /\ Serial => Fresh(o, gone, st, cell)
  BY DEF ReadEvent, At, IInv, Sound
<1>2. /\ q.pc = "read" /\ q.full = o.full /\ q.unread = o.unread \ {e}
      /\ q.rest = o.rest \cup read /\ q.doomed = o.doomed
      /\ q.proj = [i \in Ids |-> IF i \in read THEN version[i] ELSE o.proj[i]]
  BY <1>1 DEF Loaded, Run
<1>3. read \subseteq Ids /\ \A i \in Ids : version[i] \in Versions
  BY DEF IInv, TypeOK
<1>4. q \in Run
  <2>1. q.proj \in [Ids -> 0..MaxVersion]
    BY <1>1, <1>2, <1>3 DEF Run, Versions, ConstantsOK
  <2>2. q.unread \in SUBSET Events /\ q.rest \in SUBSET Ids
    BY <1>1, <1>2, <1>3 DEF Run
  <2> QED BY <1>1, <2>1, <2>2 DEF Loaded, Run
<1> HIDE DEF q
<1>5. \A i \in Ids : version[i] # 0 /\ version[i] <= version[i]
  BY <1>3 DEF Versions, ConstantsOK
<1>6. Sound(q)
  <2>1. ASSUME NEW i \in q.rest PROVE q.proj[i] # 0
    <3>1. i \in Ids /\ (i \in read \/ i \in o.rest)
      BY <1>1, <1>2, <1>3 DEF Run
    <3>2. q.proj[i] = IF i \in read THEN version[i] ELSE o.proj[i]
      BY <1>2, <3>1
    <3>3. i \in o.rest => o.proj[i] # 0
      BY <1>1 DEF Sound
    <3> QED BY <1>5, <3>1, <3>2, <3>3
  <2> QED BY <1>2, <1>4, <2>1 DEF Sound
<1>7. Known(q, alive, gone, version)
  BY <1>1, <1>2, <1>3, <1>5 DEF Known
<1>8. Serial => Fresh(q, gone, st, cell)
  <2> SUFFICES ASSUME Serial PROVE Fresh(q, gone, st, cell)
    OBVIOUS
  <2>1. Fresh(o, gone, st, cell) /\ BaseInv
    BY <1>1 DEF IInv
  <2>2. ASSUME NEW x \in Records, q.full, st[x] = "managed", EventOf[x[1]] \notin q.unread,
               q.proj[x[1]] = 0
        PROVE  x[1] \in gone
    BY <1>2, <1>5, <2>1, <2>2, RecordParts DEF Fresh, BaseInv
  <2>3. ASSUME NEW x \in Records, st[x] = "managed", q.proj[x[1]] # 0
        PROVE  cell[x] <= q.proj[x[1]]
    BY <1>2, <2>1, <2>3, RecordParts DEF Fresh, BaseInv
  <2> QED BY <1>2, <2>1, <2>2, <2>3 DEF Fresh
<1>9. /\ Set(r, IF q.unread = {} THEN AfterBatch(q) ELSE q)
      /\ UNCHANGED <<source, base>> /\ failures' \in 0..MaxFailures
  BY DEF q, ReadEvent, IInv, TypeOK
<1>10. CASE q.unread = {}
  <2>1. Set(r, AfterBatch(q))
    BY <1>9, <1>10
  <2> QED BY <1>1, <1>2, <1>6, <1>7, <1>8, <1>9, <1>10, <2>1, AfterBatchKeeps, Moves
<1>11. CASE q.unread # {}
  <2>1. Set(r, q)
    BY <1>9, <1>11
  <2> QED BY <1>1, <1>6, <1>7, <1>8, <1>9, <2>1, Moves
<1> QED BY <1>10, <1>11

LEMMA ListKeeps ==
  ASSUME ConstantsOK, IInv, NEW r \in Runs, ListRecords(r)
  PROVE  IInv'
<1> DEFINE o == run[r]
           q == [o EXCEPT !.doomed = Stale(o)]
<1>1. /\ o.pc = "list" /\ o \in Run /\ Sound(o) /\ Known(o, alive, gone, version)
      /\ Serial => Fresh(o, gone, st, cell)
  BY DEF ListRecords, At, IInv, Sound
<1>2. /\ q \in Run /\ q.pc = "list" /\ q.full = o.full /\ q.unread = o.unread
      /\ q.rest = o.rest /\ q.proj = o.proj /\ q.doomed = Stale(o)
  BY <1>1 DEF Run, Stale
<1>3. o.full /\ o.unread = {}
  BY <1>1 DEF Sound
<1> HIDE DEF q
<1>4. Sound(q)
  <2>1. q.full
    BY <1>2, <1>3, Zenon
  <2>2. q.unread = {} /\ \A i \in q.rest : q.proj[i] # 0
    BY <1>1, <1>2 DEF Sound
  <2> QED BY <1>2, <2>1, <2>2 DEF Sound
<1>5. Known(q, alive, gone, version)
  BY <1>1, <1>2 DEF Known, Stale
<1>6. Serial => Fresh(q, gone, st, cell)
  <2>1. ASSUME Serial, NEW x \in Stale(o) PROVE x[1] \in gone
    BY <1>1, <1>3, <2>1 DEF Fresh, Stale
  <2>2. q.full <=> o.full
    BY <1>2, Zenon
  <2> QED BY <1>1, <1>2, <2>1, <2>2 DEF Fresh
<1>7. /\ Set(r, AfterDelete(q)) /\ UNCHANGED <<source, base>>
      /\ failures' \in 0..MaxFailures /\ q.pc = "list"
  BY <1>2 DEF q, ListRecords, IInv, TypeOK
<1> QED BY <1>1, <1>4, <1>5, <1>6, <1>7, AfterDeleteKeeps, Moves

(* Requests that drop a batch, done or refused *)
LEMMA RestDropped ==
  ASSUME NEW q, Sound(q), q.pc = "upsert", Known(q, alive, gone, version),
         Serial => Fresh(q, gone, st, cell), NEW part
  PROVE  LET p == [q EXCEPT !.rest = @ \ part]
         IN /\ Sound(p) /\ p.pc = "upsert" /\ p.unread = {}
            /\ Known(p, alive, gone, version) /\ (Serial => Fresh(p, gone, st, cell))
<1> DEFINE p == [q EXCEPT !.rest = @ \ part]
<1>1. q \in Run /\ q.unread = {}
  BY DEF Sound
<1>2. /\ p \in Run /\ p.pc = "upsert" /\ p.full = q.full /\ p.unread = q.unread
      /\ p.rest = q.rest \ part /\ p.proj = q.proj /\ p.doomed = q.doomed
  BY <1>1 DEF Run
<1> HIDE DEF p
<1>3. Sound(p) /\ p.unread = {}
  BY <1>1, <1>2 DEF Sound
<1>4. Known(p, alive, gone, version) /\ (Serial => Fresh(p, gone, st, cell))
  BY <1>2 DEF Known, Fresh
<1> QED BY <1>2, <1>3, <1>4 DEF p

LEMMA DoomedDropped ==
  ASSUME NEW q, Sound(q), q.pc = "delete", Known(q, alive, gone, version),
         Serial => Fresh(q, gone, st, cell), NEW part
  PROVE  LET p == [q EXCEPT !.doomed = @ \ part]
         IN /\ Sound(p) /\ p.pc = "delete"
            /\ Known(p, alive, gone, version) /\ (Serial => Fresh(p, gone, st, cell))
<1> DEFINE p == [q EXCEPT !.doomed = @ \ part]
<1>1. q \in Run /\ q.unread = {} /\ q.full
  BY DEF Sound
<1>2. /\ p \in Run /\ p.pc = "delete" /\ p.full = q.full /\ p.unread = q.unread
      /\ p.rest = q.rest /\ p.proj = q.proj /\ p.doomed = q.doomed \ part
  BY <1>1 DEF Run
<1> HIDE DEF p
<1>3. Sound(p)
  <2>1. p.full
    BY <1>1, <1>2, Zenon
  <2> QED BY <1>1, <1>2, <2>1 DEF Sound
<1>4. Known(p, alive, gone, version) /\ (Serial => Fresh(p, gone, st, cell))
  BY <1>2 DEF Known, Fresh
<1> QED BY <1>2, <1>3, <1>4 DEF p

(* The two requests that change the base: what they keep of it, and that    *)
(* they keep the invariant.                                                *)
LEMMA UpsertKeeps ==
  ASSUME ConstantsOK, IInv, NEW r \in Runs, Upsert(r)
  PROVE  /\ IInv'
         /\ \A x \in Records : st'[x] \in {st[x], "managed"}
         /\ \A x \in Records : st[x] = "claimed" => st'[x] = "claimed" /\ cell'[x] = cell[x]
         /\ Serial => \A x \in Records : st[x] = "managed" => cell'[x] >= cell[x]
<1> DEFINE o == run[r]
<1>1. /\ o.pc = "upsert" /\ o \in Run /\ Sound(o) /\ Known(o, alive, gone, version)
      /\ Serial => Fresh(o, gone, st, cell)
  BY DEF Upsert, At, IInv, Sound
<1>2. PICK part \in Batch(o.rest) :
        /\ \A i \in part : Managed(i) # {} \/ Unused(i) # {}
        /\ LET targets == UNION {Target(i) : i \in part} IN
           /\ st' = [x \in Records |-> IF x \in targets THEN "managed" ELSE st[x]]
           /\ cell' = [x \in Records |-> IF x \in targets THEN o.proj[x[1]] ELSE cell[x]]
        /\ Set(r, AfterBatch([o EXCEPT !.rest = @ \ part]))
  BY DEF Upsert
<1> DEFINE targets == UNION {Target(i) : i \in part}
           q == [o EXCEPT !.rest = @ \ part]
<1>3. part \subseteq o.rest /\ o.rest \subseteq Ids
  BY <1>1 DEF Batch, Run
<1>4. ASSUME NEW i \in part, NEW x \in Target(i)
      PROVE  x \in Records /\ x[1] = i /\ st[x] \in {"managed", "absent"}
  <2>1. CASE Managed(i) # {}
    BY <2>1, <1>4 DEF Target, Managed
  <2>2. CASE Managed(i) = {}
    <3>1. Unused(i) # {} /\ Unused(i) \subseteq 1..MaxRecords
      BY <1>2, <2>2 DEF Unused
    <3>2. x = <<i, CHOOSE n \in Unused(i) : TRUE>>
      BY <2>2 DEF Target
    <3>3. PICK n \in Unused(i) : x = <<i, n>>
      BY <3>1, <3>2
    <3> QED BY <1>3, <3>1, <3>3 DEF Records, Unused
  <2> QED BY <2>1, <2>2
<1>5. \A x \in targets : x \in Records /\ x[1] \in part /\ st[x] \in {"managed", "absent"}
  BY <1>4
<1>6. /\ st' = [x \in Records |-> IF x \in targets THEN "managed" ELSE st[x]]
      /\ cell' = [x \in Records |-> IF x \in targets THEN o.proj[x[1]] ELSE cell[x]]
      /\ Set(r, AfterBatch(q))
  BY <1>2
<1> HIDE DEF targets
<1>7. \A i \in part : o.proj[i] \in Versions
  BY <1>1, <1>3 DEF Sound, Run, Versions, ConstantsOK
<1>8. /\ st' \in [Records -> {"absent", "managed", "claimed", "removed"}]
      /\ \A x \in Records : st'[x] = IF x \in targets THEN "managed" ELSE st[x]
  BY <1>6 DEF IInv, TypeOK
<1>9. \A x \in Records : cell'[x] = IF x \in targets THEN o.proj[x[1]] ELSE cell[x]
  BY <1>6
<1>10. cell' \in [Records -> Versions]
  BY <1>5, <1>6, <1>7 DEF IInv, TypeOK
<1>11. \A i \in part : i \in Ids /\ o.proj[i] # 0 /\ i \in alive \cup gone
                      /\ o.proj[i] <= version[i]
  BY <1>1, <1>3 DEF Sound, Known
<1>12. \A x \in Records : st'[x] = "managed" => x[1] \in alive \cup gone
  BY <1>5, <1>8, <1>11 DEF IInv, BaseInv
<1>13. Serial => \A x \in Records : st'[x] = "managed" => cell'[x] <= version[x[1]]
  BY <1>5, <1>8, <1>9, <1>11 DEF IInv, BaseInv
<1>14. \A x \in Records : st'[x] = "claimed" => st[x] = "claimed"
  BY <1>8
<1>15. Serial => \A y \in Runs \ {r} : run[y].pc = "idle"
  BY <1>1, OthersRest
<1> HIDE DEF q
<1>16. /\ Sound(q) /\ q.pc = "upsert" /\ q.unread = {}
       /\ Known(q, alive, gone, version) /\ (Serial => Fresh(q, gone, st, cell))
       /\ q.proj = o.proj
  <2>1. q.proj = o.proj
    BY <1>1 DEF q, Run
  <2> QED BY <1>1, <2>1, RestDropped DEF q
<1> DEFINE p == AfterBatch(q)
<1>17. /\ Sound(p) \/ p.pc = "idle"
       /\ Known(p, alive, gone, version)
       /\ Serial => Fresh(p, gone, st, cell)
  BY <1>16, AfterBatchKeeps
<1>18. p.proj = o.proj /\ p.doomed \subseteq Records
  <2>1. q \in Run
    BY <1>16 DEF Sound
  <2> QED BY <1>16, <2>1 DEF AfterBatch, Run
<1> HIDE DEF p
<1>19. Known(p, alive, gone, version)
  BY <1>14, <1>17, <1>18 DEF Known
<1>20. Serial => Fresh(p, gone, st', cell')
  <2> SUFFICES ASSUME Serial PROVE Fresh(p, gone, st', cell')
    OBVIOUS
  <2>1. ASSUME NEW x \in Records, st'[x] = "managed", p.proj[x[1]] = 0
        PROVE  st[x] = "managed"
    BY <1>5, <1>8, <1>11, <1>18, <2>1
  <2>2. ASSUME NEW x \in Records, st'[x] = "managed", p.proj[x[1]] # 0
        PROVE  cell'[x] <= p.proj[x[1]]
    <3>1. CASE x \in targets
      <4>1. cell'[x] = p.proj[x[1]] /\ p.proj[x[1]] \in Nat
        BY <1>5, <1>7, <1>9, <1>18, <3>1 DEF Versions, ConstantsOK
      <4> QED BY <4>1
    <3>2. CASE x \notin targets
      BY <1>8, <1>9, <1>17, <2>2, <3>2 DEF Fresh
    <3> QED BY <3>1, <3>2
  <2> QED BY <1>17, <2>1, <2>2 DEF Fresh
<1>21. IInv'
  <2>1. Set(r, p) /\ UNCHANGED <<source, late>> /\ failures' \in 0..MaxFailures
    BY <1>6 DEF p, Upsert, IInv, TypeOK
  <2> QED BY <2>1, <1>8, <1>10, <1>12, <1>13, <1>14, <1>15, <1>17, <1>19, <1>20, Becomes
<1>22. \A x \in Records : st'[x] \in {st[x], "managed"}
  BY <1>8
<1>23. \A x \in Records : st[x] = "claimed" => st'[x] = "claimed" /\ cell'[x] = cell[x]
  BY <1>5, <1>8, <1>9
<1>24. ASSUME Serial, NEW x \in Records, st[x] = "managed" PROVE cell'[x] >= cell[x]
  <2>1. cell[x] \in Nat /\ cell'[x] \in Nat
    BY <1>10 DEF IInv, TypeOK, Versions, ConstantsOK
  <2>2. x \in targets => cell[x] <= o.proj[x[1]]
    BY <1>1, <1>5, <1>11, <1>24 DEF Fresh
  <2> QED BY <1>9, <2>1, <2>2
<1> QED BY <1>21, <1>22, <1>23, <1>24

LEMMA DeleteRecordsKeeps ==
  ASSUME ConstantsOK, IInv, NEW r \in Runs, DeleteRecords(r)
  PROVE  /\ IInv'
         /\ \A x \in Records : st'[x] # st[x] => x \in run[r].doomed
         /\ Serial => \A x \in Records : st[x] = "managed" /\ x[1] \in alive => st'[x] = st[x]
<1> DEFINE o == run[r]
<1>1. /\ o.pc = "delete" /\ o \in Run /\ Sound(o) /\ Known(o, alive, gone, version)
      /\ Serial => Fresh(o, gone, st, cell)
  BY DEF DeleteRecords, At, IInv, Sound
<1>2. PICK part \in Batch(o.doomed) :
        /\ st' = IF \E x \in part : st[x] = "removed" THEN st
                 ELSE [x \in Records |-> IF x \in part THEN "removed" ELSE st[x]]
        /\ Set(r, AfterDelete([o EXCEPT !.doomed = @ \ part]))
  BY DEF DeleteRecords
<1> DEFINE q == [o EXCEPT !.doomed = @ \ part]
           p == AfterDelete(q)
<1>3. part \subseteq o.doomed /\ o.doomed \subseteq Records
  BY <1>1 DEF Batch, Run
<1>4. /\ st' \in [Records -> {"absent", "managed", "claimed", "removed"}]
      /\ \A x \in Records : st'[x] = st[x] \/ (x \in part /\ st'[x] = "removed")
  BY <1>2 DEF IInv, TypeOK
<1>5. cell' = cell /\ cell \in [Records -> Versions] /\ UNCHANGED source
      /\ failures' \in 0..MaxFailures /\ late' = late
  BY DEF DeleteRecords, IInv, TypeOK
<1>6. Set(r, p)
  BY <1>2
<1> HIDE DEF q
<1>7. /\ Sound(q) /\ q.pc = "delete" /\ q.doomed \subseteq Records
      /\ Known(q, alive, gone, version) /\ (Serial => Fresh(q, gone, st, cell))
  <2>1. q.doomed \subseteq Records
    BY <1>1, <1>3 DEF q, Run
  <2> QED BY <1>1, <2>1, DoomedDropped DEF q
<1>8. /\ Sound(p) \/ p.pc = "idle"
      /\ Known(p, alive, gone, version)
      /\ Serial => Fresh(p, gone, st, cell)
  BY <1>7, AfterDeleteKeeps
<1>9. p.doomed \subseteq Records
  <2>1. q \in Run
    BY <1>7 DEF Sound
  <2> QED BY <1>7, <2>1 DEF AfterDelete, Run
<1> HIDE DEF p
<1>10. Known(p, alive, gone, version)
  BY <1>4, <1>8, <1>9 DEF Known
<1>11. Serial => Fresh(p, gone, st', cell')
  BY <1>4, <1>5, <1>8 DEF Fresh
<1>12. /\ \A x \in Records : st'[x] = "managed" => x[1] \in alive \cup gone
       /\ Serial => \A x \in Records : st'[x] = "managed" => cell'[x] <= version[x[1]]
       /\ \A x \in Records : st'[x] = "claimed" => st[x] = "claimed"
  BY <1>4, <1>5 DEF IInv, BaseInv
<1>13. IInv'
  <2>1. Serial => \A y \in Runs \ {r} : run[y].pc = "idle"
    BY <1>1, OthersRest
  <2> QED BY <2>1, <1>4, <1>5, <1>6, <1>8, <1>10, <1>11, <1>12, Becomes
<1>14. \A x \in Records : st'[x] # st[x] => x \in o.doomed
  BY <1>3, <1>4
<1>15. ASSUME Serial, NEW x \in Records, st[x] = "managed", x[1] \in alive PROVE st'[x] = st[x]
  <2>1. x \notin o.doomed
    BY <1>1, <1>15 DEF Fresh, IInv, BaseInv
  <2> QED BY <1>3, <1>4, <2>1
<1> QED BY <1>13, <1>14, <1>15

LEMMA RefuseKeeps ==
  ASSUME ConstantsOK, IInv, NEW r \in Runs, Refuse(r)
  PROVE  IInv'
<1> DEFINE o == run[r]
<1>1. /\ o.pc \in {"idle", "read", "upsert", "list", "delete"}
      /\ Sound(o) /\ Known(o, alive, gone, version)
      /\ Serial => Fresh(o, gone, st, cell) \/ o.pc = "idle"
  BY DEF IInv, TypeOK, Run
<1>2. UNCHANGED <<source, base>> /\ failures' \in 0..MaxFailures
  BY DEF Refuse, Failing, IInv, TypeOK, ConstantsOK
<1>3. PICK p \in Refused(o) : Set(r, p)
  BY DEF Refuse
<1>4. CASE o.pc = "upsert"
  <2>1. PICK part : p = AfterBatch([o EXCEPT !.rest = @ \ part])
    BY <1>3, <1>4 DEF Refused
  <2> DEFINE q == [o EXCEPT !.rest = @ \ part]
  <2>2. /\ Sound(q) /\ q.pc = "upsert" /\ q.unread = {}
        /\ Known(q, alive, gone, version) /\ (Serial => Fresh(q, gone, st, cell))
    BY <1>1, <1>4, RestDropped
  <2> HIDE DEF q
  <2>3. Set(r, AfterBatch(q))
    BY <1>3, <2>1 DEF q
  <2> QED BY <1>2, <1>4, <2>2, <2>3, AfterBatchKeeps, Moves
<1>5. CASE o.pc = "delete"
  <2>1. PICK part : p = AfterDelete([o EXCEPT !.doomed = @ \ part])
    BY <1>3, <1>5 DEF Refused
  <2> DEFINE q == [o EXCEPT !.doomed = @ \ part]
  <2>2. /\ Sound(q) /\ q.pc = "delete"
        /\ Known(q, alive, gone, version) /\ (Serial => Fresh(q, gone, st, cell))
    BY <1>1, <1>5, DoomedDropped
  <2> HIDE DEF q
  <2>3. Set(r, AfterDelete(q))
    BY <1>3, <2>1 DEF q
  <2> QED BY <1>2, <1>5, <2>2, <2>3, AfterDeleteKeeps, Moves
<1>6. CASE o.pc = "list"
  <2>1. p.pc = "idle"
    BY <1>3, <1>6 DEF Refused, Idle
  <2> QED BY <1>2, <1>3, <1>6, <2>1, Moves
<1>7. CASE o.pc \in {"idle", "read"}
  BY <1>3, <1>7 DEF Refused
<1> QED BY <1>1, <1>4, <1>5, <1>6, <1>7

LEMMA StopKeeps ==
  ASSUME ConstantsOK, IInv, NEW r \in Runs, Stop(r)
  PROVE  IInv'
<1>1. /\ UNCHANGED <<source, base>> /\ failures' \in 0..MaxFailures
      /\ run[r].pc # "idle" /\ Set(r, Idle) /\ Idle.pc = "idle"
  BY DEF Stop, InFlight, Failing, IInv, TypeOK, ConstantsOK, Idle
<1> QED BY <1>1, Moves

----------------------------------------------------------------------------
LEMMA InitHolds ==
  ASSUME ConstantsOK, Init
  PROVE  IInv
<1>1. Idle \in Run /\ Sound(Idle) /\ Idle.pc = "idle"
  BY IdleSound DEF Sound, Idle
<1>2. TypeOK
  BY <1>1 DEF Init, TypeOK, Versions, ConstantsOK
<1>3. BaseInv
  BY RecordParts DEF Init, BaseInv
<1>4. ASSUME NEW r \in Runs
      PROVE  Sound(run[r]) /\ Known(run[r], alive, gone, version) /\ run[r].pc = "idle"
  <2>1. run[r] = Idle
    BY DEF Init
  <2>2. Known(Idle, alive, gone, version)
    BY DEF Known, Idle
  <2> QED BY <1>1, <2>1, <2>2
<1> QED BY <1>2, <1>3, <1>4 DEF IInv, Alone

LEMMA StepKeeps ==
  ASSUME ConstantsOK, IInv, [Next]_vars
  PROVE  IInv'
<1>1. CASE \E i \in Ids : Create(i) \/ Change(i) \/ Delete(i)
  BY <1>1, CreateKeeps, ChangeKeeps, DeleteKeeps
<1>2. CASE \E x \in Records : Claim(x)
  BY <1>2, ClaimKeeps
<1>3. CASE \E r \in CronRuns : Cron(r)
  BY <1>3, StartKeeps DEF Cron, Runs
<1>4. CASE \E r \in ButtonRuns, e \in Events : Button(r, e)
  BY <1>4, StartKeeps DEF Button, Runs
<1>5. CASE \E r \in Runs : Step(r)
  BY <1>5, ReadKeeps, UpsertKeeps, ListKeeps, DeleteRecordsKeeps DEF Step
<1>6. CASE \E r \in Runs : Refuse(r) \/ Stop(r)
  BY <1>6, RefuseKeeps, StopKeeps
<1>7. CASE UNCHANGED vars
  <2>1. TypeOK' /\ BaseInv' /\ (Serial => Alone)'
    BY <1>7 DEF IInv, TypeOK, BaseInv, Alone, vars
  <2>2. ASSUME NEW r \in Runs
        PROVE  /\ Sound(run[r])'
               /\ Known(run[r], alive, gone, version)'
               /\ (Serial /\ run[r].pc # "idle" => Fresh(run[r], gone, st, cell))'
    BY <1>7 DEF IInv, Sound, Known, Fresh, vars
  <2> QED BY <2>1, <2>2 DEF IInv
<1> QED BY <1>1, <1>2, <1>3, <1>4, <1>5, <1>6, <1>7 DEF Next

LEMMA SpecInv == Spec => []IInv
<1>1. Init => IInv
  BY InitHolds, ConstantsOK
<1>2. IInv /\ [Next]_vars => IInv'
  BY StepKeeps, ConstantsOK
<1> QED BY <1>1, <1>2, PTL DEF Spec

(* Every variable keeps its type, under every interleaving and failure.     *)
THEOREM TypeCorrect == Spec => []TypeOK
<1>1. IInv => TypeOK
  BY DEF IInv
<1> QED BY <1>1, SpecInv, PTL

(* Every step but the requests that change the base leaves records alone,   *)
(* the owner's claims apart.                                               *)
LEMMA BaseSteps ==
  ASSUME Next
  PROVE  \/ UNCHANGED base
         \/ \E x \in Records : Claim(x)
         \/ \E r \in Runs : Upsert(r) \/ DeleteRecords(r)
  BY DEF Next, Create, Change, Delete, Cron, Button, Start, Step, ReadEvent, ListRecords,
         Refuse, Stop, Failing

LEMMA LivingStay ==
  ASSUME Serial, IInv, [Next]_vars, NEW x \in Records, st[x] = "managed", x[1] \in alive, st' # st
  PROVE  st'[x] # "removed"
<1>1. ASSUME NEW y \in Records, Claim(y) PROVE st'[x] # "removed"
  BY <1>1 DEF IInv, TypeOK, Claim
<1>2. ASSUME NEW r \in Runs, Upsert(r) PROVE st'[x] # "removed"
  BY <1>2, UpsertKeeps, ConstantsOK
<1>3. ASSUME NEW r \in Runs, DeleteRecords(r) PROVE st'[x] # "removed"
  BY <1>3, DeleteRecordsKeeps, ConstantsOK
<1> QED BY <1>1, <1>2, <1>3, BaseSteps DEF vars, base

LEMMA CellsAdvance ==
  ASSUME Serial, IInv, [Next]_vars, NEW x \in Records, st[x] = "managed", cell' # cell
  PROVE  cell'[x] >= cell[x]
<1>1. ASSUME NEW r \in Runs, Upsert(r) PROVE cell'[x] >= cell[x]
  BY <1>1, UpsertKeeps, ConstantsOK
<1> QED BY <1>1, BaseSteps DEF vars, base, Claim, DeleteRecords

(* Run alone, the projection deletes a record only after its source: no     *)
(* record of a row that is there is deleted (reconcileDeletedRecords).      *)
THEOREM LiveRowsKept ==
  ASSUME Serial
  PROVE  Spec => LiveRowsStay
<1>1. IInv /\ [Next]_vars =>
        [\A x \in Records : st[x] = "managed" /\ x[1] \in alive => st'[x] # "removed"]_st
  BY LivingStay
<1> QED BY <1>1, SpecInv, PTL DEF Spec, LiveRowsStay

(* Run alone, the projection never writes a record back to what its source  *)
(* was before (upsertTable).                                               *)
THEOREM RowsOnlyAdvance ==
  ASSUME Serial
  PROVE  Spec => RowsAdvance
<1>1. IInv /\ [Next]_vars => [\A x \in Records : st[x] = "managed" => cell'[x] >= cell[x]]_cell
  BY CellsAdvance
<1> QED BY <1>1, SpecInv, PTL DEF Spec, RowsAdvance

(* Of what a run is about to delete it knows what was kept since.           *)
Told == \A r \in Runs : \A x \in run[r].doomed : st[x] = "claimed" => <<r, x>> \in late

LEMMA ToldKept ==
  ASSUME ConstantsOK, IInv, Told, [Next]_vars
  PROVE  Told'
<1> USE DEF Told
<1>1. ASSUME NEW y \in Records, Claim(y) PROVE Told'
  BY <1>1 DEF Claim, IInv, TypeOK
<1>2. ASSUME NEW r \in Runs, NEW p, Set(r, p), late' = late,
             \A x \in Records : st'[x] = "claimed" => st[x] = "claimed",
             p.doomed \subseteq Records,
             \A x \in p.doomed : st[x] = "claimed" => x \in run[r].doomed
      PROVE  Told'
  <2>1. \A o \in Runs : run'[o] = IF o = r THEN IF p.pc = "idle" THEN Idle ELSE p ELSE run[o]
    BY <1>2 DEF Set, IInv, TypeOK
  <2>2. \A o \in Runs : run[o].doomed \subseteq Records
    BY DEF IInv, TypeOK, Run
  <2> QED BY <1>2, <2>1, <2>2 DEF Idle
<1>3. ASSUME NEW r \in Runs PROVE run[r] \in Run /\ run[r].doomed \subseteq Records
  BY <1>3 DEF IInv, TypeOK, Run
<1>4. ASSUME NEW r \in Runs, NEW full \in BOOLEAN, NEW events, Start(r, full, events) PROVE Told'
  BY <1>2, <1>4 DEF Start, base, Idle
<1>5. ASSUME NEW r \in Runs, NEW e \in Events, ReadEvent(r, e) PROVE Told'
  <2> DEFINE q == Loaded(run[r], e)
  <2>1. q.doomed = run[r].doomed /\ AfterBatch(q).doomed = q.doomed
    BY <1>3, <1>5 DEF Loaded, AfterBatch, Run
  <2>2. PICK p : p = (IF q.unread = {} THEN AfterBatch(q) ELSE q) /\ Set(r, p)
    BY <1>5 DEF ReadEvent
  <2>3. p.doomed = run[r].doomed
    BY <2>1, <2>2
  <2>4. st' = st /\ late' = late
    BY <1>5 DEF ReadEvent, base
  <2> QED BY <1>2, <1>3, <2>2, <2>3, <2>4
<1>6. ASSUME NEW r \in Runs, Upsert(r) PROVE Told'
  <2>1. PICK part : Set(r, AfterBatch([run[r] EXCEPT !.rest = @ \ part]))
    BY <1>6 DEF Upsert
  <2>2. AfterBatch([run[r] EXCEPT !.rest = @ \ part]).doomed = run[r].doomed
    BY <1>3, <1>6 DEF AfterBatch, Run
  <2>3. late' = late /\ \A x \in Records : st'[x] = "claimed" => st[x] = "claimed"
    BY <1>6 DEF Upsert
  <2> QED BY <1>2, <1>3, <1>6, <2>1, <2>2, <2>3
<1>7. ASSUME NEW r \in Runs, ListRecords(r) PROVE Told'
  <2>1. Set(r, AfterDelete([run[r] EXCEPT !.doomed = Stale(run[r])]))
    BY <1>7 DEF ListRecords
  <2>2. AfterDelete([run[r] EXCEPT !.doomed = Stale(run[r])]).doomed = Stale(run[r])
    BY <1>3, <1>7 DEF AfterDelete, Run
  <2>3. st' = st /\ late' = late
    BY <1>7 DEF ListRecords, base
  <2> QED BY <1>2, <1>7, <2>1, <2>2, <2>3 DEF Stale
<1>8. ASSUME NEW r \in Runs, DeleteRecords(r) PROVE Told'
  <2>1. PICK part : Set(r, AfterDelete([run[r] EXCEPT !.doomed = @ \ part]))
    BY <1>8 DEF DeleteRecords
  <2>2. AfterDelete([run[r] EXCEPT !.doomed = @ \ part]).doomed = run[r].doomed \ part
    BY <1>3, <1>8 DEF AfterDelete, Run
  <2>3. late' = late /\ \A x \in Records : st'[x] = "claimed" => st[x] = "claimed"
    BY <1>8 DEF DeleteRecords
  <2> QED BY <1>2, <1>3, <1>8, <2>1, <2>2, <2>3
<1>9. ASSUME NEW r \in Runs, Refuse(r) PROVE Told'
  <2>1. PICK p \in Refused(run[r]) : Set(r, p)
    BY <1>9 DEF Refuse
  <2>2. p.doomed \subseteq run[r].doomed
    <3>1. CASE run[r].pc = "upsert"
      <4>1. PICK part : p = AfterBatch([run[r] EXCEPT !.rest = @ \ part])
        BY <2>1, <3>1 DEF Refused
      <4> QED BY <1>3, <4>1 DEF AfterBatch, Run
    <3>2. CASE run[r].pc = "delete"
      <4>1. PICK part : p = AfterDelete([run[r] EXCEPT !.doomed = @ \ part])
        BY <2>1, <3>2 DEF Refused
      <4> QED BY <1>3, <4>1 DEF AfterDelete, Run
    <3>3. CASE run[r].pc = "list"
      BY <2>1, <3>3 DEF Refused, Idle
    <3>4. CASE run[r].pc \notin {"upsert", "delete", "list"}
      BY <2>1, <3>4 DEF Refused
    <3> QED BY <3>1, <3>2, <3>3, <3>4
  <2>3. st' = st /\ late' = late
    BY <1>9 DEF Refuse, Failing, base
  <2> QED BY <1>2, <1>3, <1>9, <2>1, <2>2, <2>3
<1>10. ASSUME NEW r \in Runs, Stop(r) PROVE Told'
  BY <1>2, <1>10 DEF Stop, Failing, base, Idle
<1>11. CASE \E i \in Ids : Create(i) \/ Change(i) \/ Delete(i)
  BY <1>11 DEF Create, Change, Delete, base
<1>12. CASE UNCHANGED vars
  BY <1>12 DEF vars
<1>13. CASE Next
  <2>1. CASE \E r \in CronRuns : Cron(r)
    BY <1>4, <2>1 DEF Cron, Runs
  <2>2. CASE \E r \in ButtonRuns, e \in Events : Button(r, e)
    BY <1>4, <2>2 DEF Button, Runs
  <2>3. CASE \E r \in Runs : Step(r)
    BY <1>5, <1>6, <1>7, <1>8, <2>3 DEF Step
  <2>4. CASE \E r \in Runs : Refuse(r) \/ Stop(r)
    BY <1>9, <1>10, <2>4
  <2>5. CASE \E x \in Records : Claim(x)
    BY <1>1, <2>5
  <2> QED BY <1>11, <1>13, <2>1, <2>2, <2>3, <2>4, <2>5 DEF Next
<1> QED BY <1>12, <1>13

(* However runs overlap and whatever fails, the projection never writes     *)
(* what the owner of the base keeps, and deletes of it only what it had     *)
(* listed before it was kept (listManagedRecords, reconcileDeletedRecords). *)
THEOREM ForeignRowsKept == Spec => ForeignRowsStay
<1> DEFINE Stays == \A x \in Records : st[x] = "claimed" =>
                      /\ cell'[x] = cell[x]
                      /\ \/ st'[x] = "claimed"
                         \/ \E r \in Runs : x \in run[r].doomed /\ <<r, x>> \in late
<1>1. ASSUME IInv, NEW x \in Records, Claim(x) PROVE Stays
  BY <1>1 DEF IInv, TypeOK, Claim
<1>2. ASSUME IInv, NEW r \in Runs, Upsert(r) PROVE Stays
  BY <1>2, UpsertKeeps, ConstantsOK
<1>3. ASSUME IInv, Told, NEW r \in Runs, DeleteRecords(r) PROVE Stays
  <2>1. cell' = cell
    BY <1>3 DEF DeleteRecords
  <2>2. \A x \in Records : st'[x] # st[x] => x \in run[r].doomed
    BY <1>3, DeleteRecordsKeeps, ConstantsOK
  <2> QED BY <1>3, <2>1, <2>2 DEF Told
<1>4. IInv /\ Told /\ [Next]_vars => [Stays]_base
  BY <1>1, <1>2, <1>3, BaseSteps DEF vars, base
<1>5. Init => Told
  BY DEF Init, Told, Idle
<1>6. IInv /\ Told /\ [Next]_vars => Told'
  BY ToldKept, ConstantsOK
<1> QED BY <1>4, <1>5, <1>6, SpecInv, PTL DEF Spec, ForeignRowsStay

(* Both, beside runs that overlap in the other half of the composition: a   *)
(* record neither disappears before its source nor goes back behind it.    *)
THEOREM RecordsAlwaysFollow ==
  ASSUME Serial
  PROVE  Settings => RecordsOnlyFollow
<1> DEFINE Stays == setting = "serial" => IInv
<1>1. Settle => Stays
  BY InitHolds, ConstantsOK DEF Settle
<1>2. Stays /\ [Work]_<<setting, vars>> => Stays'
  <2> SUFFICES ASSUME Stays, [Work]_<<setting, vars>>, setting' = "serial" PROVE IInv'
    OBVIOUS
  <2>1. IInv /\ [Next]_vars
    BY DEF Work
  <2> QED BY <2>1, StepKeeps, ConstantsOK
<1>3. Stays /\ [Work]_<<setting, vars>> =>
        [\A x \in Records :
           setting = "serial" /\ st[x] = "managed" =>
             (x[1] \in alive => st'[x] # "removed") /\ cell'[x] >= cell[x]]_<<setting, st, cell>>
  <2> SUFFICES ASSUME Stays, [Work]_<<setting, vars>>, setting = "serial", NEW x \in Records,
                      st[x] = "managed"
               PROVE  (x[1] \in alive => st'[x] # "removed") /\ cell'[x] >= cell[x]
    OBVIOUS
  <2>1. IInv /\ [Next]_vars
    BY DEF Work
  <2>2. x[1] \in alive => st'[x] # "removed"
    <3>1. CASE st' = st
      BY <3>1
    <3>2. CASE st' # st
      BY <2>1, <3>2, LivingStay
    <3> QED BY <3>1, <3>2
  <2>3. cell'[x] >= cell[x]
    <3>1. CASE cell' = cell
      <4>1. cell[x] \in Nat
        BY <2>1, ConstantsOK DEF IInv, TypeOK, Versions
      <4> QED BY <3>1, <4>1
    <3>2. CASE cell' # cell
      BY <2>1, <3>2, CellsAdvance
    <3> QED BY <3>1, <3>2
  <2> QED BY <2>2, <2>3
<1> HIDE DEF Stays
<1> QED BY <1>1, <1>2, <1>3, PTL DEF Settings, RecordsOnlyFollow
============================================================================
