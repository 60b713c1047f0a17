---------------------------- MODULE AirtableSync ----------------------------
(***************************************************************************)
(* The one-way projection of Greenroom's rows into one table of an         *)
(* Airtable base.  A run reads the source event by event, upserts what it  *)
(* read in batches, and, when it read every event, lists the table and     *)
(* deletes the managed records whose source it did not read.  The cron's   *)
(* runs cover every event, the organizer's button covers one; runs overlap *)
(* with each other, with changes of the source and with the owner of the   *)
(* base, who keeps a record by clearing its greenroom_id.                  *)
(*                                                                         *)
(* The ids of the source are generated and never come back, as in every    *)
(* table but Speakers.  A request whose effect happened and whose answer   *)
(* was lost leaves the base as an answered one does: a run goes on alike.  *)
(***************************************************************************)
EXTENDS Naturals, FiniteSets

CONSTANTS
  CronRuns,     \* runs of the schedule, over every event
  ButtonRuns,   \* runs of the Settings button, over one event
  Events,       \* the events of the instance
  Ids,          \* source rows
  EventOf,      \* the event of a source row
  MaxVersion,   \* bound: how often a row's content changes
  MaxRecords,   \* bound: Airtable records ever made for one source row
  MaxFailures,  \* bound: failing requests and stopped workers
  BatchSize,    \* AIRTABLE_BATCH_SIZE
  Serial,       \* TRUE: a run starts only when none is running
  MayClaim      \* TRUE: the owner of the base cleared and clears greenroom_ids

ASSUME ConstantsOK ==
  /\ CronRuns \cap ButtonRuns = {}
  /\ EventOf \in [Ids -> Events]
  /\ MaxVersion \in Nat \ {0} /\ MaxRecords \in Nat \ {0}
  /\ MaxFailures \in Nat /\ BatchSize \in Nat \ {0}
  /\ Serial \in BOOLEAN /\ MayClaim \in BOOLEAN

VARIABLES
  alive,     \* the source rows there are
  gone,      \* the source rows deleted
  version,   \* the content of each source row
  st,        \* Airtable records: "managed" with a greenroom_id, "claimed" without
  cell,      \* the content of each record
  late,      \* history: <<run, record>>, claimed after the run had listed it
  run,       \* the runs' own state
  failures

vars == <<alive, gone, version, st, cell, late, run, failures>>
source == <<alive, gone, version>>
base == <<st, cell, late>>

Runs == CronRuns \cup ButtonRuns
Versions == 1..MaxVersion
Records == Ids \X (1..MaxRecords)

Run ==
  [pc : {"idle", "read", "upsert", "list", "delete"},  \* the request it makes next
   full : BOOLEAN,              \* it covers every event
   unread : SUBSET Events,      \* events it has yet to read
   proj : [Ids -> 0..MaxVersion],  \* the rows it read, 0 where there was none
   rest : SUBSET Ids,           \* rows it has yet to write
   doomed : SUBSET Records]     \* records it has yet to delete

TypeOK ==
  /\ alive \subseteq Ids /\ gone \subseteq Ids
  /\ version \in [Ids -> Versions]
  /\ st \in [Records -> {"absent", "managed", "claimed", "removed"}]
  /\ cell \in [Records -> Versions]
  /\ late \subseteq Runs \X Records
  /\ run \in [Runs -> Run]
  /\ failures \in 0..MaxFailures

Idle ==
  [pc |-> "idle", full |-> FALSE, unread |-> {}, proj |-> [i \in Ids |-> 0],
   rest |-> {}, doomed |-> {}]

InFlight == {r \in Runs : run[r].pc # "idle"}
Managed(i) == {x \in Records : x[1] = i /\ st[x] = "managed"}

(* A base synced some time ago, records of deleted rows and records of the  *)
(* owner's own included                                                    *)
Init ==
  /\ alive \in SUBSET Ids /\ gone \in SUBSET (Ids \ alive)
  /\ version = [i \in Ids |-> 1] /\ cell = [x \in Records |-> 1]
  /\ st \in [Records -> {"absent", "managed", "claimed"}]
  /\ \A x \in Records : /\ st[x] # "absent" => x[2] = 1
                        /\ st[x] = "claimed" => MayClaim
                        /\ st[x] = "managed" => x[1] \in alive \cup gone
  /\ late = {} /\ run = [r \in Runs |-> Idle] /\ failures = 0

----------------------------------------------------------------------------
At(r, label) == run[r].pc = label
(* A run that ends forgets everything. *)
Set(r, q) == run' = [run EXCEPT ![r] = IF q.pc = "idle" THEN Idle ELSE q]

(* The source: rows are created, changed and deleted. *)
Create(i) ==
  /\ i \notin alive \cup gone
  /\ alive' = alive \cup {i}
  /\ UNCHANGED <<gone, version, base, run, failures>>

Change(i) ==
  /\ i \in alive /\ version[i] < MaxVersion
  /\ version' = [version EXCEPT ![i] = @ + 1]
  /\ UNCHANGED <<alive, gone, base, run, failures>>

Delete(i) ==
  /\ i \in alive
  /\ alive' = alive \ {i} /\ gone' = gone \cup {i}
  /\ UNCHANGED <<version, base, run, failures>>

(* The owner of the base keeps a record for themselves. *)
Claim(x) ==
  /\ MayClaim /\ st[x] = "managed"
  /\ st' = [st EXCEPT ![x] = "claimed"]
  /\ late' = late \cup {<<r, x>> : r \in {o \in Runs : x \in run[o].doomed}}
  /\ UNCHANGED <<source, cell, run, failures>>

----------------------------------------------------------------------------
Start(r, full, events) ==
  /\ At(r, "idle") /\ (Serial => InFlight = {})
  /\ Set(r, [Idle EXCEPT !.pc = "read", !.full = full, !.unread = events])
  /\ UNCHANGED <<source, base, failures>>

Cron(r) == Start(r, TRUE, Events)
Button(r, e) == Start(r, FALSE, {e})

(* Mutant: rows are written and never reconciled *)
AfterBatchOnly(q) == [q EXCEPT !.pc = IF q.rest # {} THEN "upsert" ELSE "idle"]

(* What follows a batch, or what was read *)
AfterBatch(q) ==
  [q EXCEPT !.pc = IF q.rest # {} THEN "upsert" ELSE IF q.full THEN "list" ELSE "idle"]
AfterDelete(q) == [q EXCEPT !.pc = IF q.doomed # {} THEN "delete" ELSE "idle"]

(* loadEvent: the rows of one event are one query *)
Loaded(q, e) ==
  LET read == {i \in alive : EventOf[i] = e}
  IN [q EXCEPT !.unread = @ \ {e}, !.rest = @ \cup read,
               !.proj = [i \in Ids |-> IF i \in read THEN version[i] ELSE @[i]]]

ReadEvent(r, e) ==
  /\ At(r, "read") /\ e \in run[r].unread
  /\ LET q == Loaded(run[r], e) IN Set(r, IF q.unread = {} THEN AfterBatch(q) ELSE q)
  /\ UNCHANGED <<source, base, failures>>

Batch(whole) ==
  {part \in SUBSET whole :
     Cardinality(part) = IF Cardinality(whole) < BatchSize THEN Cardinality(whole)
                         ELSE BatchSize}

(* performUpsert on greenroom_id: the managed record of the row, or a new one *)
Unused(i) == {n \in 1..MaxRecords : st[<<i, n>>] = "absent"}
Target(i) ==
  IF Managed(i) # {} THEN Managed(i)
  ELSE {<<i, CHOOSE n \in Unused(i) : TRUE>>}

Upsert(r) ==
  /\ At(r, "upsert")
  /\ \E part \in Batch(run[r].rest) :
       /\ \A i \in part : Managed(i) # {} \/ Unused(i) # {}
       /\ LET targets == UNION {Target(i) : i \in part} IN
          /\ st' = [x \in Records |-> IF x \in targets THEN "managed" ELSE st[x]]
          /\ cell' = [x \in Records |-> IF x \in targets THEN run[r].proj[x[1]] ELSE cell[x]]
       /\ Set(r, AfterBatch([run[r] EXCEPT !.rest = @ \ part]))
  /\ UNCHANGED <<source, late, failures>>

(* Mutant: records without a greenroom_id count as stale *)
StaleOrOwned(q) == {x \in Records : st[x] \in {"managed", "claimed"} /\ q.proj[x[1]] = 0}

(* Managed records whose source is not in the projection *)
Stale(q) == {x \in Records : st[x] = "managed" /\ q.proj[x[1]] = 0}

ListRecords(r) ==
  /\ At(r, "list")
  /\ Set(r, AfterDelete([run[r] EXCEPT !.doomed = Stale(run[r])]))
  /\ UNCHANGED <<source, base, failures>>

(* By record id, whatever the record has become; Airtable refuses a batch   *)
(* with a record that is no longer there, and the run goes on.             *)
DeleteRecords(r) ==
  /\ At(r, "delete")
  /\ \E part \in Batch(run[r].doomed) :
       /\ st' = IF \E x \in part : st[x] = "removed" THEN st
                ELSE [x \in Records |-> IF x \in part THEN "removed" ELSE st[x]]
       /\ Set(r, AfterDelete([run[r] EXCEPT !.doomed = @ \ part]))
  /\ UNCHANGED <<source, cell, late, failures>>

Failing ==
  /\ failures < MaxFailures
  /\ failures' = failures + 1
  /\ UNCHANGED <<source, base>>

(* Mutant: the listing's failure is taken for an empty projection *)
RefusedBlindly(q) ==
  IF q.pc = "list" THEN {[q EXCEPT !.pc = "delete", !.doomed = {x \in Records : st[x] = "managed"}]}
  ELSE {}

(* A batch that fails is counted and skipped, a listing that fails ends the *)
(* table.                                                                  *)
Refused(q) ==
  CASE q.pc = "upsert" -> {AfterBatch([q EXCEPT !.rest = @ \ part]) : part \in Batch(q.rest)}
    [] q.pc = "delete" -> {AfterDelete([q EXCEPT !.doomed = @ \ part]) : part \in Batch(q.doomed)}
    [] q.pc = "list" -> {Idle}
    [] OTHER -> {}

Refuse(r) == /\ Failing
             /\ \E q \in Refused(run[r]) : Set(r, q)

(* The worker stops, or reading the source throws *)
Stop(r) == r \in InFlight /\ Failing /\ Set(r, Idle)

Step(r) ==
  \/ \E e \in Events : ReadEvent(r, e)
  \/ Upsert(r) \/ ListRecords(r) \/ DeleteRecords(r)

Next ==
  \/ \E i \in Ids : Create(i) \/ Change(i) \/ Delete(i)
  \/ \E x \in Records : Claim(x)
  \/ \E r \in CronRuns : Cron(r)
  \/ \E r \in ButtonRuns, e \in Events : Button(r, e)
  \/ \E r \in Runs : Step(r) \/ Refuse(r) \/ Stop(r)

Spec == Init /\ [][Next]_vars

(* The schedule fires every 15 minutes, and a run under way goes on; nobody *)
(* has to press the button.                                                *)
FairSpec ==
  /\ Spec
  /\ \A r \in CronRuns : WF_vars(Cron(r))
  /\ \A r \in Runs : WF_vars(Step(r))

----------------------------------------------------------------------------
(* Properties *)

(* What the owner of the base keeps for themselves is never written, and    *)
(* deleted only by a run that had listed it for deletion before it was      *)
(* kept, however runs overlap or fail (listManagedRecords and then          *)
(* reconcileDeletedRecords, which deletes by record id).                    *)
ForeignRowsStay ==
  [][\A x \in Records : st[x] = "claimed" =>
       /\ cell'[x] = cell[x]
       /\ \/ st'[x] = "claimed"
          \/ \E r \in Runs : x \in run[r].doomed /\ <<r, x>> \in late]_base

(* A record is deleted only after its source: the base never loses the      *)
(* record of a row that is there (reconcileDeletedRecords).                 *)
LiveRowsStay ==
  [][\A x \in Records : st[x] = "managed" /\ x[1] \in alive => st'[x] # "removed"]_st

(* A record never goes back to what its source was before (upsertTable).    *)
RowsAdvance ==
  [][\A x \in Records : st[x] = "managed" => cell'[x] >= cell[x]]_cell

(* However runs overlap, and whatever failed on the way, the table ends up  *)
(* equal to the source once both have come to rest, and stays so            *)
(* (runAirtableSync).                                                       *)
InSync ==
  /\ \A i \in alive : \E x \in Managed(i) : cell[x] = version[i]
  /\ \A x \in Records : st[x] = "managed" => x[1] \in alive
MirrorConverges == <>[]InSync
============================================================================
