------------------------- MODULE ReviewRoundsProofs -------------------------
(***************************************************************************)
(* Theorems about module ReviewRounds, for any sets of requests, slots and *)
(* criteria, under every interleaving and with failures anywhere; then     *)
(* about calls, lists and pages of the API, and about nudges and scores,   *)
(* which are checked beside it.                                            *)
(***************************************************************************)
EXTENDS MCOutside, FiniteSetTheorems, SequenceTheorems, WellFoundedInduction, TLAPS

AtRest == {"idle"} \cup Ended
OnSlot == {"insert", "mine", "save", "status", "recuse", "unassign", "unscored"}

(* What a request knows at each of its statements *)
Sound(q) ==
  /\ q \in Request
  /\ q.pc \in OnSlot => q.slot \in Slots
  /\ q.pc = "insert" => q.slot \in q.todo
  /\ q.pc \in {"find", "insert"} => q.id = None
  /\ q.pc = "save" => q.asks \in Criteria
  /\ q.pc = "mine" => /\ q.kind \in {"score", "recuse"}
                      /\ q.kind = "score" => q.asks \in Criteria
  /\ q.pc \in {"list", "scores"} => q.kind \in {"edit", "delete"}
  /\ q.pc = "remove" => q.kind = "delete"
  /\ q.pc = "unassign" => q.confirmed

(* A request inserts at most one row for a slot. *)
Consumed(s, x) == req[x].pc # "idle" /\ s \notin req[x].todo
RowsConsumed == \A s \in Slots, x \in Requests : row[s].id = x => Consumed(s, x)
Remembers(q) == \A x \in Requests : q.pc \in OnSlot /\ q.id = x => Consumed(q.slot, x)

(* Between saving a card and reporting it, the card is there as long as the *)
(* assignment is.                                                          *)
Filed(q) == q.pc = "status" /\ Stands(q) => card[q.slot] # None

IInv ==
  /\ TypeOK
  /\ DoneHasCard
  /\ RowsConsumed
  /\ \A r \in Requests : Sound(req[r]) /\ Remembers(req[r]) /\ Filed(req[r])

(* What one statement of request r, which becomes q, may do to a slot *)
SlotStep(r, q, s) ==
  \/ row'[s] = row[s] /\ (card'[s] = card[s] \/ card'[s] # None)
  \/ row'[s] = NoRow
  \/ /\ row[s] # NoRow /\ row'[s].id = row[s].id /\ card'[s] = card[s]
     /\ row'[s].st = "done" => card[s] # None
  \/ /\ row[s] = NoRow /\ row'[s] = [id |-> r, st |-> "pending"]
     /\ s \in req[r].todo /\ s \notin q.todo

----------------------------------------------------------------------------
LEMMA IdleRequest == Idle \in Request
  BY DEF Idle, Request, Labels

LEMMA RestingSound ==
  ASSUME NEW q, Sound(q), q.pc # "idle"
  PROVE  /\ Sound(Resting(q)) /\ Resting(q).pc = q.pc
         /\ Resting(q) = q \/ (q.pc \in Ended /\ Resting(q).todo = {})
<1>1. CASE q.pc \notin Ended
  BY <1>1 DEF Resting
<1>2. CASE q.pc \in Ended
  <2> DEFINE e == [Idle EXCEPT !.pc = q.pc]
  <2>1. e \in Request /\ e.pc = q.pc /\ e.todo = {}
    BY <1>2, IdleRequest DEF Idle, Request, Labels
  <2>2. Sound(e)
    BY <1>2, <2>1 DEF Sound, Ended, OnSlot
  <2> QED BY <1>2, <2>1, <2>2 DEF Resting
<1> QED BY <1>1, <1>2

(* One statement of a request keeps the invariant *)
LEMMA Becomes ==
  ASSUME ConstantsOK, IInv, NEW r \in Requests, NEW q, Sound(q), q.pc # "idle", Set(r, q),
         round' \in [criteria : Criteria \cup {None}, open : BOOLEAN],
         row' \in [Slots -> Assignment \cup {NoRow}],
         card' \in [Slots -> Criteria \cup {None}],
         req[r].pc = "idle" \/ q.todo \subseteq req[r].todo,
         \A x \in Requests : q.pc \in OnSlot /\ q.id = x => Consumed(q.slot, x),
         q.pc = "status" /\ Stands(q) => card'[q.slot] # None,
         \A s \in Slots : SlotStep(r, q, s)
  PROVE  IInv'
<1>1. /\ req' = [req EXCEPT ![r] = Resting(q)]
      /\ Sound(Resting(q)) /\ Resting(q).pc = q.pc
      /\ Resting(q) = q \/ (q.pc \in Ended /\ Resting(q).todo = {})
  BY RestingSound DEF Set
<1>2. /\ req' \in [Requests -> Request]
      /\ req'[r] = Resting(q)
      /\ \A o \in Requests \ {r} : req'[o] = req[o]
  BY <1>1 DEF IInv, TypeOK, Sound
<1>3. TypeOK'
  BY <1>2 DEF TypeOK
<1>4. \A o \in Requests : Sound(req'[o])
  BY <1>1, <1>2 DEF IInv
<1>5. \A s \in Slots, x \in Requests : Consumed(s, x) => Consumed(s, x)'
  BY <1>1, <1>2 DEF Consumed
<1>6. DoneHasCard'
  <2> SUFFICES ASSUME NEW s \in Slots, row'[s].st = "done" PROVE card'[s] # None
    BY DEF DoneHasCard
  <2> QED BY DEF SlotStep, NoRow, IInv, DoneHasCard
<1>7. RowsConsumed'
  <2> SUFFICES ASSUME NEW s \in Slots, NEW x \in Requests, row'[s].id = x
               PROVE  Consumed(s, x)'
    BY DEF RowsConsumed
  <2>1. CASE row'[s].id = row[s].id
    BY <1>5, <2>1 DEF IInv, RowsConsumed
  <2>2. CASE row'[s].id # row[s].id
    <3>1. x # None
      BY DEF ConstantsOK
    <3>2. x = r /\ s \in req[r].todo /\ s \notin q.todo
      BY <2>2, <3>1 DEF SlotStep, NoRow
    <3> QED BY <1>1, <1>2, <3>2 DEF Consumed
  <2> QED BY <2>1, <2>2
<1>8. ASSUME NEW o \in Requests PROVE Remembers(req[o])'
  <2> SUFFICES ASSUME NEW x \in Requests, req'[o].pc \in OnSlot, req'[o].id = x
               PROVE  req'[x].pc # "idle" /\ req'[o].slot \notin req'[x].todo
    BY DEF Remembers, Consumed
  <2>1. req'[o].slot \in Slots
    BY <1>4 DEF Sound
  <2>2. Consumed(req'[o].slot, x)
    <3>1. CASE o # r
      BY <1>2, <3>1 DEF IInv, Remembers
    <3>2. CASE o = r
      BY <1>1, <1>2, <3>2 DEF OnSlot, Ended
    <3> QED BY <3>1, <3>2
  <2> QED BY <1>5, <2>1, <2>2 DEF Consumed
<1>9. ASSUME NEW o \in Requests PROVE Filed(req[o])'
  <2> SUFFICES ASSUME req'[o].pc = "status", row'[req'[o].slot] # NoRow,
                      row'[req'[o].slot].id = req'[o].id
               PROVE  card'[req'[o].slot] # None
    BY DEF Filed, Stands
  <2> DEFINE s == req'[o].slot
  <2>1. s \in Slots
    BY <1>4 DEF Sound, OnSlot
  <2>2. CASE row[s] # NoRow /\ row[s].id = req'[o].id
    <3>1. CASE o # r
      <4>1. card[s] # None
        BY <1>2, <2>2, <3>1 DEF IInv, Filed, Stands
      <4>2. SlotStep(r, q, s)
        BY <2>1
      <4>3. row'[s] # NoRow
        OBVIOUS
      <4>4. \A t \in Slots :
              SlotStep(r, q, t) /\ row'[t] # NoRow /\ row[t] # NoRow /\ card[t] # None
                => card'[t] # None
        BY DEF SlotStep
      <4> QED BY <2>1, <2>2, <4>1, <4>2, <4>3, <4>4
    <3>2. CASE o = r
      BY <1>1, <1>2, <2>2, <3>2 DEF Stands, Ended
    <3> QED BY <3>1, <3>2
  <2>3. CASE ~(row[s] # NoRow /\ row[s].id = req'[o].id)
    <3>1. /\ row'[s].id = r /\ s \in req[r].todo
      BY <2>1, <2>3 DEF SlotStep
    <3>2. req'[o].id = r
      BY <3>1
    <3>3. Consumed(s, r)
      <4>1. CASE o # r
        BY <1>2, <3>2, <4>1 DEF IInv, Remembers, OnSlot
      <4>2. CASE o = r
        BY <1>1, <1>2, <3>2, <4>2 DEF OnSlot, Ended
      <4> QED BY <4>1, <4>2
    <3> QED BY <3>1, <3>3 DEF Consumed
  <2> QED BY <2>2, <2>3
<1> QED BY <1>3, <1>4, <1>6, <1>7, <1>8, <1>9 DEF IInv, Sound

(* A statement that changes no slot *)
LEMMA Moves ==
  ASSUME ConstantsOK, IInv, NEW r \in Requests, NEW q, Sound(q), q.pc # "idle", Set(r, q),
         round' \in [criteria : Criteria \cup {None}, open : BOOLEAN],
         row' = row, card' = card, q.pc # "status",
         req[r].pc = "idle" \/ q.todo \subseteq req[r].todo,
         \A x \in Requests : q.pc \in OnSlot /\ q.id = x => Consumed(q.slot, x)
  PROVE  IInv'
<1>1. \A s \in Slots : SlotStep(r, q, s)
  BY DEF SlotStep
<1>2. /\ row' \in [Slots -> Assignment \cup {NoRow}]
      /\ card' \in [Slots -> Criteria \cup {None}]
  BY DEF IInv, TypeOK
<1> QED BY <1>1, <1>2, Becomes

LEMMA BeginKeeps ==
  ASSUME ConstantsOK, IInv, NEW r \in Requests, Begin(r)
  PROVE  IInv'
<1>1. /\ req[r].pc = "idle"
      /\ row' = row /\ card' = card /\ round' = round
  BY DEF Begin, UpdateRound, DeleteRound, Assign, UnassignSubmission, SubmitScorecard,
         RecuseFromSubmission, Open, At, db
<1>2. round' \in [criteria : Criteria \cup {None}, open : BOOLEAN]
  BY <1>1 DEF IInv, TypeOK
<1>3. ASSUME NEW c \in Criteria, NEW open \in BOOLEAN, UpdateRound(r, c, open) PROVE IInv'
  <2> DEFINE q == [Idle EXCEPT !.pc = AfterRead(c), !.kind = "edit",
                               !.asks = c, !.opens = open]
  <2>1. AfterRead(c) \in {"update", "list"} /\ "edit" \in Kinds
    BY <1>3 DEF AfterRead, UpdateRound, Open
  <2>2. q \in Request /\ q.pc = AfterRead(c) /\ q.kind = "edit"
    BY <2>1 DEF Idle, Request, Labels
  <2>3. Sound(q) /\ q.pc \in {"update", "list"}
    BY <2>1, <2>2 DEF Sound, OnSlot
  <2>4. Set(r, q)
    BY <1>3 DEF UpdateRound
  <2> QED BY <1>1, <1>2, <2>3, <2>4, Moves DEF OnSlot
<1>4. ASSUME NEW confirmed \in BOOLEAN, DeleteRound(r, confirmed) PROVE IInv'
  <2> DEFINE label == IF confirmed THEN "remove" ELSE "list"
             q == [Idle EXCEPT !.pc = label, !.kind = "delete", !.confirmed = confirmed]
  <2>1. label \in {"remove", "list"} /\ "delete" \in Kinds
    BY <1>4 DEF DeleteRound, Open
  <2>2. q \in Request /\ q.pc = label /\ q.kind = "delete"
    BY <2>1 DEF Idle, Request, Labels
  <2>3. Sound(q) /\ q.pc \in {"remove", "list"}
    BY <2>1, <2>2 DEF Sound, OnSlot
  <2>4. Set(r, q)
    BY <1>4 DEF DeleteRound
  <2> QED BY <1>1, <1>2, <2>3, <2>4, Moves DEF OnSlot
<1>5. ASSUME NEW slots \in SUBSET Slots, Assign(r, slots) PROVE IInv'
  <2> DEFINE q == [Idle EXCEPT !.pc = "find", !.kind = "assign", !.todo = slots]
  <2>1. q \in Request /\ q.pc = "find" /\ q.id = None
    BY <1>5 DEF Idle, Request, Labels, Assign, Open
  <2>2. Sound(q)
    BY <2>1 DEF Sound, OnSlot
  <2>3. Set(r, q)
    BY <1>5 DEF Assign
  <2> QED BY <1>1, <1>2, <2>1, <2>2, <2>3, Moves DEF OnSlot
<1>6. ASSUME NEW s \in Slots, NEW confirmed \in BOOLEAN, UnassignSubmission(r, s, confirmed)
      PROVE  IInv'
  <2> DEFINE label == IF confirmed THEN "unassign" ELSE "unscored"
             q == [Idle EXCEPT !.pc = label, !.kind = "unassign", !.slot = s,
                               !.id = row[s].id, !.confirmed = confirmed]
  <2>1. label \in {"unassign", "unscored"} /\ "unassign" \in Kinds
        /\ (label = "unassign" => confirmed)
    BY <1>6 DEF UnassignSubmission, Open
  <2>2. row[s].id \in Ids \cup {None}
    BY DEF IInv, TypeOK, Assignment, NoRow
  <2>3. q \in Request /\ q.pc = label /\ q.slot = s /\ q.id = row[s].id /\ q.confirmed = confirmed
    BY <2>1, <2>2 DEF Idle, Request, Labels
  <2>4. Sound(q) /\ q.pc \in {"unassign", "unscored"}
    BY <2>1, <2>3 DEF Sound, OnSlot
  <2>5. \A x \in Requests : q.id = x => Consumed(q.slot, x)
    BY <2>3 DEF IInv, RowsConsumed
  <2>6. Set(r, q)
    BY <1>6 DEF UnassignSubmission
  <2> QED BY <1>1, <1>2, <2>4, <2>5, <2>6, Moves
<1>7. ASSUME NEW s \in Slots, SubmitScorecard(r, s) PROVE IInv'
  <2> DEFINE q == [Idle EXCEPT !.pc = "mine", !.kind = "score", !.slot = s,
                               !.asks = round.criteria, !.opens = round.open]
  <2>1. round.criteria \in Criteria /\ round.open \in BOOLEAN
    BY <1>7 DEF SubmitScorecard, Open, Exists, IInv, TypeOK
  <2>2. /\ q \in Request /\ q.pc = "mine" /\ q.kind = "score" /\ q.slot = s
        /\ q.asks = round.criteria /\ q.id = None
    BY <1>7, <2>1 DEF Idle, Request, Labels, SubmitScorecard, Open
  <2>3. Sound(q)
    BY <2>1, <2>2 DEF Sound, OnSlot
  <2>4. \A x \in Requests : q.id # x
    BY <2>2 DEF ConstantsOK
  <2>5. Set(r, q)
    BY <1>7 DEF SubmitScorecard
  <2> QED BY <1>1, <1>2, <2>2, <2>3, <2>4, <2>5, Moves
<1>8. ASSUME NEW s \in Slots, RecuseFromSubmission(r, s) PROVE IInv'
  <2> DEFINE q == [Idle EXCEPT !.pc = "mine", !.kind = "recuse", !.slot = s]
  <2>1. q \in Request /\ q.pc = "mine" /\ q.kind = "recuse" /\ q.slot = s /\ q.id = None
    BY <1>8 DEF Idle, Request, Labels, RecuseFromSubmission, Open
  <2>2. Sound(q)
    BY <2>1 DEF Sound, OnSlot
  <2>3. \A x \in Requests : q.id # x
    BY <2>1 DEF ConstantsOK
  <2>4. Set(r, q)
    BY <1>8 DEF RecuseFromSubmission
  <2> QED BY <1>1, <1>2, <2>1, <2>2, <2>3, <2>4, Moves
<1> QED BY <1>3, <1>4, <1>5, <1>6, <1>7, <1>8 DEF Begin

----------------------------------------------------------------------------
(* A request that only goes on to another statement *)
LEMMA Onward ==
  ASSUME ConstantsOK, IInv, NEW r \in Requests, req[r].pc \notin AtRest,
         NEW label \in Ended \cup {"update", "remove"},
         label = "remove" => req[r].kind = "delete"
  PROVE  LET q == [req[r] EXCEPT !.pc = label]
         IN Sound(q) /\ q.pc = label /\ q.todo = req[r].todo
<1> DEFINE q == [req[r] EXCEPT !.pc = label]
<1>1. req[r] \in Request
  BY DEF IInv, TypeOK
<1>2. q \in Request /\ q.pc = label /\ q.todo = req[r].todo /\ q.kind = req[r].kind
  BY <1>1 DEF Request, Labels, Ended
<1>3. Sound(q)
  BY <1>2 DEF Sound, OnSlot, Ended
<1> QED BY <1>2, <1>3

(* Statements that read, and the two that write the round *)
LEMMA ReadKeeps ==
  ASSUME ConstantsOK, IInv, NEW r \in Requests,
         ReadMine(r) \/ ListAssignments(r) \/ ReadScores(r) \/ Update(r)
  PROVE  IInv'
<1>1. /\ req[r].pc \notin AtRest /\ req[r].pc # "idle" /\ req[r] \in Request
      /\ row' = row /\ card' = card
  BY DEF ReadMine, ListAssignments, ReadScores, Update, At, AtRest, Ended, db, IInv, TypeOK
<1>2. CASE ReadMine(r)
  <2> DEFINE id == row[req[r].slot].id
             label == AfterMine(req[r])
             q == [req[r] EXCEPT !.id = id, !.pc = label]
  <2>1. /\ req[r].slot \in Slots /\ req[r].kind \in {"score", "recuse"}
        /\ req[r].kind = "score" => req[r].asks \in Criteria
    BY <1>2 DEF ReadMine, At, IInv, Sound, OnSlot
  <2>2. /\ label \in {"refused", "recuse", "save"}
        /\ label = "save" => req[r].kind = "score"
    BY <2>1 DEF AfterMine
  <2>3. id \in Ids \cup {None} /\ \A x \in Requests : id = x => Consumed(req[r].slot, x)
    BY <2>1 DEF IInv, TypeOK, Assignment, NoRow, RowsConsumed
  <2>4. /\ q \in Request /\ q.pc = label /\ q.slot = req[r].slot /\ q.id = id
        /\ q.asks = req[r].asks /\ q.todo = req[r].todo
    BY <1>1, <2>2, <2>3, ZenonT(60) DEF Request, Labels, Ended
  <2>5. Sound(q)
    BY <2>1, <2>2, <2>4 DEF Sound
  <2>6. Set(r, q) /\ round' = round
    BY <1>2 DEF ReadMine, db
  <2>7. round' \in [criteria : Criteria \cup {None}, open : BOOLEAN]
    BY <2>6 DEF IInv, TypeOK
  <2>8. \A x \in Requests : q.pc \in OnSlot /\ q.id = x => Consumed(q.slot, x)
    BY <2>3, <2>4
  <2>9. q.pc \notin {"idle", "status"} /\ q.todo \subseteq req[r].todo
    BY <2>2, <2>4
  <2> QED BY <1>1, <2>5, <2>6, <2>7, <2>8, <2>9, Moves
<1>3. CASE ListAssignments(r)
  <2> DEFINE listed == {x \in RowIds : row[x[1]].id = x[2]}
             label == IF listed = {} THEN Unlocked(req[r]) ELSE "scores"
             q == [req[r] EXCEPT !.listed = listed, !.pc = label]
  <2>1. req[r].kind \in {"edit", "delete"}
    BY <1>3 DEF ListAssignments, At, IInv, Sound
  <2>2. /\ label \in {"update", "remove", "scores"}
        /\ label = "remove" => req[r].kind = "delete"
    BY <2>1 DEF Unlocked
  <2>3. listed \in SUBSET RowIds /\ label \in Labels
    BY <2>2 DEF Labels, Ended
  <2> HIDE DEF listed, label
  <2>4. q \in Request /\ q.pc = label /\ q.kind = req[r].kind /\ q.todo = req[r].todo
    BY <1>1, <2>3 DEF Request
  <2>5. Sound(q)
    BY <2>1, <2>2, <2>4 DEF Sound, OnSlot
  <2>6. Set(r, q) /\ round' = round
    BY <1>3 DEF ListAssignments, db, listed, label
  <2>7. round' \in [criteria : Criteria \cup {None}, open : BOOLEAN]
    BY <2>6 DEF IInv, TypeOK
  <2>8. q.pc \notin OnSlot \cup {"idle", "status"} /\ q.todo \subseteq req[r].todo
    BY <2>2, <2>4 DEF OnSlot
  <2> QED BY <1>1, <2>5, <2>6, <2>7, <2>8, Moves
<1>4. CASE ReadScores(r)
  <2> DEFINE label == IF Scored(req[r].listed) THEN "refused" ELSE Unlocked(req[r])
             q == [req[r] EXCEPT !.pc = label]
  <2>1. req[r].kind \in {"edit", "delete"}
    BY <1>4 DEF ReadScores, At, IInv, Sound
  <2>2. label \in {"update", "remove", "refused"} /\ (label = "remove" => req[r].kind = "delete")
    BY <2>1 DEF Unlocked
  <2>4. Set(r, q) /\ round' = round
    BY <1>4 DEF ReadScores, Goto, db
  <2> HIDE DEF label
  <2>3. Sound(q) /\ q.pc = label /\ q.todo = req[r].todo
    BY <1>1, <2>2, Onward DEF Ended
  <2>5. round' \in [criteria : Criteria \cup {None}, open : BOOLEAN]
    BY <2>4 DEF IInv, TypeOK
  <2>6. q.pc \notin OnSlot \cup {"idle", "status"}
    BY <2>2, <2>3 DEF OnSlot
  <2> QED BY <1>1, <2>3, <2>4, <2>5, <2>6, Moves
<1>5. CASE Update(r)
  <2> DEFINE label == IF Exists THEN "done" ELSE "failed"
             q == [req[r] EXCEPT !.pc = label]
  <2>1. label \in {"done", "failed"}
    OBVIOUS
  <2>3. Set(r, q) /\ (round' = round \/ round' = [criteria |-> req[r].asks, open |-> req[r].opens])
    BY <1>5 DEF Update, Goto
  <2> HIDE DEF label
  <2>2. Sound(q) /\ q.pc = label /\ q.todo = req[r].todo
    BY <1>1, <2>1, Onward DEF Ended
  <2>4. req[r].asks \in Criteria \cup {None} /\ req[r].opens \in BOOLEAN
    BY <1>1 DEF Request
  <2>5. round' \in [criteria : Criteria \cup {None}, open : BOOLEAN]
    BY <2>3, <2>4 DEF IInv, TypeOK
  <2>6. q.pc \notin OnSlot \cup {"idle", "status"}
    BY <2>1, <2>2 DEF OnSlot
  <2> QED BY <1>1, <2>2, <2>3, <2>5, <2>6, Moves
<1> QED BY <1>2, <1>3, <1>4, <1>5

(* The round's deletion empties every slot *)
LEMMA RemoveKeeps ==
  ASSUME ConstantsOK, IInv, NEW r \in Requests, Remove(r)
  PROVE  IInv'
<1> DEFINE q == [req[r] EXCEPT !.pc = "done"]
<1>1. req[r].pc \notin AtRest
  BY DEF Remove, At, AtRest, Ended
<1>2. Sound(q) /\ q.pc = "done" /\ q.todo = req[r].todo
  BY <1>1, Onward DEF Ended
<1>3. Set(r, q) /\ round' = [round EXCEPT !.criteria = None]
      /\ row' = [s \in Slots |-> NoRow] /\ card' = [s \in Slots |-> None]
  BY DEF Remove, Goto
<1>4. round' \in [criteria : Criteria \cup {None}, open : BOOLEAN]
  BY <1>3 DEF IInv, TypeOK
<1>5. /\ row' \in [Slots -> Assignment \cup {NoRow}]
      /\ card' \in [Slots -> Criteria \cup {None}]
      /\ \A s \in Slots : SlotStep(r, q, s)
  BY <1>3 DEF SlotStep
<1>6. q.pc \notin OnSlot \cup {"idle", "status"}
  BY <1>2 DEF OnSlot
<1> QED BY <1>2, <1>3, <1>4, <1>5, <1>6, Becomes

(* Handing work out *)
LEMMA AssignKeeps ==
  ASSUME ConstantsOK, IInv, NEW r \in Requests, FindAssignment(r) \/ InsertAssignment(r)
  PROVE  IInv'
<1>1. /\ req[r].pc \notin AtRest /\ req[r] \in Request
      /\ round' = round /\ round' \in [criteria : Criteria \cup {None}, open : BOOLEAN]
  BY DEF FindAssignment, InsertAssignment, At, AtRest, Ended, db, IInv, TypeOK
<1>2. CASE FindAssignment(r)
  <2>1. row' = row /\ card' = card
    BY <1>2 DEF FindAssignment, db
  <2>2. PICK s \in req[r].todo :
          IF row[s] # NoRow
          THEN Set(r, [req[r] EXCEPT !.todo = @ \ {s}, !.pc = AfterAssign(req[r].todo \ {s})])
          ELSE Set(r, [req[r] EXCEPT !.slot = s, !.pc = "insert"])
    BY <1>2 DEF FindAssignment
  <2>3. s \in Slots /\ req[r].todo \subseteq Slots
    BY <1>1 DEF Request
  <2>4. CASE row[s] # NoRow
    <3> DEFINE todo == req[r].todo \ {s}
               label == AfterAssign(todo)
               q == [req[r] EXCEPT !.todo = todo, !.pc = label]
    <3>1. label \in {"done", "find"}
      BY DEF AfterAssign
    <3>2. /\ q \in Request /\ q.pc = label /\ q.todo = todo
          /\ q.id = req[r].id /\ req[r].id = None
      BY <1>1, <1>2, <2>3, <3>1 DEF Request, Labels, Ended, FindAssignment, At, IInv, Sound
    <3>3. Sound(q) /\ q.pc \notin OnSlot \cup {"idle", "status"} /\ q.todo \subseteq req[r].todo
      BY <3>1, <3>2 DEF Sound, OnSlot
    <3>4. Set(r, q)
      BY <2>2, <2>4
    <3> QED BY <1>1, <2>1, <3>3, <3>4, Moves
  <2>5. CASE row[s] = NoRow
    <3> DEFINE q == [req[r] EXCEPT !.slot = s, !.pc = "insert"]
    <3>1. q \in Request /\ q.pc = "insert" /\ q.slot = s /\ q.todo = req[r].todo /\ q.id = req[r].id
      BY <1>1, <2>3 DEF Request, Labels
    <3>6. req[r].id = None
      BY <1>2 DEF FindAssignment, At, IInv, Sound
    <3>2. Sound(q) /\ q.pc \notin {"idle", "status"}
      BY <2>2, <2>3, <3>1, <3>6 DEF Sound
    <3>4. \A x \in Requests : q.id # x
      BY <3>1, <3>6 DEF ConstantsOK
    <3>5. Set(r, q)
      BY <2>2, <2>5
    <3> QED BY <1>1, <2>1, <3>1, <3>2, <3>4, <3>5, Moves
  <2> QED BY <2>4, <2>5
<1>3. CASE InsertAssignment(r)
  <2> DEFINE s == req[r].slot
             todo == req[r].todo \ {s}
  <2>1. s \in Slots /\ s \in req[r].todo /\ card' = card
    BY <1>3 DEF InsertAssignment, At, IInv, Sound, OnSlot
  <2>2. CASE Exists /\ row[s] = NoRow
    <3> DEFINE label == AfterAssign(todo)
               q == [req[r] EXCEPT !.todo = todo, !.pc = label]
    <3>1. label \in {"done", "find"}
      BY DEF AfterAssign
    <3>2. /\ q \in Request /\ q.pc = label /\ q.todo = todo
          /\ q.id = req[r].id /\ req[r].id = None
      BY <1>1, <1>3, <3>1 DEF Request, Labels, Ended, InsertAssignment, At, IInv, Sound
    <3>3. Sound(q) /\ q.pc \notin OnSlot \cup {"idle", "status"} /\ q.todo \subseteq req[r].todo
      BY <3>1, <3>2 DEF Sound, OnSlot
    <3>4. Set(r, q) /\ row' = [row EXCEPT ![s] = [id |-> r, st |-> "pending"]]
      BY <1>3, <2>2 DEF InsertAssignment
    <3>5. /\ row' \in [Slots -> Assignment \cup {NoRow}]
          /\ card' \in [Slots -> Criteria \cup {None}]
      BY <2>1, <3>4 DEF IInv, TypeOK, Assignment, Ids
    <3>6. s \notin q.todo
      BY <3>2
    <3> HIDE DEF q
    <3>7. \A t \in Slots : SlotStep(r, q, t)
      BY <2>1, <2>2, <3>4, <3>6 DEF SlotStep, IInv, TypeOK
    <3> QED BY <1>1, <3>3, <3>4, <3>5, <3>7, Becomes
  <2>3. CASE ~(Exists /\ row[s] = NoRow)
    <3> DEFINE q == [req[r] EXCEPT !.pc = "failed"]
    <3>1. Set(r, q) /\ row' = row
      BY <1>3, <2>3 DEF InsertAssignment, Goto
    <3>2. Sound(q) /\ q.pc = "failed" /\ q.todo = req[r].todo
      BY <1>1, Onward DEF Ended
    <3>3. q.pc \notin OnSlot \cup {"idle", "status"}
      BY <3>2 DEF OnSlot
    <3> QED BY <1>1, <2>1, <3>1, <3>2, <3>3, Moves
  <2> QED BY <2>2, <2>3
<1> QED BY <1>2, <1>3

(* Taking work back *)
LEMMA UnassignKeeps ==
  ASSUME ConstantsOK, IInv, NEW r \in Requests, Unassign(r) \/ UnassignIfUnscored(r)
  PROVE  IInv'
<1> DEFINE s == req[r].slot
<1>1. /\ req[r].pc \notin AtRest /\ s \in Slots
      /\ round' = round /\ round' \in [criteria : Criteria \cup {None}, open : BOOLEAN]
  BY DEF Unassign, UnassignIfUnscored, At, AtRest, Ended, OnSlot, IInv, TypeOK, Sound
<1>2. PICK label \in {"done", "refused"} : Set(r, [req[r] EXCEPT !.pc = label])
  BY DEF Unassign, UnassignIfUnscored, Goto
<1>3. \/ row' = row /\ card' = card
      \/ row' = [row EXCEPT ![s] = NoRow] /\ card' = [card EXCEPT ![s] = None]
  BY DEF Unassign, UnassignIfUnscored, Emptied
<1> DEFINE q == [req[r] EXCEPT !.pc = label]
<1>4. Sound(q) /\ q.pc = label /\ q.todo = req[r].todo
  BY <1>1, <1>2, Onward DEF Ended
<1>5. q.pc \notin OnSlot \cup {"idle", "status"}
  BY <1>4 DEF OnSlot
<1>6. /\ row' \in [Slots -> Assignment \cup {NoRow}]
      /\ card' \in [Slots -> Criteria \cup {None}]
  BY <1>1, <1>3 DEF IInv, TypeOK
<1> HIDE DEF q
<1>7. \A t \in Slots : SlotStep(r, q, t)
  BY <1>1, <1>3 DEF SlotStep, IInv, TypeOK
<1>8. Set(r, q)
  BY <1>2 DEF q
<1> QED BY <1>1, <1>4, <1>5, <1>6, <1>7, <1>8, Becomes

(* Filing: the card first ... *)
LEMMA SaveKeeps ==
  ASSUME ConstantsOK, IInv, NEW r \in Requests, SaveScore(r)
  PROVE  IInv'
<1> DEFINE s == req[r].slot
<1>1. /\ req[r].pc = "save" /\ req[r].pc \notin AtRest
      /\ req[r] \in Request /\ s \in Slots /\ req[r].asks \in Criteria
      /\ round' = round /\ row' = row
      /\ round' \in [criteria : Criteria \cup {None}, open : BOOLEAN]
  BY DEF SaveScore, At, AtRest, Ended, OnSlot, IInv, TypeOK, Sound
<1>2. CASE Stands(req[r])
  <2> DEFINE q == [req[r] EXCEPT !.pc = "status"]
  <2>1. Set(r, q) /\ card' = [card EXCEPT ![s] = req[r].asks]
    BY <1>2 DEF SaveScore, Goto
  <2>2. /\ q \in Request /\ q.pc = "status" /\ q.slot = s /\ q.id = req[r].id
        /\ q.todo = req[r].todo
    BY <1>1 DEF Request, Labels
  <2>3. Sound(q)
    BY <1>1, <2>2 DEF Sound
  <2>4. \A x \in Requests : q.id = x => Consumed(q.slot, x)
    BY <1>1, <2>2 DEF IInv, Remembers, OnSlot
  <2>5. /\ row' \in [Slots -> Assignment \cup {NoRow}]
        /\ card' \in [Slots -> Criteria \cup {None}]
        /\ card'[s] # None
    BY <1>1, <2>1 DEF IInv, TypeOK, ConstantsOK
  <2>6. \A t \in Slots : SlotStep(r, q, t)
    BY <1>1, <2>1, <2>5 DEF SlotStep, IInv, TypeOK
  <2>7. card'[q.slot] # None
    BY <2>2, <2>5
  <2>8. Set(r, q)
    BY <2>1
  <2> HIDE DEF q
  <2> QED BY <1>1, <2>2, <2>3, <2>4, <2>5, <2>6, <2>7, <2>8, Becomes
<1>3. CASE ~Stands(req[r])
  <2> DEFINE q == [req[r] EXCEPT !.pc = "failed"]
  <2>1. Set(r, q) /\ card' = card
    BY <1>3 DEF SaveScore, Goto
  <2>2. Sound(q) /\ q.pc = "failed" /\ q.todo = req[r].todo
    BY <1>1, Onward DEF Ended
  <2>3. q.pc \notin OnSlot \cup {"idle", "status"}
    BY <2>2 DEF OnSlot
  <2> QED BY <1>1, <2>1, <2>2, <2>3, Moves
<1> QED BY <1>2, <1>3

(* ... then the status, which says done only where a card was saved *)
LEMMA MarkKeeps ==
  ASSUME ConstantsOK, IInv, NEW r \in Requests, MarkDone(r) \/ MarkRecused(r)
  PROVE  IInv'
<1> DEFINE s == req[r].slot
<1>1. /\ req[r].pc \in {"status", "recuse"} /\ req[r].pc \notin AtRest /\ s \in Slots
      /\ round' = round /\ card' = card
      /\ round' \in [criteria : Criteria \cup {None}, open : BOOLEAN]
  BY DEF MarkDone, MarkRecused, SetStatus, At, AtRest, Ended, OnSlot, IInv, TypeOK, Sound
<1>2. CASE Stands(req[r])
  <2> DEFINE q == [req[r] EXCEPT !.pc = "done"]
  <2>1. PICK st \in {"done", "recused"} :
          /\ Set(r, q) /\ row' = [row EXCEPT ![s].st = st]
          /\ st = "done" => req[r].pc = "status"
    BY <1>2 DEF MarkDone, MarkRecused, SetStatus, At, Goto
  <2>2. Sound(q) /\ q.pc = "done" /\ q.todo = req[r].todo
    BY <1>1, Onward DEF Ended
  <2>3. q.pc \notin OnSlot \cup {"idle", "status"}
    BY <2>2 DEF OnSlot
  <2>4. row[s] \in Assignment
    BY <1>1, <1>2 DEF Stands, IInv, TypeOK
  <2> DEFINE new == [row[s] EXCEPT !.st = st]
  <2>5. new \in Assignment /\ new.id = row[s].id /\ new.st = st
    BY <2>4 DEF Assignment
  <2>6. row' = [row EXCEPT ![s] = new]
    BY <2>1
  <2>7. st = "done" => card[s] # None
    BY <1>2, <2>1 DEF IInv, Filed
  <2> HIDE DEF new, q
  <2>8. /\ row' \in [Slots -> Assignment \cup {NoRow}]
        /\ card' \in [Slots -> Criteria \cup {None}]
    BY <1>1, <2>5, <2>6 DEF IInv, TypeOK
  <2>9. \A t \in Slots : SlotStep(r, q, t)
    <3> SUFFICES ASSUME NEW t \in Slots PROVE SlotStep(r, q, t)
      OBVIOUS
    <3>1. CASE t = s
      <4>1. row[t] # NoRow /\ row'[t] = new /\ card'[t] = card[t]
        BY <1>1, <1>2, <2>6, <3>1 DEF Stands, IInv, TypeOK
      <4> QED BY <2>5, <2>7, <3>1, <4>1 DEF SlotStep
    <3>2. CASE t # s
      BY <1>1, <2>6, <3>2 DEF SlotStep, IInv, TypeOK
    <3> QED BY <3>1, <3>2
  <2> QED BY <1>1, <2>1, <2>2, <2>3, <2>8, <2>9, Becomes
<1>3. CASE ~Stands(req[r])
  <2> DEFINE q == [req[r] EXCEPT !.pc = "failed"]
  <2>1. Set(r, q) /\ row' = row
    BY <1>3 DEF MarkDone, MarkRecused, SetStatus, Goto
  <2>2. Sound(q) /\ q.pc = "failed" /\ q.todo = req[r].todo
    BY <1>1, Onward DEF Ended
  <2>3. q.pc \notin OnSlot \cup {"idle", "status"}
    BY <2>2 DEF OnSlot
  <2> QED BY <1>1, <2>1, <2>2, <2>3, Moves
<1> QED BY <1>2, <1>3

LEMMA FailKeeps ==
  ASSUME ConstantsOK, IInv, NEW r \in Requests, Fail(r)
  PROVE  IInv'
<1> DEFINE q == [req[r] EXCEPT !.pc = "failed"]
<1>1. req[r].pc \notin AtRest
  BY DEF Fail, InFlight, AtRest
<1>2. Sound(q) /\ q.pc = "failed" /\ q.todo = req[r].todo
  BY <1>1, Onward DEF Ended
<1>3. Set(r, q) /\ round' = round /\ row' = row /\ card' = card
  BY DEF Fail, Goto, db
<1>4. q.pc \notin OnSlot \cup {"idle", "status"}
  BY <1>2 DEF OnSlot
<1>5. round' \in [criteria : Criteria \cup {None}, open : BOOLEAN]
  BY <1>3 DEF IInv, TypeOK
<1> QED BY <1>2, <1>3, <1>4, <1>5, Moves

LEMMA InitHolds ==
  ASSUME ConstantsOK, Init
  PROVE  IInv
<1>1. TypeOK
  <2>1. round \in [criteria : Criteria \cup {None}, open : BOOLEAN]
    BY DEF Init
  <2>2. row \in [Slots -> Assignment \cup {NoRow}]
    BY DEF Init, Assignment, Ids
  <2>3. card \in [Slots -> Criteria \cup {None}]
    BY DEF Init
  <2>4. req \in [Requests -> Request]
    BY IdleRequest DEF Init
  <2> QED BY <2>1, <2>2, <2>3, <2>4 DEF TypeOK
<1>2. DoneHasCard
  BY DEF Init, DoneHasCard
<1>3. RowsConsumed
  BY DEF Init, RowsConsumed, ConstantsOK, NoRow
<1>4. ASSUME NEW r \in Requests PROVE Sound(req[r]) /\ Remembers(req[r]) /\ Filed(req[r])
  <2>1. req[r] = Idle
    BY DEF Init
  <2> QED BY <2>1, IdleRequest DEF Sound, Remembers, Filed, Idle, OnSlot
<1> QED BY <1>1, <1>2, <1>3, <1>4 DEF IInv

LEMMA StepKeeps ==
  ASSUME ConstantsOK, IInv, [Next]_vars
  PROVE  IInv'
<1>1. ASSUME NEW r \in Requests, Begin(r) PROVE IInv'
  BY <1>1, BeginKeeps
<1>2. ASSUME NEW r \in Requests, Step(r) PROVE IInv'
  BY <1>2, ReadKeeps, RemoveKeeps, AssignKeeps, UnassignKeeps, SaveKeeps, MarkKeeps DEF Step
<1>3. ASSUME NEW r \in Requests, Fail(r) PROVE IInv'
  BY <1>3, FailKeeps
<1>4. CASE UNCHANGED vars
  BY <1>4 DEF vars, IInv, TypeOK, DoneHasCard, RowsConsumed, Consumed, Sound, Remembers, Filed, Stands
<1> QED BY <1>1, <1>2, <1>3, <1>4 DEF Next

LEMMA SpecInv == Spec => []IInv
<1>1. Init => IInv
  BY InitHolds, ConstantsOK
<1>2. IInv /\ [Next]_vars => IInv'
  BY StepKeeps, ConstantsOK
<1> QED BY <1>1, <1>2, PTL DEF Spec

(* Types hold under every interleaving and with failures anywhere. *)
THEOREM TypeCorrect == Spec => []TypeOK
<1>1. IInv => TypeOK
  BY DEF IInv
<1> QED BY <1>1, SpecInv, PTL

(* An assignment reported done has its scorecard, however the round is      *)
(* scored, assigned, unassigned, edited and deleted at once.               *)
THEOREM DoneAlwaysHasCard == Spec => []DoneHasCard
<1>1. IInv => DoneHasCard
  BY DEF IInv
<1> QED BY <1>1, SpecInv, PTL

(* The statement that loses a scorecard belongs to a confirmed request *)
Loses(s) == card[s] # None /\ card'[s] = None
Confirmed == \E r \in Requests : /\ req[r].confirmed /\ req[r].pc \in {"unassign", "remove"}
                               /\ req'[r].pc = "done"

LEMMA StepLosesConfirmed ==
  ASSUME ConstantsOK, "delete" \notin Kinds, IInv, Next, NEW s \in Slots, Loses(s)
  PROVE  Confirmed
<1>1. PICK r \in Requests : Begin(r) \/ Step(r) \/ Fail(r)
  BY DEF Next
<1>2. card' # card
  BY DEF Loses
<1>3. ~Begin(r) /\ ~Fail(r)
  BY <1>2 DEF Begin, UpdateRound, DeleteRound, Assign, UnassignSubmission, SubmitScorecard,
         RecuseFromSubmission, Fail, db
<1>4. ~Remove(r)
  BY DEF Remove, At, IInv, TypeOK, Sound, Request
<1>5. ~SaveScore(r)
  BY DEF SaveScore, At, IInv, TypeOK, Sound, OnSlot, Loses, ConstantsOK
<1>6. ~UnassignIfUnscored(r)
  BY DEF UnassignIfUnscored, At, Emptied, IInv, TypeOK, Sound, OnSlot, Loses
<1>7. Unassign(r)
  BY <1>1, <1>2, <1>3, <1>4, <1>5, <1>6 DEF Step, ReadMine, ListAssignments, ReadScores, Update,
         FindAssignment, InsertAssignment, MarkDone, MarkRecused, SetStatus, db
<1>8. req[r].confirmed /\ req[r].pc = "unassign"
  BY <1>7 DEF Unassign, At, IInv, Sound
<1>9. req'[r].pc = "done"
  <2> DEFINE q == [req[r] EXCEPT !.pc = "done"]
  <2>1. Sound(q) /\ q.pc = "done"
    BY <1>8, Onward DEF Ended, AtRest
  <2>2. req' = [req EXCEPT ![r] = Resting(q)] /\ Resting(q).pc = "done"
    BY <1>7, <2>1, RestingSound DEF Unassign, Goto, Set
  <2> QED BY <2>2 DEF IInv, TypeOK
<1> QED BY <1>8, <1>9 DEF Confirmed

(* Where rounds are not deleted, a filed scorecard is lost only to a        *)
(* confirmed removal of its assignment, whatever runs at the same time: the *)
(* conditional delete in unassignIfUnscored closes the race.               *)
THEOREM CardsLostOnlyConfirmed ==
  ASSUME "delete" \notin Kinds
  PROVE  Spec => LostOnlyConfirmed
<1>1. IInv /\ [Next]_vars =>
        [\A s \in Slots : card[s] # None /\ card'[s] = None =>
           \E r \in Requests : req[r].confirmed /\ req[r].pc \in {"unassign", "remove"}
                               /\ req'[r].pc = "done"]_vars
  BY StepLosesConfirmed, ConstantsOK DEF Loses, Confirmed
<1> QED BY <1>1, SpecInv, PTL DEF Spec, LostOnlyConfirmed
----------------------------------------------------------------------------
(* Between saving a scorecard and reporting it done the assignment is not   *)
(* counted yet; only a request that failed leaves it so.                   *)
Reporting(s) == \E r \in Requests : req[r].pc = "status" /\ req[r].slot = s /\ Stands(req[r])
SomeFailed == \E r \in Requests : req[r].pc = "failed"
Counted ==
  \A s \in Slots : card[s] # None =>
    row[s].st \in {"done", "recused"} \/ Reporting(s) \/ SomeFailed

(* A scorecard lives and dies with its assignment. *)
CardNeedsRow == \A s \in Slots : card[s] # None => row[s] # NoRow

(* What a request run on its own knows of the criteria *)
Unscored == \A s \in Slots : card[s] = None
KnowsCriteria(q) ==
  /\ q.pc = "update" => q.asks = round.criteria \/ Unscored
  /\ q.pc = "save" \/ (q.pc = "mine" /\ q.kind = "score") => q.asks = round.criteria
  /\ q.pc = "scores" => \A s \in Slots : card[s] # None => <<s, row[s].id>> \in q.listed
NextKnowsCriteria(q) ==
  /\ q.pc = "update" => q.asks = round'.criteria \/ Unscored'
  /\ q.pc = "save" \/ (q.pc = "mine" /\ q.kind = "score") => q.asks = round'.criteria
  /\ q.pc = "scores" => \A s \in Slots : card'[s] # None => <<s, row'[s].id>> \in q.listed
Alone == \A r, o \in Requests : req[r].pc \notin AtRest /\ req[o].pc \notin AtRest => r = o
SerialInv ==
  Serial => Alone /\ ScorecardReadsBack /\ \A r \in Requests : KnowsCriteria(req[r])

CardInv == Counted /\ CardNeedsRow /\ SerialInv
(* What a statement of the request that becomes q may do to a scorecard *)
CardStep(q, s) ==
  \/ row'[s] = row[s] /\ card'[s] = card[s]
  \/ card'[s] = None
  \/ row'[s] = row[s] /\ row[s] # NoRow /\ q.pc = "status" /\ q.slot = s /\ q.id = row[s].id
  \/ row'[s] # NoRow /\ row'[s].st \in {"done", "recused"}

LEMMA CardBecomes ==
  ASSUME IInv, CardInv, NEW r \in Requests, NEW q, Sound(q), q.pc # "idle", Set(r, q),
         req[r].pc # "failed",
         req[r].pc = "status" => \/ q.pc = "failed"
                                 \/ row'[req[r].slot].st = "done"
                                 \/ q = req[r],
         \A s \in Slots : CardStep(q, s),
         Serial => /\ \A o \in Requests \ {r} : req[o].pc \in AtRest
                   /\ ScorecardReadsBack'
                   /\ NextKnowsCriteria(q)
  PROVE  CardInv'
<1>1. /\ req' = [req EXCEPT ![r] = Resting(q)] /\ Resting(q).pc = q.pc
      /\ Resting(q) = q \/ q.pc \in Ended
  BY RestingSound DEF Set
<1>2. /\ req'[r] = Resting(q)
      /\ \A o \in Requests \ {r} : req'[o] = req[o]
  BY <1>1 DEF IInv, TypeOK
<1>3. Counted'
  <2> SUFFICES ASSUME NEW s \in Slots, card'[s] # None, row'[s].st \notin {"done", "recused"}
               PROVE  Reporting(s)' \/ SomeFailed'
    BY DEF Counted
  <2>1. CASE card[s] = card'[s] /\ row'[s] = row[s]
    <3>1. Reporting(s) \/ SomeFailed
      BY <2>1 DEF CardInv, Counted
    <3>2. CASE SomeFailed
      BY <1>2, <3>2 DEF SomeFailed
    <3>3. CASE Reporting(s)
      <4>1. PICK o \in Requests : req[o].pc = "status" /\ req[o].slot = s /\ Stands(req[o])
        BY <3>3 DEF Reporting
      <4>2. CASE o # r
        BY <1>2, <2>1, <4>1, <4>2 DEF Reporting, Stands
      <4>3. CASE o = r
        <5>1. q.pc = "failed" \/ q = req[r]
          BY <4>1, <4>3
        <5>2. CASE q.pc = "failed"
          BY <1>1, <1>2, <5>2 DEF SomeFailed
        <5>3. CASE q = req[r]
          <6>1. req'[r] = req[r]
            BY <1>1, <1>2, <4>1, <4>3, <5>3 DEF Ended
          <6> QED BY <2>1, <4>1, <4>3, <6>1 DEF Reporting, Stands
        <5> QED BY <5>1, <5>2, <5>3
      <4> QED BY <4>2, <4>3
    <3> QED BY <3>1, <3>2, <3>3
  <2>2. CASE row'[s] = row[s] /\ row[s] # NoRow /\ q.pc = "status" /\ q.slot = s
             /\ q.id = row[s].id
    <3>1. req'[r] = q
      BY <1>1, <1>2, <2>2 DEF Ended
    <3> QED BY <2>2, <3>1 DEF Reporting, Stands
  <2> QED BY <2>1, <2>2 DEF CardStep
<1>4. CardNeedsRow'
  BY DEF CardStep, CardInv, CardNeedsRow
<1>5. ASSUME Serial PROVE Alone' /\ \A o \in Requests : NextKnowsCriteria(req'[o])
  <2>1. Alone'
    BY <1>2, <1>5 DEF Alone
  <2>2. ASSUME NEW o \in Requests PROVE NextKnowsCriteria(req'[o])
    <3>1. CASE o # r
      BY <1>2, <1>5, <3>1 DEF NextKnowsCriteria, AtRest, Ended
    <3>2. CASE o = r
      BY <1>1, <1>2, <1>5, <3>2 DEF NextKnowsCriteria, Ended
    <3> QED BY <3>1, <3>2
  <2> QED BY <2>1, <2>2
<1> QED BY <1>3, <1>4, <1>5 DEF CardInv, SerialInv, KnowsCriteria, NextKnowsCriteria

(* A statement that leaves the round, the assignments and the cards alone   *)
LEMMA CardMoves ==
  ASSUME IInv, CardInv, NEW r \in Requests, NEW q, Sound(q), q.pc # "idle", Set(r, q),
         req[r].pc # "failed", req[r].pc = "status" => q.pc = "failed",
         round' = round, row' = row, card' = card,
         Serial => (\A o \in Requests \ {r} : req[o].pc \in AtRest) /\ NextKnowsCriteria(q)
  PROVE  CardInv'
<1>1. \A s \in Slots : CardStep(q, s)
  BY DEF CardStep
<1>2. Serial => ScorecardReadsBack'
  BY DEF CardInv, SerialInv, ScorecardReadsBack
<1> QED BY <1>1, <1>2, CardBecomes

LEMMA OthersRest ==
  ASSUME CardInv, NEW r \in Requests, req[r].pc \notin AtRest
  PROVE  Serial => \A o \in Requests \ {r} : req[o].pc \in AtRest
BY DEF CardInv, SerialInv, Alone

(* A request under way that ends *)
LEMMA CardEnds ==
  ASSUME ConstantsOK, IInv, CardInv, NEW r \in Requests, req[r].pc \notin AtRest,
         NEW label \in Ended, Goto(r, label),
         req[r].pc = "status" => label = "failed",
         round' = round, row' = row, card' = card
  PROVE  CardInv'
<1> DEFINE q == [req[r] EXCEPT !.pc = label]
<1>1. Sound(q) /\ q.pc = label
  BY Onward DEF Ended
<1>2. NextKnowsCriteria(q)
  BY <1>1 DEF NextKnowsCriteria, Ended
<1>3. Set(r, q) /\ q.pc # "idle" /\ req[r].pc # "failed"
  BY <1>1 DEF Goto, Ended, AtRest
<1> HIDE DEF q
<1> QED BY <1>1, <1>2, <1>3, OthersRest, CardMoves
(* Beginning: the criteria read first are those the round has *)
LEMMA BeginCards ==
  ASSUME ConstantsOK, IInv, CardInv, NEW r \in Requests, Begin(r)
  PROVE  CardInv'
<1>1. /\ req[r].pc = "idle" /\ (Serial => InFlight = {})
      /\ row' = row /\ card' = card /\ round' = round
  BY DEF Begin, UpdateRound, DeleteRound, Assign, UnassignSubmission, SubmitScorecard,
         RecuseFromSubmission, Open, At, db
<1>2. Serial => \A o \in Requests : req[o].pc \in AtRest
  BY <1>1 DEF InFlight, AtRest
<1>3. ASSUME NEW q, Sound(q), q.pc # "idle", Set(r, q), NextKnowsCriteria(q) PROVE CardInv'
  BY <1>1, <1>2, <1>3, CardMoves
<1>4. ASSUME NEW c \in Criteria, NEW open \in BOOLEAN, UpdateRound(r, c, open) PROVE CardInv'
  <2> DEFINE q == [Idle EXCEPT !.pc = AfterRead(c), !.kind = "edit",
                               !.asks = c, !.opens = open]
  <2>1. AfterRead(c) \in {"update", "list"} /\ "edit" \in Kinds
        /\ (AfterRead(c) = "update" => c = round.criteria)
    BY <1>4 DEF AfterRead, UpdateRound, Open
  <2>2. q \in Request /\ q.pc = AfterRead(c) /\ q.kind = "edit" /\ q.asks = c
    BY <2>1 DEF Idle, Request, Labels
  <2>3. Sound(q) /\ q.pc # "idle"
    BY <2>1, <2>2 DEF Sound, OnSlot
  <2>4. NextKnowsCriteria(q)
    BY <1>1, <2>1, <2>2 DEF NextKnowsCriteria
  <2>5. Set(r, q)
    BY <1>4 DEF UpdateRound
  <2> HIDE DEF q
  <2> QED BY <1>3, <2>3, <2>4, <2>5
<1>5. ASSUME NEW confirmed \in BOOLEAN, DeleteRound(r, confirmed) PROVE CardInv'
  <2> DEFINE label == IF confirmed THEN "remove" ELSE "list"
             q == [Idle EXCEPT !.pc = label, !.kind = "delete", !.confirmed = confirmed]
  <2>1. label \in {"remove", "list"} /\ "delete" \in Kinds
    BY <1>5 DEF DeleteRound, Open
  <2>2. q \in Request /\ q.pc = label /\ q.kind = "delete"
    BY <2>1 DEF Idle, Request, Labels
  <2>3. Sound(q) /\ NextKnowsCriteria(q) /\ q.pc # "idle"
    BY <2>1, <2>2 DEF Sound, OnSlot, NextKnowsCriteria
  <2>4. Set(r, q)
    BY <1>5 DEF DeleteRound
  <2> HIDE DEF q
  <2> QED BY <1>3, <2>3, <2>4
<1>6. ASSUME NEW slots \in SUBSET Slots, Assign(r, slots) PROVE CardInv'
  <2> DEFINE q == [Idle EXCEPT !.pc = "find", !.kind = "assign", !.todo = slots]
  <2>1. q \in Request /\ q.pc = "find" /\ q.id = None
    BY <1>6 DEF Idle, Request, Labels, Assign, Open
  <2>2. Sound(q) /\ NextKnowsCriteria(q) /\ q.pc # "idle"
    BY <2>1 DEF Sound, OnSlot, NextKnowsCriteria
  <2>3. Set(r, q)
    BY <1>6 DEF Assign
  <2> HIDE DEF q
  <2> QED BY <1>3, <2>2, <2>3
<1>7. ASSUME NEW s \in Slots, NEW confirmed \in BOOLEAN, UnassignSubmission(r, s, confirmed)
      PROVE  CardInv'
  <2> DEFINE label == IF confirmed THEN "unassign" ELSE "unscored"
             q == [Idle EXCEPT !.pc = label, !.kind = "unassign", !.slot = s,
                               !.id = row[s].id, !.confirmed = confirmed]
  <2>1. label \in {"unassign", "unscored"} /\ "unassign" \in Kinds
        /\ (label = "unassign" => confirmed)
    BY <1>7 DEF UnassignSubmission, Open
  <2>2. row[s].id \in Ids \cup {None}
    BY DEF IInv, TypeOK, Assignment, NoRow
  <2>3. q \in Request /\ q.pc = label /\ q.slot = s /\ q.confirmed = confirmed
    BY <2>1, <2>2 DEF Idle, Request, Labels
  <2>4. Sound(q) /\ NextKnowsCriteria(q) /\ q.pc # "idle"
    BY <2>1, <2>3 DEF Sound, OnSlot, NextKnowsCriteria
  <2>5. Set(r, q)
    BY <1>7 DEF UnassignSubmission
  <2> HIDE DEF q
  <2> QED BY <1>3, <2>4, <2>5
<1>8. ASSUME NEW s \in Slots, SubmitScorecard(r, s) PROVE CardInv'
  <2> DEFINE q == [Idle EXCEPT !.pc = "mine", !.kind = "score", !.slot = s,
                               !.asks = round.criteria, !.opens = round.open]
  <2>1. round.criteria \in Criteria /\ round.open \in BOOLEAN
    BY <1>8 DEF SubmitScorecard, Open, Exists, IInv, TypeOK
  <2>2. /\ q \in Request /\ q.pc = "mine" /\ q.kind = "score" /\ q.slot = s
        /\ q.asks = round.criteria /\ q.id = None
    BY <1>8, <2>1 DEF Idle, Request, Labels, SubmitScorecard, Open
  <2>3. Sound(q) /\ NextKnowsCriteria(q) /\ q.pc # "idle"
    BY <1>1, <2>1, <2>2 DEF Sound, OnSlot, NextKnowsCriteria
  <2>4. Set(r, q)
    BY <1>8 DEF SubmitScorecard
  <2> HIDE DEF q
  <2> QED BY <1>3, <2>3, <2>4
<1>9. ASSUME NEW s \in Slots, RecuseFromSubmission(r, s) PROVE CardInv'
  <2> DEFINE q == [Idle EXCEPT !.pc = "mine", !.kind = "recuse", !.slot = s]
  <2>1. q \in Request /\ q.pc = "mine" /\ q.kind = "recuse" /\ q.slot = s /\ q.id = None
    BY <1>9 DEF Idle, Request, Labels, RecuseFromSubmission, Open
  <2>2. Sound(q) /\ NextKnowsCriteria(q) /\ q.pc # "idle"
    BY <2>1 DEF Sound, OnSlot, NextKnowsCriteria
  <2>3. Set(r, q)
    BY <1>9 DEF RecuseFromSubmission
  <2> HIDE DEF q
  <2> QED BY <1>3, <2>2, <2>3
<1> QED BY <1>4, <1>5, <1>6, <1>7, <1>8, <1>9 DEF Begin

(* Reading: what a request run on its own has read still is so *)
LEMMA ReadCards ==
  ASSUME ConstantsOK, IInv, CardInv, NEW r \in Requests,
         ReadMine(r) \/ ListAssignments(r) \/ ReadScores(r) \/ FindAssignment(r)
  PROVE  CardInv'
<1>1. /\ req[r].pc \in {"mine", "list", "scores", "find"} /\ req[r].pc \notin AtRest
      /\ req[r] \in Request /\ Sound(req[r])
      /\ row' = row /\ card' = card /\ round' = round
      /\ Serial => KnowsCriteria(req[r])
  BY DEF ReadMine, ListAssignments, ReadScores, FindAssignment, At, AtRest, Ended, db, IInv,
         TypeOK, CardInv, SerialInv
<1>2. ASSUME NEW q, Sound(q), q.pc # "idle", Set(r, q), Serial => NextKnowsCriteria(q)
      PROVE  CardInv'
  <2>1. req[r].pc \notin {"failed", "status"}
    BY <1>1
  <2> QED BY <1>1, <1>2, <2>1, OthersRest, CardMoves
<1>3. CASE ReadMine(r)
  <2> DEFINE id == row[req[r].slot].id
             label == AfterMine(req[r])
             q == [req[r] EXCEPT !.id = id, !.pc = label]
  <2>1. /\ req[r].slot \in Slots /\ req[r].kind \in {"score", "recuse"} /\ req[r].pc = "mine"
        /\ req[r].kind = "score" => req[r].asks \in Criteria
    BY <1>1, <1>3 DEF ReadMine, At, Sound, OnSlot
  <2>2. /\ label \in {"refused", "recuse", "save"}
        /\ label = "save" => req[r].kind = "score"
    BY <2>1 DEF AfterMine
  <2>3. id \in Ids \cup {None}
    BY <2>1 DEF IInv, TypeOK, Assignment, NoRow
  <2>4. /\ q \in Request /\ q.pc = label /\ q.slot = req[r].slot /\ q.kind = req[r].kind
        /\ q.asks = req[r].asks /\ q.todo = req[r].todo
    BY <1>1, <2>2, <2>3 DEF Request, Labels, Ended
  <2>5. Sound(q) /\ q.pc # "idle"
    BY <2>1, <2>2, <2>4 DEF Sound
  <2>6. Set(r, q)
    BY <1>3 DEF ReadMine
  <2> HIDE DEF label, q
  <2>7. Serial => NextKnowsCriteria(q)
    BY <1>1, <2>1, <2>2, <2>4 DEF KnowsCriteria, NextKnowsCriteria
  <2> QED BY <1>2, <2>5, <2>6, <2>7
<1>4. CASE ListAssignments(r)
  <2> DEFINE listed == {x \in RowIds : row[x[1]].id = x[2]}
             label == IF listed = {} THEN Unlocked(req[r]) ELSE "scores"
             q == [req[r] EXCEPT !.listed = listed, !.pc = label]
  <2>1. req[r].kind \in {"edit", "delete"}
    BY <1>4 DEF ListAssignments, At, IInv, Sound
  <2>2. /\ label \in {"update", "remove", "scores"}
        /\ label = "remove" => req[r].kind = "delete"
        /\ label = "update" => listed = {}
    BY <2>1 DEF Unlocked
  <2>3. listed \in SUBSET RowIds
    OBVIOUS
  <2>4. /\ q \in Request /\ q.pc = label /\ q.kind = req[r].kind /\ q.todo = req[r].todo
        /\ q.listed = listed
    BY <1>1, <2>2, <2>3, ZenonT(60) DEF Request, Labels, Ended
  <2>5. Sound(q) /\ q.pc # "idle"
    BY <2>1, <2>2, <2>4 DEF Sound, OnSlot
  <2>6. Set(r, q)
    BY <1>4 DEF ListAssignments
  <2>7. \A s \in Slots : card[s] # None => <<s, row[s].id>> \in listed
    <3> SUFFICES ASSUME NEW s \in Slots, card[s] # None PROVE <<s, row[s].id>> \in listed
      OBVIOUS
    <3>1. row[s] \in Assignment
      BY DEF CardInv, CardNeedsRow, IInv, TypeOK
    <3>2. <<s, row[s].id>> \in RowIds
      BY <3>1 DEF Assignment, RowIds
    <3> QED BY <3>2
  <2> HIDE DEF label, q, listed
  <2>8. NextKnowsCriteria(q)
    BY <1>1, <2>2, <2>4, <2>7 DEF NextKnowsCriteria, Unscored
  <2> QED BY <1>2, <2>5, <2>6, <2>8
<1>5. CASE ReadScores(r)
  <2> DEFINE label == IF Scored(req[r].listed) THEN "refused" ELSE Unlocked(req[r])
             q == [req[r] EXCEPT !.pc = label]
  <2>1. req[r].kind \in {"edit", "delete"} /\ req[r].pc = "scores"
    BY <1>1, <1>5 DEF ReadScores, At, Sound
  <2>2. /\ label \in {"refused", "update", "remove"}
        /\ label = "remove" => req[r].kind = "delete"
        /\ label = "update" => ~Scored(req[r].listed)
    BY <2>1 DEF Unlocked
  <2>4. Set(r, q)
    BY <1>5 DEF ReadScores, Goto
  <2> HIDE DEF label
  <2>3. Sound(q) /\ q.pc = label /\ q.pc # "idle"
    BY <1>1, <2>2, Onward DEF Ended
  <2>5. Serial => (~Scored(req[r].listed) => Unscored)
    <3> SUFFICES ASSUME Serial, NEW s \in Slots, card[s] # None PROVE Scored(req[r].listed)
      BY DEF Unscored
    <3>1. <<s, row[s].id>> \in req[r].listed
      BY <1>1, <2>1 DEF KnowsCriteria
    <3> QED BY <3>1 DEF Scored
  <2> HIDE DEF q
  <2>6. Serial => NextKnowsCriteria(q)
    BY <1>1, <2>2, <2>3, <2>5 DEF NextKnowsCriteria, Unscored
  <2> QED BY <1>2, <2>3, <2>4, <2>6
<1>6. CASE FindAssignment(r)
  <2>1. PICK s \in req[r].todo :
          IF row[s] # NoRow
          THEN Set(r, [req[r] EXCEPT !.todo = @ \ {s}, !.pc = AfterAssign(req[r].todo \ {s})])
          ELSE Set(r, [req[r] EXCEPT !.slot = s, !.pc = "insert"])
    BY <1>6 DEF FindAssignment
  <2>2. s \in Slots /\ req[r].todo \subseteq Slots /\ req[r].id = None
    BY <1>1, <1>6 DEF Request, FindAssignment, At, Sound
  <2>3. CASE row[s] # NoRow
    <3> DEFINE todo == req[r].todo \ {s}
               label == AfterAssign(todo)
               q == [req[r] EXCEPT !.todo = todo, !.pc = label]
    <3>1. label \in {"done", "find"}
      BY DEF AfterAssign
    <3>2. q \in Request /\ q.pc = label /\ q.id = None
      BY <1>1, <2>2, <3>1 DEF Request, Labels, Ended
    <3>3. Sound(q) /\ NextKnowsCriteria(q) /\ q.pc # "idle"
      BY <3>1, <3>2 DEF Sound, OnSlot, NextKnowsCriteria
    <3>4. Set(r, q)
      BY <2>1, <2>3
    <3> HIDE DEF q
    <3> QED BY <1>2, <3>3, <3>4
  <2>4. CASE row[s] = NoRow
    <3> DEFINE q == [req[r] EXCEPT !.slot = s, !.pc = "insert"]
    <3>1. q \in Request /\ q.pc = "insert" /\ q.slot = s /\ q.todo = req[r].todo /\ q.id = None
      BY <1>1, <2>2 DEF Request, Labels
    <3>2. Sound(q) /\ NextKnowsCriteria(q) /\ q.pc # "idle"
      BY <2>1, <2>2, <3>1 DEF Sound, NextKnowsCriteria
    <3>3. Set(r, q)
      BY <2>1, <2>4
    <3> HIDE DEF q
    <3> QED BY <1>2, <3>2, <3>3
  <2> QED BY <2>3, <2>4
<1> QED BY <1>3, <1>4, <1>5, <1>6
(* Saving the round, and deleting it with everything in it *)
LEMMA RoundCards ==
  ASSUME ConstantsOK, IInv, CardInv, NEW r \in Requests, Update(r) \/ Remove(r)
  PROVE  CardInv'
<1>1. /\ req[r].pc \in {"update", "remove"} /\ req[r].pc \notin AtRest
      /\ Serial => KnowsCriteria(req[r]) /\ ScorecardReadsBack
  BY DEF Update, Remove, At, AtRest, Ended, CardInv, SerialInv
<1>2. CASE Update(r) /\ Exists
  <2> DEFINE q == [req[r] EXCEPT !.pc = "done"]
  <2>1. Sound(q) /\ q.pc = "done"
    BY <1>1, Onward DEF Ended
  <2>2. /\ Set(r, q) /\ row' = row /\ card' = card /\ round'.criteria = req[r].asks
        /\ req[r].pc = "update"
    BY <1>2 DEF Update, Goto, At
  <2>3. Serial => ScorecardReadsBack'
    BY <1>1, <2>2 DEF KnowsCriteria, Unscored, ScorecardReadsBack
  <2>4. NextKnowsCriteria(q) /\ q.pc # "idle" /\ \A s \in Slots : CardStep(q, s)
    BY <2>1, <2>2 DEF NextKnowsCriteria, CardStep
  <2>5. req[r].pc \notin {"failed", "status"}
    BY <1>1
  <2> HIDE DEF q
  <2> QED BY <1>1, <2>1, <2>2, <2>3, <2>4, <2>5, OthersRest, CardBecomes
<1>3. CASE Update(r) /\ ~Exists
  <2>1. Goto(r, "failed") /\ round' = round /\ row' = row /\ card' = card
    BY <1>3 DEF Update
  <2> QED BY <1>1, <2>1, CardEnds DEF Ended
<1>4. CASE Remove(r)
  <2> DEFINE q == [req[r] EXCEPT !.pc = "done"]
  <2>1. Sound(q) /\ q.pc = "done"
    BY <1>1, Onward DEF Ended
  <2>2. Set(r, q) /\ \A s \in Slots : card'[s] = None
    BY <1>4 DEF Remove, Goto
  <2>3. /\ ScorecardReadsBack' /\ NextKnowsCriteria(q) /\ q.pc # "idle"
        /\ \A s \in Slots : CardStep(q, s)
    BY <2>1, <2>2 DEF ScorecardReadsBack, NextKnowsCriteria, CardStep
  <2>4. req[r].pc \notin {"failed", "status"}
    BY <1>1
  <2> HIDE DEF q
  <2> QED BY <1>1, <2>1, <2>2, <2>3, <2>4, OthersRest, CardBecomes
<1> QED BY <1>2, <1>3, <1>4

(* An assignment made anew has no scorecard left from an earlier one *)
LEMMA InsertCards ==
  ASSUME ConstantsOK, IInv, CardInv, NEW r \in Requests, InsertAssignment(r)
  PROVE  CardInv'
<1> DEFINE s == req[r].slot
           todo == req[r].todo \ {s}
<1>1. /\ req[r].pc = "insert" /\ req[r].pc \notin AtRest /\ req[r] \in Request
      /\ s \in Slots /\ Sound(req[r]) /\ card' = card /\ round' = round
      /\ Serial => ScorecardReadsBack
  BY DEF InsertAssignment, At, AtRest, Ended, IInv, TypeOK, Sound, OnSlot, CardInv, SerialInv
<1>2. CASE Exists /\ row[s] = NoRow
  <2> DEFINE label == AfterAssign(todo)
             q == [req[r] EXCEPT !.todo = todo, !.pc = label]
  <2>1. label \in {"done", "find"}
    BY DEF AfterAssign
  <2>2. q \in Request /\ q.pc = label /\ q.id = None
    BY <1>1, <2>1 DEF Request, Labels, Ended, Sound
  <2>3. Sound(q) /\ NextKnowsCriteria(q) /\ q.pc # "idle"
    BY <2>1, <2>2 DEF Sound, OnSlot, NextKnowsCriteria
  <2>4. Set(r, q) /\ row' = [row EXCEPT ![s] = [id |-> r, st |-> "pending"]]
    BY <1>2 DEF InsertAssignment
  <2>5. card[s] = None
    BY <1>1, <1>2 DEF CardInv, CardNeedsRow
  <2>6. \A t \in Slots : (row'[t] = row[t] /\ card'[t] = card[t]) \/ card'[t] = None
    BY <1>1, <2>4, <2>5 DEF IInv, TypeOK
  <2>7. \A t \in Slots : CardStep(q, t)
    BY <2>6 DEF CardStep
  <2>8. Serial => ScorecardReadsBack'
    BY <1>1 DEF ScorecardReadsBack
  <2>9. req[r].pc \notin {"failed", "status"}
    BY <1>1
  <2> HIDE DEF q
  <2> QED BY <1>1, <2>3, <2>4, <2>7, <2>8, <2>9, OthersRest, CardBecomes
<1>3. CASE ~(Exists /\ row[s] = NoRow)
  <2>1. Goto(r, "failed") /\ row' = row
    BY <1>3 DEF InsertAssignment
  <2> QED BY <1>1, <2>1, CardEnds DEF Ended
<1> QED BY <1>2, <1>3

(* The scorecard goes with its assignment *)
LEMMA UnassignCards ==
  ASSUME ConstantsOK, IInv, CardInv, NEW r \in Requests, Unassign(r) \/ UnassignIfUnscored(r)
  PROVE  CardInv'
<1> DEFINE s == req[r].slot
<1>1. /\ req[r].pc \in {"unassign", "unscored"} /\ req[r].pc \notin AtRest /\ s \in Slots
      /\ round' = round /\ (Serial => ScorecardReadsBack)
  BY DEF Unassign, UnassignIfUnscored, At, AtRest, Ended, OnSlot, IInv, TypeOK, Sound, CardInv,
     SerialInv
<1>2. PICK label \in {"done", "refused"} : Set(r, [req[r] EXCEPT !.pc = label])
  BY DEF Unassign, UnassignIfUnscored, Goto
<1>3. \/ row' = row /\ card' = card
      \/ row' = [row EXCEPT ![s] = NoRow] /\ card' = [card EXCEPT ![s] = None]
  BY DEF Unassign, UnassignIfUnscored, Emptied
<1> DEFINE q == [req[r] EXCEPT !.pc = label]
<1>4. Sound(q) /\ q.pc = label
  BY <1>1, <1>2, Onward DEF Ended
<1> HIDE DEF q
<1>5. \A t \in Slots : (row'[t] = row[t] /\ card'[t] = card[t]) \/ card'[t] = None
  BY <1>1, <1>3 DEF IInv, TypeOK
<1>6. \A t \in Slots : CardStep(q, t)
  BY <1>5 DEF CardStep
<1>7. Serial => ScorecardReadsBack'
  BY <1>1, <1>5 DEF ScorecardReadsBack
<1>8. NextKnowsCriteria(q) /\ q.pc # "idle" /\ req[r].pc \notin {"failed", "status"}
  BY <1>1, <1>4 DEF NextKnowsCriteria
<1>9. Set(r, q)
  BY <1>2 DEF q
<1> QED BY <1>1, <1>4, <1>6, <1>7, <1>8, <1>9, OthersRest, CardBecomes

(* A scorecard saved is about to be reported ... *)
LEMMA SaveCards ==
  ASSUME ConstantsOK, IInv, CardInv, NEW r \in Requests, SaveScore(r)
  PROVE  CardInv'
<1> DEFINE s == req[r].slot
<1>1. /\ req[r].pc = "save" /\ req[r].pc \notin AtRest /\ req[r] \in Request /\ s \in Slots
      /\ Sound(req[r]) /\ round' = round /\ row' = row
      /\ Serial => ScorecardReadsBack /\ KnowsCriteria(req[r])
  BY DEF SaveScore, At, AtRest, Ended, OnSlot, IInv, TypeOK, Sound, CardInv, SerialInv
<1>2. CASE Stands(req[r])
  <2> DEFINE q == [req[r] EXCEPT !.pc = "status"]
  <2>1. Set(r, q) /\ card' = [card EXCEPT ![s] = req[r].asks]
    BY <1>2 DEF SaveScore, Goto
  <2>2. q \in Request /\ q.pc = "status" /\ q.slot = s /\ q.id = req[r].id
    BY <1>1 DEF Request, Labels
  <2>3. Sound(q)
    BY <1>1, <2>2 DEF Sound
  <2> HIDE DEF q
  <2>4. \A t \in Slots : CardStep(q, t)
    BY <1>1, <1>2, <2>1, <2>2 DEF CardStep, Stands, IInv, TypeOK
  <2>5. NextKnowsCriteria(q) /\ q.pc # "idle" /\ req[r].pc \notin {"failed", "status"}
    BY <1>1, <2>2 DEF NextKnowsCriteria
  <2>6. Serial => ScorecardReadsBack'
    BY <1>1, <2>1 DEF ScorecardReadsBack, KnowsCriteria, IInv, TypeOK
  <2> QED BY <1>1, <2>1, <2>3, <2>4, <2>5, <2>6, OthersRest, CardBecomes
<1>3. CASE ~Stands(req[r])
  <2>1. Goto(r, "failed") /\ card' = card
    BY <1>3 DEF SaveScore
  <2> QED BY <1>1, <2>1, CardEnds DEF Ended
<1> QED BY <1>2, <1>3

(* ... and counted from then on *)
LEMMA MarkCards ==
  ASSUME ConstantsOK, IInv, CardInv, NEW r \in Requests, MarkDone(r) \/ MarkRecused(r)
  PROVE  CardInv'
<1> DEFINE s == req[r].slot
<1>1. /\ req[r].pc \in {"status", "recuse"} /\ req[r].pc \notin AtRest /\ s \in Slots
      /\ round' = round /\ card' = card /\ (Serial => ScorecardReadsBack)
  BY DEF MarkDone, MarkRecused, SetStatus, At, AtRest, Ended, OnSlot, IInv, TypeOK, Sound,
     CardInv, SerialInv
<1>2. CASE Stands(req[r])
  <2> DEFINE q == [req[r] EXCEPT !.pc = "done"]
  <2>1. PICK st \in {"done", "recused"} :
          /\ Set(r, q) /\ row' = [row EXCEPT ![s].st = st]
          /\ req[r].pc = "status" => st = "done"
    BY <1>2 DEF MarkDone, MarkRecused, SetStatus, At, Goto
  <2>2. Sound(q) /\ q.pc = "done"
    BY <1>1, Onward DEF Ended
  <2>3. row[s] \in Assignment
    BY <1>1, <1>2 DEF Stands, IInv, TypeOK
  <2> DEFINE new == [row[s] EXCEPT !.st = st]
  <2>4. new \in Assignment /\ new.id = row[s].id /\ new.st = st /\ new # NoRow
    BY <2>3 DEF Assignment, NoRow
  <2>5. row' = [row EXCEPT ![s] = new]
    BY <2>1
  <2> HIDE DEF new, q
  <2>6. \A t \in Slots : row'[t] = IF t = s THEN new ELSE row[t]
    BY <1>1, <2>5 DEF IInv, TypeOK
  <2>7. \A t \in Slots : CardStep(q, t)
    BY <1>1, <2>4, <2>6 DEF CardStep
  <2>8. req[r].pc = "status" => row'[s].st = "done"
    BY <1>1, <2>1, <2>4, <2>6
  <2>9. /\ NextKnowsCriteria(q) /\ q.pc # "idle" /\ req[r].pc # "failed"
        /\ (Serial => ScorecardReadsBack')
    BY <1>1, <2>2 DEF NextKnowsCriteria, ScorecardReadsBack
  <2> QED BY <1>1, <2>1, <2>2, <2>7, <2>8, <2>9, OthersRest, CardBecomes
<1>3. CASE ~Stands(req[r])
  <2>1. Goto(r, "failed") /\ row' = row
    BY <1>3 DEF MarkDone, MarkRecused, SetStatus
  <2> QED BY <1>1, <2>1, CardEnds DEF Ended
<1> QED BY <1>2, <1>3
LEMMA CardInit ==
  ASSUME ConstantsOK, Init
  PROVE  CardInv
<1>1. Counted /\ CardNeedsRow
  BY DEF Init, Counted, CardNeedsRow, NoRow
<1>2. ScorecardReadsBack
  BY DEF Init, ScorecardReadsBack
<1>3. \A r \in Requests : req[r].pc = "idle"
  BY DEF Init, Idle
<1> QED BY <1>1, <1>2, <1>3 DEF CardInv, SerialInv, Alone, KnowsCriteria, AtRest

LEMMA CardKept ==
  ASSUME ConstantsOK, IInv, CardInv, [Next]_vars
  PROVE  CardInv'
<1>1. ASSUME NEW r \in Requests, Step(r) PROVE CardInv'
  BY <1>1, ReadCards, RoundCards, InsertCards, UnassignCards, SaveCards, MarkCards DEF Step
<1>2. ASSUME NEW r \in Requests, Fail(r) PROVE CardInv'
  <2>1. /\ req[r].pc \notin AtRest /\ Goto(r, "failed")
        /\ round' = round /\ row' = row /\ card' = card
    BY <1>2 DEF Fail, InFlight, AtRest, db
  <2> QED BY <2>1, CardEnds DEF Ended
<1>3. CASE UNCHANGED vars
  BY <1>3 DEF vars, CardInv, Counted, Reporting, SomeFailed, Stands, CardNeedsRow, SerialInv,
         Alone, ScorecardReadsBack, KnowsCriteria, Unscored
<1> QED BY <1>1, <1>2, <1>3, BeginCards DEF Next

LEMMA SpecCards == Spec => []CardInv
<1>1. Init => CardInv
  BY CardInit, ConstantsOK
<1>2. IInv /\ CardInv /\ [Next]_vars => CardInv'
  BY CardKept, ConstantsOK
<1> QED BY <1>1, <1>2, SpecInv, PTL DEF Spec

(* However requests overlap, deletions of the round among them: once        *)
(* nothing runs and nothing has failed half way, every scorecard on file    *)
(* is counted (submitScorecard; the repository's assign).                  *)
THEOREM FiledAlwaysCounted == Spec => []FiledIsCounted
<1>1. CardInv => FiledIsCounted
  <2> SUFFICES ASSUME CardInv, InFlight = {}, \A r \in Requests : req[r].pc # "failed",
                      NEW s \in Slots, card[s] # None
               PROVE  row[s].st \in {"done", "recused"}
    BY DEF FiledIsCounted
  <2>1. ~SomeFailed
    BY DEF SomeFailed
  <2>2. ~Reporting(s)
    BY DEF Reporting, InFlight, Ended
  <2> QED BY <2>1, <2>2 DEF CardInv, Counted
<1> QED BY <1>1, SpecCards, PTL

(* Requests run one at a time, failing anywhere, the criteria lock keeps    *)
(* every scorecard answering the questions its round asks (updateRound).    *)
THEOREM ScorecardsReadBack ==
  ASSUME Serial
  PROVE  Spec => []ScorecardReadsBack
<1>1. CardInv => ScorecardReadsBack
  BY DEF CardInv, SerialInv
<1> QED BY <1>1, SpecCards, PTL

----------------------------------------------------------------------------
(* Calls from outside *)

Credential ==
  [st : {"none", "live", "ended"}, owner : Owners \cup {None}, write : BOOLEAN, scope : SUBSET Events]
Parts == {"event", "actor"}
Call ==
  [pc : {"begin", "verify", "owner", "limit", "context", "session", "write", "detail", "end"},
   via : {"rest", "mcp", None}, op : Called!Ops \cup {None}, key : Keys \cup {None},
   event : Events \cup {None}, session : Addressed \cup {None},
   found : SUBSET Parts, unread : SUBSET Parts,
   answer : Called!Refusals \cup {"none", "done", "failed"},
   wrote : BOOLEAN, ever : SUBSET {"live", "admin"}]

Inside == {"context", "session", "write", "detail"}

(* What has been checked when a call gets to a statement, and what of it    *)
(* nobody can take back.                                                    *)
Checked(q) ==
  /\ q.pc \in {"owner", "limit"} \cup Inside => "live" \in q.ever
  /\ q.pc \in {"limit"} \cup Inside => "admin" \in q.ever
  /\ q.pc \in Inside \/ (q.pc = "limit" /\ q.via = "rest") => Called!In(q)
  /\ q.pc \in Inside => Called!Granted(q)
  /\ q.pc \in {"session", "write", "detail"} \/ "event" \in q.found => q.event \in events
  /\ q.pc \in {"write", "detail"} =>
       q.op # "read" /\ (q.session # None => EventOf[q.session] = q.event)
  /\ q.pc = "detail" => q.op = "replace" /\ q.wrote
  /\ q.pc \notin {"detail", "end"} => ~q.wrote

(* What was answered, by the three properties.                              *)
Answers(q) ==
  /\ Called!Served(q) =>
       /\ q.ever = {"live", "admin"} /\ Called!In(q) /\ Called!Granted(q) /\ q.event \in events
       /\ q.session # None => EventOf[q.session] = q.event
  /\ q.answer \in Called!Refusals /\ q.wrote => q.op = "replace" /\ q.session \notin sessions
  /\ q.answer = "done" /\ q.op # "read" => q.wrote
  /\ ~Called!In(q) =>
       /\ q.answer # "no session" /\ ~Called!Served(q)
       /\ q.via = "rest" => q.answer \notin {"too many", "no scope"}

(* A call that is under way knows all that has been true of its credential. *)
Known(q) ==
  IF q.pc = "begin" THEN q = Called!NoCall
  ELSE /\ q.key \in Keys /\ key[q.key].st # "none"
       /\ q.op \in Called!Ops /\ (q.session = None <=> q.op = "create")
       /\ q.pc # "end" => q.answer = "none" /\ Called!Facts[q.key] \subseteq q.ever
       /\ Checked(q) /\ Answers(q)

ApiInv ==
  /\ events \subseteq Events
  /\ key \in [Keys -> Credential]
  /\ making.scope \subseteq Events /\ making.owner \in Owners \cup {None} /\ making.write \in BOOLEAN
  /\ call \in [Calls -> Call]
  /\ \A c \in Calls : Known(call[c])

LEMMA NoCallIsCall == Called!NoCall \in Call /\ Called!NoCall.pc = "begin"
  BY DEF Called!NoCall, Call, Called!Ops, Called!Refusals, Parts

LEMMA CallInit == Called!Init => ApiInv
<1> SUFFICES ASSUME Called!Init PROVE ApiInv
  OBVIOUS
<1>1. key \in [Keys -> Credential]
  <2>1. [st |-> "none", owner |-> None, write |-> FALSE, scope |-> {}] \in Credential
    BY DEF Credential
  <2>2. [st : {"live"}, owner : Owners, write : BOOLEAN, scope : (SUBSET events \ {{}}) \cup {Events}]
          \subseteq Credential
    BY DEF Called!Init, Credential
  <2> QED BY <2>1, <2>2 DEF Called!Init, Called!NoKey
<1>2. \A c \in Calls : call[c] = Called!NoCall
  BY DEF Called!Init
<1>3. call \in [Calls -> Call]
  BY NoCallIsCall DEF Called!Init
<1>4. /\ events \subseteq Events /\ making.scope \subseteq Events
      /\ making.owner \in Owners \cup {None} /\ making.write \in BOOLEAN
  BY DEF Called!Init, Called!NoMaking
<1>5. \A c \in Calls : Known(call[c])
  BY <1>2, NoCallIsCall DEF Known
<1> QED BY <1>1, <1>3, <1>4, <1>5 DEF ApiInv

LEMMA CallFields ==
  ASSUME NEW q \in Call
  PROVE  /\ q.key \in Keys \cup {None} /\ q.event \in Events \cup {None}
         /\ q.session \in Addressed \cup {None} /\ q.found \subseteq Parts /\ q.unread \subseteq Parts
         /\ q.wrote \in BOOLEAN /\ q.ever \subseteq {"live", "admin"}
         /\ q.op \in Called!Ops \cup {None} /\ q.via \in {"rest", "mcp", None}
         /\ q.answer \in Called!Refusals \cup {"none", "done", "failed"}
  BY DEF Call

(* Whatever changes beside the calls leaves what they know: a credential    *)
(* stays good for the same, events stay, and a session that comes is of an  *)
(* event that came with it.                                                 *)
LEMMA ChangeKeeps ==
  ASSUME ApiInv, Called!Change,
         events \subseteq events', events' \subseteq Events, key' \in [Keys -> Credential],
         making'.scope \subseteq Events, making'.owner \in Owners \cup {None}, making'.write \in BOOLEAN,
         \A k \in Keys : key[k].st # "none" =>
           key'[k].st # "none" /\ key'[k].scope = key[k].scope /\ key'[k].write = key[k].write,
         \A s \in sessions' \ sessions : EventOf[s] \notin events
  PROVE  ApiInv'
<1> DEFINE Learnt(q) == [q EXCEPT !.ever = @ \cup Called!Facts'[q.key]]
<1>1. /\ call' = [c \in Calls |-> IF call[c].pc \in {"begin", "end"} THEN call[c] ELSE Learnt(call[c])]
  BY DEF Called!Change
<1>2. \A k \in Keys : Called!Facts'[k] \subseteq {"live", "admin"}
  BY DEF Called!Facts
<1>3. ASSUME NEW c \in Calls PROVE call'[c] \in Call /\ Known(call[c])'
  <2> DEFINE q == call[c]
  <2>1. q \in Call /\ Known(q) /\ (q.pc # "begin" => q.key \in Keys)
    BY DEF ApiInv, Known
  <2>2. q.pc # "begin" =>
          /\ key'[q.key].st # "none" /\ key'[q.key].scope = key[q.key].scope
          /\ key'[q.key].write = key[q.key].write
    BY <2>1 DEF Known
  <2>3. CASE q.pc = "begin"
    BY <1>1, <2>1, <2>3 DEF Known
  <2>4. CASE q.pc = "end"
    <3>1. call'[c] = q
      BY <1>1, <2>4
    <3>2. Checked(call[c])'
      BY <2>1, <2>2, <2>4, <3>1 DEF Known, Checked, Inside
    <3>3. Answers(call[c])'
      BY <2>1, <2>2, <2>4, <3>1 DEF Known, Answers, Called!In, Called!Granted, Called!Served, Called!Ops
    <3> QED BY <2>1, <2>2, <2>4, <3>1, <3>2, <3>3 DEF Known
  <2>5. CASE q.pc \notin {"begin", "end"}
    <3> DEFINE p == call'[c]
    <3>1. p = Learnt(q)
      BY <1>1, <2>5
    <3>2. /\ p \in Call /\ p.pc = q.pc /\ p.via = q.via /\ p.op = q.op /\ p.key = q.key
          /\ p.event = q.event /\ p.session = q.session /\ p.found = q.found
          /\ p.answer = q.answer /\ p.wrote = q.wrote
          /\ p.ever = q.ever \cup Called!Facts'[q.key]
      BY <1>2, <2>1, <2>5, <3>1 DEF Call
    <3>3. Checked(call[c])'
      BY <2>1, <2>2, <2>5, <3>2 DEF Known, Checked, Inside, Called!In, Called!Granted
    <3>4. p.answer = "none" /\ "none" \notin Called!Refusals
      BY <2>1, <2>5, <3>2 DEF Known, Called!Refusals
    <3>5. /\ p.wrote => p.pc = "detail"
          /\ p.wrote => Called!In(call[c])' /\ Called!Granted(call[c])' /\ p.event \in events'
          /\ p.wrote => p.ever = {"live", "admin"}
          /\ p.wrote /\ p.session # None => EventOf[p.session] = p.event
      BY <2>5, <3>2, <3>3, CallFields DEF Checked, Inside
    <3>6. Answers(call[c])'
      BY <3>4, <3>5 DEF Answers, Called!Served
    <3> QED BY <2>1, <2>2, <2>5, <3>1, <3>2, <3>3, <3>4, <3>6 DEF Known
  <2> QED BY <2>3, <2>4, <2>5
<1>4. call' \in [Calls -> Call]
  BY <1>1, <1>3
<1> QED BY <1>3, <1>4 DEF ApiInv

LEMMA WorldMoves ==
  ASSUME ApiInv,
         \/ \E u \in Owners : Called!SetRole(u) \/ \E write \in BOOLEAN, scope \in SUBSET Events : Called!AskForKey(u, write, scope)
         \/ \E e \in Events : Called!CreateEvent(e)
         \/ \E s \in Addressed : Called!DeleteSession(s)
         \/ Called!CreateCredential \/ Called!RefuseKey
         \/ \E k \in Keys : Called!RevokeCredential(k) \/ Called!Expire(k)
  PROVE  ApiInv'
<1>1. CASE \E u \in Owners : Called!SetRole(u)
  BY <1>1, ChangeKeeps DEF ApiInv, Called!SetRole
<1>2. CASE \E u \in Owners : \E write \in BOOLEAN, scope \in SUBSET Events : Called!AskForKey(u, write, scope)
  BY <1>2, ChangeKeeps DEF ApiInv, Called!AskForKey
<1>3. CASE \E e \in Events : Called!CreateEvent(e)
  <2>1. PICK e \in Events : Called!CreateEvent(e)
    BY <1>3
  <2>2. \A s \in sessions' \ sessions : EventOf[s] \notin events
    BY <2>1 DEF Called!CreateEvent
  <2> QED BY <2>1, <2>2, ChangeKeeps DEF ApiInv, Called!CreateEvent
<1>4. CASE \E s \in Addressed : Called!DeleteSession(s)
  BY <1>4, ChangeKeeps DEF ApiInv, Called!DeleteSession
<1>5. CASE Called!CreateCredential
  <2>1. PICK k \in Keys \ Tokens :
          /\ key[k].st = "none"
          /\ key' = [key EXCEPT ![k] = [st |-> "live", owner |-> making.owner, write |-> making.write,
                                        scope |-> making.scope]]
    BY <1>5 DEF Called!CreateCredential
  <2>2. key' \in [Keys -> Credential]
    BY <2>1 DEF ApiInv, Credential
  <2>3. \A j \in Keys : key[j].st # "none" => key'[j] = key[j]
    BY <2>1 DEF ApiInv
  <2> QED BY <1>5, <2>2, <2>3, ChangeKeeps DEF ApiInv, Called!CreateCredential, Called!NoMaking
<1>6. CASE Called!RefuseKey
  BY <1>6, ChangeKeeps DEF ApiInv, Called!RefuseKey, Called!NoMaking
<1>7. CASE \E k \in Keys : Called!RevokeCredential(k) \/ Called!Expire(k)
  <2>1. PICK k \in Keys : Called!RevokeCredential(k) \/ Called!Expire(k)
    BY <1>7
  <2>2. key' = [key EXCEPT ![k].st = "ended"] /\ UNCHANGED <<events, sessions, making>> /\ Called!Change
    BY <2>1 DEF Called!RevokeCredential, Called!Expire
  <2>3. key' \in [Keys -> Credential]
    BY <2>2 DEF ApiInv, Credential
  <2>4. \A j \in Keys : key[j].st # "none" =>
          key'[j].st # "none" /\ key'[j].scope = key[j].scope /\ key'[j].write = key[j].write
    BY <2>2 DEF ApiInv, Credential
  <2> QED BY <2>2, <2>3, <2>4, ChangeKeeps DEF ApiInv
<1> QED BY <1>1, <1>2, <1>3, <1>4, <1>5, <1>6, <1>7

(* One call goes on. *)
LEMMA CallMoves ==
  ASSUME ApiInv, NEW c \in Calls, NEW q \in Call, call' = [call EXCEPT ![c] = q],
         UNCHANGED Called!stored, Known(q)
  PROVE  ApiInv'
<1>1. UNCHANGED <<admins, events, sessions, key, making>>
  BY DEF Called!stored
<1>2. Called!Facts' = Called!Facts
  BY <1>1 DEF Called!Facts
<1>3. ASSUME NEW d \in Calls PROVE Known(call[d])'
  <2>1. call'[d] = (IF d = c THEN q ELSE call[d]) /\ Known(call'[d])
    BY DEF ApiInv
  <2>2. Checked(call'[d]) <=> Checked(call[d])'
    BY <1>1 DEF Checked, Called!In, Called!Granted
  <2>3. Answers(call'[d]) <=> Answers(call[d])'
    BY <1>1 DEF Answers, Called!Served, Called!In, Called!Granted
  <2> QED BY <1>1, <1>2, <2>1, <2>2, <2>3 DEF Known
<1>4. call' \in [Calls -> Call]
  BY DEF ApiInv
<1> QED BY <1>1, <1>3, <1>4 DEF ApiInv

LEMMA GoesOn ==
  ASSUME ApiInv, NEW c \in Calls, call[c].pc \notin {"begin", "end"}
  PROVE  /\ call[c] \in Call /\ call[c].key \in Keys /\ call[c].op \in Called!Ops
         /\ key[call[c].key].st # "none" /\ (call[c].session = None <=> call[c].op = "create")
         /\ call[c].answer = "none" /\ Called!Facts[call[c].key] \subseteq call[c].ever
         /\ Checked(call[c]) /\ Answers(call[c])
  BY DEF ApiInv, Known

(* An answer is a fair one where the properties say so. *)
LEMMA Answering ==
  ASSUME ApiInv, NEW c \in Calls, call[c].pc \notin {"begin", "end"},
         NEW a \in Called!Refusals \cup {"done", "failed"},
         Called!Set(c, Called!Answered(call[c], a)), UNCHANGED Called!stored,
         a = "done" =>
           /\ call[c].pc \in {"session", "write", "detail"} /\ (call[c].op = "read" \/ call[c].wrote)
           /\ call[c].session # None => EventOf[call[c].session] = call[c].event,
         a \in Called!Refusals /\ call[c].wrote => call[c].session \notin sessions,
         ~Called!In(call[c]) =>
           a # "no session" /\ (call[c].via = "rest" => a \notin {"too many", "no scope"})
  PROVE  ApiInv'
<1> DEFINE p == call[c]
           q == Called!Answered(p, a)
<1>1. /\ p \in Call /\ p.key \in Keys /\ p.op \in Called!Ops /\ key[p.key].st # "none"
      /\ (p.session = None <=> p.op = "create") /\ Checked(p)
  BY GoesOn
<1>2. call' = [call EXCEPT ![c] = q]
  BY DEF Called!Set
<1>3. /\ q \in Call /\ q.pc = "end" /\ q.via = p.via /\ q.op = p.op /\ q.key = p.key
      /\ q.event = p.event /\ q.session = p.session /\ q.found = {} /\ q.answer = a
      /\ q.wrote = p.wrote /\ q.ever = p.ever
  BY <1>1 DEF Called!Answered, Call
<1> HIDE DEF p, q
<1>4. p.ever \subseteq {"live", "admin"} /\ p.wrote \in BOOLEAN /\ (p.wrote => p.pc = "detail")
  BY <1>1, CallFields DEF Checked, p
<1>5. Called!In(q) = Called!In(p) /\ Called!Granted(q) = Called!Granted(p)
  BY <1>3 DEF Called!In, Called!Granted
<1>6. Called!Served(q) =>
        /\ q.ever = {"live", "admin"} /\ Called!In(q) /\ Called!Granted(q) /\ q.event \in events
        /\ q.session # None => EventOf[q.session] = q.event
  BY <1>1, <1>3, <1>4, <1>5 DEF Called!Served, Checked, Inside, p
<1>7. Answers(q)
  BY <1>1, <1>3, <1>4, <1>5, <1>6 DEF Answers, Called!Served, Called!Refusals, Checked, p
<1>8. Checked(q)
  BY <1>3 DEF Checked, Inside
<1>9. Known(q)
  BY <1>1, <1>3, <1>7, <1>8 DEF Known
<1> QED BY <1>2, <1>3, <1>9, CallMoves

(* A call that goes on without an answer. *)
LEMMA GoingOn ==
  ASSUME ApiInv, NEW c \in Calls, call[c].pc \notin {"begin", "end"}, NEW q \in Call,
         Called!Set(c, q), UNCHANGED Called!stored,
         q.pc \notin {"begin", "end"}, q.via = call[c].via, q.op = call[c].op, q.key = call[c].key,
         q.event = call[c].event, q.session = call[c].session, q.answer = "none", q.ever = call[c].ever,
         Checked(q)
  PROVE  ApiInv'
<1>1. /\ call[c].key \in Keys /\ call[c].op \in Called!Ops /\ key[call[c].key].st # "none"
      /\ (call[c].session = None <=> call[c].op = "create")
      /\ Called!Facts[call[c].key] \subseteq call[c].ever
  BY GoesOn
<1>2. /\ q.wrote \in BOOLEAN /\ q.ever \subseteq {"live", "admin"}
      /\ "none" \notin Called!Refusals \cup {"no session", "too many", "no scope", "done"}
  BY CallFields DEF Called!Refusals
<1>3. q.wrote => q.pc = "detail"
  BY <1>2 DEF Checked
<1>4. Answers(q)
  BY <1>2, <1>3 DEF Answers, Called!Served, Checked, Inside
<1>5. Known(q)
  BY <1>1, <1>4 DEF Known
<1> QED BY <1>5, CallMoves DEF Called!Set

LEMMA CallBegins ==
  ASSUME ApiInv, NEW c \in Calls, NEW k \in Keys, NEW via \in {"rest", "mcp"}, NEW op \in Called!Ops,
         NEW e \in Events, NEW s \in Addressed \cup {None}, Called!Begin(c, k, via, op, e, s)
  PROVE  ApiInv'
<1> DEFINE q == [Called!NoCall EXCEPT !.pc = "verify", !.key = k, !.via = via, !.op = op, !.event = e,
                                      !.session = s, !.ever = Called!Facts[k]]
<1>1. call' = [call EXCEPT ![c] = q] /\ UNCHANGED Called!stored /\ key[k].st # "none"
      /\ (s = None <=> op = "create")
  BY DEF Called!Begin, Called!Set
<1>2. Called!Facts[k] \subseteq {"live", "admin"}
  BY DEF Called!Facts
<1>3. /\ q \in Call /\ q.pc = "verify" /\ q.key = k /\ q.op = op /\ q.session = s /\ q.found = {}
      /\ q.answer = "none" /\ q.wrote = FALSE /\ q.ever = Called!Facts[k]
  BY <1>2 DEF Called!NoCall, Call, Called!Refusals
<1> HIDE DEF q
<1>4. Checked(q)
  BY <1>3 DEF Checked, Inside
<1>5. Answers(q)
  BY <1>3 DEF Answers, Called!Served, Called!Refusals
<1>6. Known(q)
  BY <1>1, <1>3, <1>4, <1>5 DEF Known
<1> QED BY <1>1, <1>3, <1>6, CallMoves

LEMMA VerifyKeeps == ASSUME ApiInv, NEW c \in Calls, Called!Verify(c) PROVE ApiInv'
<1> DEFINE q == [call[c] EXCEPT !.pc = "owner"]
<1>1. call[c].pc = "verify" /\ UNCHANGED Called!stored /\ ~call[c].wrote
      /\ call[c] \in Call /\ Checked(call[c]) /\ call[c].answer = "none"
      /\ call[c].key \in Keys /\ Called!Facts[call[c].key] \subseteq call[c].ever
  BY GoesOn DEF Called!Verify, Checked
<1>2. CASE key[call[c].key].st = "live"
  <2>1. Called!Set(c, q)
    BY <1>2 DEF Called!Verify
  <2>2. /\ q \in Call /\ q.pc = "owner" /\ q.via = call[c].via /\ q.op = call[c].op
        /\ q.key = call[c].key /\ q.event = call[c].event /\ q.session = call[c].session
        /\ q.answer = "none" /\ q.ever = call[c].ever /\ q.found = call[c].found
        /\ q.wrote = call[c].wrote
    BY <1>1 DEF Call
  <2> HIDE DEF q
  <2>3. "live" \in call[c].ever
    BY <1>1, <1>2 DEF Called!Facts
  <2>4. Checked(q)
    BY <1>1, <2>2, <2>3 DEF Checked, Inside
  <2> QED BY <1>1, <2>1, <2>2, <2>4, GoingOn
<1>3. CASE key[call[c].key].st # "live"
  <2>1. Called!Set(c, Called!Answered(call[c], "bad key"))
    BY <1>3 DEF Called!Verify
  <2> QED BY <1>1, <2>1, Answering DEF Called!Refusals
<1> QED BY <1>2, <1>3

LEMMA ReadOwnerKeeps == ASSUME ApiInv, NEW c \in Calls, Called!ReadOwner(c) PROVE ApiInv'
<1> DEFINE q == [call[c] EXCEPT !.pc = "limit"]
<1>1. call[c].pc = "owner" /\ UNCHANGED Called!stored /\ ~call[c].wrote
      /\ call[c] \in Call /\ Checked(call[c]) /\ call[c].answer = "none"
      /\ call[c].key \in Keys /\ Called!Facts[call[c].key] \subseteq call[c].ever
  BY GoesOn DEF Called!ReadOwner, Checked
<1>2. CASE key[call[c].key].owner \notin admins
  <2>1. Called!Set(c, Called!Answered(call[c], "no admin"))
    BY <1>2 DEF Called!ReadOwner
  <2> QED BY <1>1, <2>1, Answering DEF Called!Refusals
<1>3. CASE key[call[c].key].owner \in admins /\ call[c].via = "rest" /\ ~Called!In(call[c])
  <2>1. Called!Set(c, Called!Answered(call[c], "no event"))
    BY <1>3 DEF Called!ReadOwner
  <2> QED BY <1>1, <2>1, Answering DEF Called!Refusals
<1>4. CASE key[call[c].key].owner \in admins /\ ~(call[c].via = "rest" /\ ~Called!In(call[c]))
  <2>1. Called!Set(c, q)
    BY <1>4 DEF Called!ReadOwner
  <2>2. /\ q \in Call /\ q.pc = "limit" /\ q.via = call[c].via /\ q.op = call[c].op
        /\ q.key = call[c].key /\ q.event = call[c].event /\ q.session = call[c].session
        /\ q.answer = "none" /\ q.ever = call[c].ever /\ q.found = call[c].found
        /\ q.wrote = call[c].wrote
    BY <1>1 DEF Call
  <2> HIDE DEF q
  <2>3. "admin" \in call[c].ever
    BY <1>1, <1>4 DEF Called!Facts
  <2>4. Called!In(q) = Called!In(call[c])
    BY <2>2 DEF Called!In
  <2>5. Checked(q)
    BY <1>1, <1>4, <2>2, <2>3, <2>4 DEF Checked, Inside
  <2> QED BY <1>1, <2>1, <2>2, <2>5, GoingOn
<1> QED BY <1>2, <1>3, <1>4

(* The permission and the event, as a tool or a route demands them. *)
LEMMA LimitKeeps == ASSUME ApiInv, NEW c \in Calls, Called!EnforceRateLimit(c) PROVE ApiInv'
<1> DEFINE p == call[c]
           q == [p EXCEPT !.pc = "context", !.unread = IF p.op = "read" THEN {"event"} ELSE Parts]
<1>1. /\ p.pc = "limit" /\ UNCHANGED Called!stored /\ ~p.wrote /\ p \in Call /\ Checked(p)
      /\ p.answer = "none" /\ (p.via = "rest" => Called!In(p))
  BY GoesOn DEF Called!EnforceRateLimit, Checked
<1>2. \/ Called!Set(c, Called!Admitted(p)) \/ Called!Set(c, Called!Answered(p, "too many"))
  BY DEF Called!EnforceRateLimit
<1>3. CASE Called!Set(c, Called!Answered(p, "too many"))
  BY <1>1, <1>3, Answering DEF Called!Refusals
<1>4. CASE Called!Set(c, Called!Admitted(p)) /\ ~Called!Granted(p)
  <2>1. Called!Admitted(p) = Called!Answered(p, "no scope")
    BY <1>4 DEF Called!Admitted
  <2> QED BY <1>1, <1>4, <2>1, Answering DEF Called!Refusals
<1>5. CASE Called!Set(c, Called!Admitted(p)) /\ Called!Granted(p) /\ ~Called!In(p)
  <2>1. Called!Admitted(p) = Called!Answered(p, "no event")
    BY <1>5 DEF Called!Admitted
  <2> QED BY <1>1, <1>5, <2>1, Answering DEF Called!Refusals
<1>6. CASE Called!Set(c, Called!Admitted(p)) /\ Called!Granted(p) /\ Called!In(p)
  <2>1. Called!Set(c, q)
    BY <1>6 DEF Called!Admitted, Parts
  <2>2. /\ q \in Call /\ q.pc = "context" /\ q.via = p.via /\ q.op = p.op
        /\ q.key = p.key /\ q.event = p.event /\ q.session = p.session
        /\ q.answer = "none" /\ q.ever = p.ever /\ q.found = p.found /\ q.wrote = p.wrote
    BY <1>1, ZenonT(60) DEF Call, Parts
  <2> HIDE DEF q
  <2>3. Called!In(q) /\ Called!Granted(q)
    BY <1>6, <2>2 DEF Called!In, Called!Granted
  <2>4. Checked(q)
    BY <1>1, <2>2, <2>3 DEF Checked, Inside
  <2> QED BY <1>1, <2>1, <2>2, <2>4, GoingOn
<1> QED BY <1>2, <1>3, <1>4, <1>5, <1>6

LEMMA ContextKeeps ==
  ASSUME ApiInv, NEW c \in Calls, NEW what \in Parts, Called!ReadContext(c, what)
  PROVE  ApiInv'
<1> DEFINE p == call[c]
           there == IF what = "event" THEN p.event \in events ELSE key[p.key].owner \in admins
           found == IF there THEN p.found \cup {what} ELSE p.found
           q == [p EXCEPT !.unread = @ \ {what}, !.found = found]
<1>1. /\ p.pc = "context" /\ UNCHANGED Called!stored /\ ~p.wrote /\ p \in Call /\ Checked(p)
      /\ p.answer = "none" /\ Called!In(p) /\ Called!Granted(p)
      /\ ("event" \in p.found => p.event \in events) /\ p.found \subseteq Parts
      /\ (p.session = None <=> p.op = "create")
  BY GoesOn, CallFields DEF Called!ReadContext, Checked, Inside
<1>2. Called!Set(c, IF q.unread = {} THEN Called!HasContext(q) ELSE q)
  BY DEF Called!ReadContext
<1>3. "event" \in found => p.event \in events
  BY <1>1
<1>4. found \subseteq Parts
  BY <1>1
<1> HIDE DEF found
<1>5. /\ q \in Call /\ q.pc = "context" /\ q.via = p.via /\ q.op = p.op
      /\ q.key = p.key /\ q.event = p.event /\ q.session = p.session
      /\ q.answer = "none" /\ q.ever = p.ever /\ q.found = found /\ q.wrote = p.wrote
  BY <1>1, <1>4 DEF Call
<1>6. CASE q.unread # {}
  <2>1. Called!Set(c, q)
    BY <1>2, <1>6
  <2> HIDE DEF q
  <2>2. Checked(q)
    BY <1>1, <1>3, <1>5 DEF Checked, Inside, Called!In, Called!Granted
  <2> QED BY <1>1, <1>5, <2>1, <2>2, GoingOn
<1>7. CASE q.unread = {} /\ ("event" \notin found \/ (p.op # "read" /\ "actor" \notin found))
  <2>1. PICK a \in {"no event", "no admin"} : Called!HasContext(q) = Called!Answered(q, a)
    BY <1>5, <1>7 DEF Called!HasContext
  <2>2. Called!Answered(q, a) = Called!Answered(p, a)
    BY <1>1 DEF Called!Answered, Call
  <2>3. Called!Set(c, Called!Answered(p, a))
    BY <1>2, <1>7, <2>1, <2>2
  <2> QED BY <1>1, <2>3, Answering DEF Called!Refusals
<1>8. CASE q.unread = {} /\ "event" \in found /\ (p.op = "read" \/ "actor" \in found)
  <2> DEFINE l == IF p.op = "create" THEN "write" ELSE "session"
             n == [q EXCEPT !.pc = l, !.found = {}]
  <2>1. Called!Set(c, n)
    <3>1. Called!HasContext(q) = n
      BY <1>5, <1>8 DEF Called!HasContext
    <3> QED BY <1>2, <1>8, <3>1
  <2>2. l \in {"write", "session"} /\ (l = "write" => p.op = "create")
    OBVIOUS
  <2> HIDE DEF q, l
  <2>3. /\ n \in Call /\ n.pc = l /\ n.via = p.via /\ n.op = p.op
        /\ n.key = p.key /\ n.event = p.event /\ n.session = p.session
        /\ n.answer = "none" /\ n.ever = p.ever /\ n.found = {} /\ n.wrote = p.wrote
    BY <1>5, <2>2 DEF Call
  <2> HIDE DEF n
  <2>4. Called!In(n) /\ Called!Granted(n)
    BY <1>1, <2>3 DEF Called!In, Called!Granted
  <2>5. Checked(n)
    BY <1>1, <1>3, <1>8, <2>2, <2>3, <2>4 DEF Checked, Inside
  <2> QED BY <1>1, <2>1, <2>2, <2>3, <2>5, GoingOn
<1> QED BY <1>6, <1>7, <1>8

LEMMA SessionKeeps == ASSUME ApiInv, NEW c \in Calls, Called!ReadSession(c) PROVE ApiInv'
<1> DEFINE p == call[c]
           q == [p EXCEPT !.pc = "write"]
<1>1. /\ p.pc = "session" /\ UNCHANGED Called!stored /\ ~p.wrote /\ p \in Call /\ Checked(p)
      /\ p.answer = "none" /\ Called!In(p) /\ Called!Granted(p)
  BY GoesOn DEF Called!ReadSession, Checked, Inside
<1>2. CASE ~Called!OfEvent(p)
  <2>1. Called!Set(c, Called!Answered(p, "no session"))
    BY <1>2 DEF Called!ReadSession
  <2> QED BY <1>1, <2>1, Answering DEF Called!Refusals
<1>3. CASE Called!OfEvent(p) /\ p.op = "read"
  <2>1. Called!Set(c, Called!Answered(p, "done"))
    BY <1>3 DEF Called!ReadSession
  <2>2. EventOf[p.session] = p.event
    BY <1>3 DEF Called!OfEvent
  <2> QED BY <1>1, <1>3, <2>1, <2>2, Answering DEF Called!Refusals
<1>4. CASE Called!OfEvent(p) /\ p.op # "read"
  <2>1. Called!Set(c, q)
    BY <1>4 DEF Called!ReadSession
  <2>2. /\ q \in Call /\ q.pc = "write" /\ q.via = p.via /\ q.op = p.op
        /\ q.key = p.key /\ q.event = p.event /\ q.session = p.session
        /\ q.answer = "none" /\ q.ever = p.ever /\ q.found = p.found /\ q.wrote = p.wrote
    BY <1>1 DEF Call
  <2> HIDE DEF q
  <2>3. Called!In(q) /\ Called!Granted(q) /\ EventOf[p.session] = p.event
    BY <1>1, <1>4, <2>2 DEF Called!In, Called!Granted, Called!OfEvent
  <2>4. Checked(q)
    BY <1>1, <1>4, <2>2, <2>3 DEF Checked, Inside
  <2> QED BY <1>1, <2>1, <2>2, <2>4, GoingOn
<1> QED BY <1>2, <1>3, <1>4

LEMMA WriteKeeps == ASSUME ApiInv, NEW c \in Calls, Called!Write(c) PROVE ApiInv'
<1> DEFINE p == call[c]
           w == [p EXCEPT !.wrote = TRUE]
           q == [p EXCEPT !.wrote = TRUE, !.pc = "detail"]
           n == Called!Answered(w, "done")
<1>1. /\ p.pc = "write" /\ UNCHANGED Called!stored /\ ~p.wrote /\ p \in Call /\ Checked(p)
      /\ p.answer = "none" /\ Called!In(p) /\ Called!Granted(p) /\ p.op # "read" /\ p.event \in events
      /\ p.key \in Keys /\ key[p.key].st # "none" /\ p.op \in Called!Ops
      /\ (p.session = None <=> p.op = "create")
      /\ p.session # None => EventOf[p.session] = p.event
      /\ p.ever = {"live", "admin"}
  <2>1. p.pc = "write" /\ p \in Call /\ Checked(p)
    BY GoesOn DEF Called!Write
  <2>2. p.ever = {"live", "admin"}
    BY <2>1, CallFields DEF Checked, Inside
  <2> QED BY <2>1, <2>2, GoesOn DEF Called!Write, Checked, Inside
<1>2. CASE Called!Set(c, Called!Answered(p, "failed"))
  BY <1>1, <1>2, Answering DEF Called!Refusals
<1>3. CASE Called!Set(c, q) /\ p.op = "replace"
  <2>1. /\ q \in Call /\ q.pc = "detail" /\ q.via = p.via /\ q.op = p.op
        /\ q.key = p.key /\ q.event = p.event /\ q.session = p.session
        /\ q.answer = "none" /\ q.ever = p.ever /\ q.found = p.found /\ q.wrote = TRUE
    BY <1>1 DEF Call
  <2> HIDE DEF q
  <2>2. Called!In(q) /\ Called!Granted(q)
    BY <1>1, <2>1 DEF Called!In, Called!Granted
  <2>3. Checked(q)
    BY <1>1, <1>3, <2>1, <2>2 DEF Checked, Inside
  <2> QED BY <1>1, <1>3, <2>1, <2>3, GoingOn
<1>4. CASE Called!Set(c, n) /\ p.op # "replace"
  <2>1. /\ n \in Call /\ n.pc = "end" /\ n.via = p.via /\ n.op = p.op
        /\ n.key = p.key /\ n.event = p.event /\ n.session = p.session
        /\ n.answer = "done" /\ n.ever = p.ever /\ n.found = {} /\ n.wrote = TRUE
    BY <1>1 DEF Call, Called!Answered
  <2> HIDE DEF n
  <2>2. Called!In(n) /\ Called!Granted(n)
    BY <1>1, <2>1 DEF Called!In, Called!Granted
  <2>3. Checked(n)
    BY <2>1 DEF Checked, Inside
  <2>4. Answers(n)
    BY <1>1, <2>1, <2>2 DEF Answers, Called!Refusals
  <2>5. Known(n)
    BY <1>1, <2>1, <2>3, <2>4 DEF Known
  <2> QED BY <1>1, <1>4, <2>1, <2>5, CallMoves DEF Called!Set
<1> QED BY <1>2, <1>3, <1>4 DEF Called!Write

LEMMA DetailKeeps == ASSUME ApiInv, NEW c \in Calls, Called!SessionDetail(c) PROVE ApiInv'
<1> DEFINE p == call[c]
           a == IF p.session \in sessions THEN "done" ELSE "no session"
<1>1. /\ p.pc = "detail" /\ UNCHANGED Called!stored /\ p.wrote /\ Called!In(p)
      /\ p.session # None => EventOf[p.session] = p.event
      /\ Called!Set(c, Called!Answered(p, a))
  BY GoesOn DEF Called!SessionDetail, Checked, Inside
<1>2. a \in Called!Refusals \cup {"done", "failed"} /\ "done" \notin Called!Refusals
  BY DEF Called!Refusals
<1>3. a # "done" => p.session \notin sessions
  OBVIOUS
<1> HIDE DEF a
<1> QED BY <1>1, <1>2, <1>3, Answering

LEMMA CallStep == ASSUME ApiInv, NEW c \in Calls, Called!Step(c) PROVE ApiInv'
<1>1. CASE Called!RefuseInput(c)
  <2>1. /\ call[c].pc = "write" /\ UNCHANGED Called!stored /\ ~call[c].wrote
        /\ Called!Set(c, Called!Answered(call[c], "bad request"))
    BY <1>1, GoesOn DEF Called!RefuseInput, Checked
  <2> QED BY <2>1, Answering DEF Called!Refusals
<1>2. CASE Called!Fail(c)
  <2>1. /\ call[c].pc \notin {"begin", "end"} /\ UNCHANGED Called!stored
        /\ Called!Set(c, Called!Answered(call[c], "failed"))
    BY <1>2 DEF Called!Fail
  <2> QED BY <2>1, Answering DEF Called!Refusals
<1>3. CASE \E what \in {"event", "actor"} : Called!ReadContext(c, what)
  BY <1>3, ContextKeeps DEF Parts
<1> QED BY <1>1, <1>2, <1>3, VerifyKeeps, ReadOwnerKeeps, LimitKeeps, SessionKeeps, WriteKeeps,
           DetailKeeps DEF Called!Step

LEMMA CallNext == ApiInv /\ [Called!Next]_Called!apiVars => ApiInv'
<1> SUFFICES ASSUME ApiInv, [Called!Next]_Called!apiVars PROVE ApiInv'
  OBVIOUS
<1>1. ASSUME UNCHANGED <<Called!stored, call>> PROVE ApiInv'
  <2>1. UNCHANGED <<admins, events, sessions, key, making, call>>
    BY <1>1 DEF Called!stored
  <2>2. Called!Facts' = Called!Facts
    BY <2>1 DEF Called!Facts
  <2>3. ASSUME NEW c \in Calls PROVE Known(call[c])'
    <3>1. Checked(call[c])' <=> Checked(call[c])
      BY <2>1 DEF Checked, Called!In, Called!Granted
    <3>2. Answers(call[c])' <=> Answers(call[c])
      BY <2>1 DEF Answers, Called!Served, Called!In, Called!Granted
    <3> QED BY <2>1, <2>2, <3>1, <3>2 DEF ApiInv, Known
  <2> QED BY <2>1, <2>3 DEF ApiInv
<1>2. CASE Called!NextPeriod
  BY <1>1, <1>2 DEF Called!NextPeriod
<1>3. CASE UNCHANGED Called!apiVars
  BY <1>1, <1>3 DEF Called!apiVars, Called!stored
<1>4. CASE \E c \in Calls :
        \/ Called!Step(c)
        \/ \E k \in Keys, via \in {"rest", "mcp"}, op \in Called!Ops, e \in Events,
              s \in Addressed \cup {None} : Called!Begin(c, k, via, op, e, s)
  BY <1>4, CallStep, CallBegins
<1> QED BY <1>2, <1>3, <1>4, WorldMoves DEF Called!Next

LEMMA CallProps == ApiInv => Called!GoodsAreGranted /\ Called!RefusalsChangeNothing /\ Called!OtherEventsAreHidden
<1> SUFFICES ASSUME ApiInv
             PROVE  Called!GoodsAreGranted /\ Called!RefusalsChangeNothing /\ Called!OtherEventsAreHidden
  OBVIOUS
<1>1. ASSUME NEW c \in Calls
      PROVE  IF call[c].pc = "begin"
             THEN ~Called!Served(call[c]) /\ call[c].answer \notin Called!Refusals
                  /\ call[c].key = None
             ELSE Answers(call[c])
  <2>1. CASE call[c].pc = "begin"
    <3>1. call[c] = Called!NoCall
      BY <2>1 DEF ApiInv, Known
    <3>2. /\ Called!NoCall.key = None /\ Called!NoCall.answer = "none" /\ ~Called!NoCall.wrote
      BY DEF Called!NoCall
    <3> QED BY <2>1, <3>1, <3>2 DEF Called!Served, Called!Refusals
  <2>2. CASE call[c].pc # "begin"
    BY <2>2 DEF ApiInv, Known
  <2> QED BY <2>1, <2>2
<1>2. Called!GoodsAreGranted
  BY <1>1 DEF Called!GoodsAreGranted, Answers
<1>3. Called!RefusalsChangeNothing
  BY <1>1 DEF Called!RefusalsChangeNothing, Answers, Called!Served
<1>4. Called!OtherEventsAreHidden
  BY <1>1 DEF Called!OtherEventsAreHidden, Answers
<1> QED BY <1>2, <1>3, <1>4

----------------------------------------------------------------------------
(* Lists put together from several reads *)

(* Which rows of the event a list has read so far *)
FirstsOf(q) == IF q.kind = "sessions" THEN {"sessions"} ELSE Listed!Firsts
Has(q, what) == what \in FirstsOf(q) /\ (q.pc = "first" => what \notin q.unread)

(* What it holds was there at some moment, one answer of each person; and   *)
(* what has stood all the while it holds as soon as it has read that kind.  *)
Gathered(q) ==
  /\ q.got \subseteq ever /\ (q.pc = "first" => q.unread \subseteq FirstsOf(q))
  /\ \A p \in People : \A a, b \in Listed!Stored(q.got, p) : a = b
  /\ ~Has(q, "members") => \A p \in People : Listed!Stored(q.got, p) = {}
  /\ Has(q, "sessions") => \A s \in Talks : Listed!Session(s) \in stood => Listed!Session(s) \in q.got
  /\ Has(q, "members") => \A p \in People : Listed!Stored(stood, p) \subseteq Listed!Stored(q.got, p)
  /\ Has(q, "tasks") => \A p \in People : Listed!Given(p) \in stood => Listed!Given(p) \in q.got
  /\ q.pc \in {"people", "sessions"} =>
       \A p \in People : Listed!SpeaksAt(stood, p) \subseteq Listed!SpeaksAt(q.got, p)

LinkedStand(r) == \A p \in People : \A s \in Listed!SpeaksAt(r, p) : Listed!Session(s) \in r
UnderWay == {"first", "links", "people", "sessions"}

ListInv ==
  /\ Listed!Sound(rows)
  /\ list = [pc |-> list.pc, kind |-> list.kind, unread |-> list.unread, got |-> list.got,
             shown |-> list.shown, at |-> list.at]
  /\ list.pc \in {"none", "end"} \cup UnderWay
  /\ list.pc # "none" =>
       /\ stood \subseteq rows /\ rows \subseteq ever /\ LinkedStand(stood)
       /\ list.kind \in {"sessions", "speakers", "speaker"}
  /\ list.pc \in UnderWay => Gathered(list)
  /\ list.pc = "sessions" =>
       list.kind = "speaker" /\ \A x \in list.shown : x[1] \in Listed!Concerned(ever) /\ Listed!Claimed(x)
  /\ list.pc \in UnderWay => list.at = {}
  /\ Listed!ListsTell

LEMMA ListInit == Listed!Init => ListInv
  BY DEF Listed!Init, ListInv, Listed!NoList, Listed!ListsTell, UnderWay

(* Rows of different kinds are different rows. *)
LEMMA RowsDiffer ==
  ASSUME NEW s, NEW t, NEW p, NEW o, NEW a, NEW b
  PROVE  /\ Listed!Session(s) = Listed!Session(t) => s = t
         /\ Listed!Link(s, p) = Listed!Link(t, o) => s = t /\ p = o
         /\ Listed!Member(p, a) = Listed!Member(o, b) => p = o /\ a = b
         /\ Listed!Session(s) # Listed!Link(t, p) /\ Listed!Session(s) # Listed!Member(p, a)
         /\ Listed!Session(s) # Listed!Given(p) /\ Listed!Link(s, p) # Listed!Member(o, a)
         /\ Listed!Link(s, p) # Listed!Given(o) /\ Listed!Member(p, a) # Listed!Given(o)
  BY DEF Listed!Session, Listed!Link, Listed!Member, Listed!Given

(* More rows concern more people, and say no less of them. *)
LEMMA MoreRows ==
  ASSUME NEW r, NEW t, r \subseteq t
  PROVE  /\ \A p : Listed!SpeaksAt(r, p) \subseteq Listed!SpeaksAt(t, p)
         /\ \A p : Listed!Stored(r, p) \subseteq Listed!Stored(t, p)
         /\ Listed!Concerned(r) \subseteq Listed!Concerned(t)
<1>1. \A p : Listed!SpeaksAt(r, p) \subseteq Listed!SpeaksAt(t, p) /\ Listed!Stored(r, p) \subseteq Listed!Stored(t, p)
  BY DEF Listed!SpeaksAt, Listed!Stored
<1> QED BY <1>1 DEF Listed!Concerned

LEMMA ChangesSound == ASSUME Listed!Sound(rows), Listed!Change PROVE Listed!Sound(rows')
<1>1. ASSUME NEW s \in Talks, NEW team \in SUBSET People,
             LET rest == rows \ {Listed!Link(s, p) : p \in People} IN
             \/ rows' = rest \ {Listed!Session(s)}
             \/ rows' = rest \cup {Listed!Session(s)} \cup {Listed!Link(s, p) : p \in team}
      PROVE  Listed!Sound(rows')
  <2>1. ASSUME NEW p \in People, NEW t \in Talks, Listed!Link(t, p) \in rows'
        PROVE  Listed!Session(t) \in rows'
    <3>1. CASE t = s
      BY <1>1, <2>1, <3>1, RowsDiffer
    <3>2. CASE t # s
      <4>1. Listed!Link(t, p) # Listed!Session(s) /\ Listed!Link(t, p) \notin {Listed!Link(s, o) : o \in team}
        BY <3>2, RowsDiffer
      <4>2. Listed!Link(t, p) \in rows
        BY <1>1, <2>1, <4>1
      <4>3. Listed!Session(t) \in rows
        BY <4>2 DEF Listed!Sound, Listed!SpeaksAt
      <4>4. Listed!Session(t) # Listed!Session(s) /\ Listed!Session(t) \notin {Listed!Link(s, o) : o \in People}
        BY <3>2, RowsDiffer
      <4> QED BY <1>1, <4>3, <4>4
    <3> QED BY <3>1, <3>2
  <2>2. ASSUME NEW p \in People PROVE Listed!Stored(rows', p) \subseteq Listed!Stored(rows, p)
    <3>1. \A a : /\ Listed!Member(p, a) # Listed!Session(s)
                 /\ Listed!Member(p, a) \notin {Listed!Link(s, o) : o \in team}
      BY RowsDiffer
    <3>2. \A a : Listed!Member(p, a) \in rows' => Listed!Member(p, a) \in rows
      BY <1>1, <3>1
    <3> QED BY <3>2 DEF Listed!Stored
  <2> QED BY <2>1, <2>2 DEF Listed!Sound, Listed!SpeaksAt
<1>2. ASSUME NEW p \in People, NEW st \in Listed!Answers,
             LET rest == rows \ {Listed!Member(p, a) : a \in Listed!Answers} IN
             rows' \in {rest, rest \cup {Listed!Member(p, st)}}
      PROVE  Listed!Sound(rows')
  <2>1. \A s, o : Listed!Link(s, o) \in rows' => Listed!Link(s, o) \in rows
    BY <1>2, RowsDiffer
  <2>2. \A s : Listed!Session(s) \in rows => Listed!Session(s) \in rows'
    BY <1>2, RowsDiffer
  <2>3. ASSUME NEW o \in People, NEW a \in Listed!Stored(rows', o), NEW b \in Listed!Stored(rows', o) PROVE a = b
    <3>1. CASE o = p
      BY <1>2, <2>3, <3>1, RowsDiffer DEF Listed!Stored
    <3>2. CASE o # p
      BY <1>2, <2>3, <3>2, RowsDiffer DEF Listed!Stored, Listed!Sound
    <3> QED BY <3>1, <3>2
  <2> QED BY <2>1, <2>2, <2>3 DEF Listed!Sound, Listed!SpeaksAt
<1>3. ASSUME NEW p \in People, rows' \in {rows \cup {Listed!Given(p)}, rows \ {Listed!Given(p)}}
      PROVE  Listed!Sound(rows')
  <2>1. \A s, o : Listed!Link(s, o) \in rows' => Listed!Link(s, o) \in rows
    BY <1>3, RowsDiffer
  <2>2. \A s : Listed!Session(s) \in rows => Listed!Session(s) \in rows'
    BY <1>3, RowsDiffer
  <2>3. \A o : Listed!Stored(rows', o) \subseteq Listed!Stored(rows, o)
    BY <1>3, RowsDiffer DEF Listed!Stored
  <2> QED BY <2>1, <2>2, <2>3 DEF Listed!Sound, Listed!SpeaksAt
<1> QED BY <1>1, <1>2, <1>3 DEF Listed!Change

LEMMA ChangeGathers == ASSUME ListInv, Listed!Change PROVE ListInv'
<1>1. /\ list' = list /\ list.pc \in UnderWay /\ ever' = ever \cup rows' /\ stood' = stood \cap rows'
  BY DEF Listed!Change, UnderWay
<1>2. Listed!Sound(rows')
  BY ChangesSound DEF ListInv
<1>3. /\ stood' \subseteq rows' /\ rows' \subseteq ever' /\ stood' \subseteq stood /\ ever \subseteq ever'
  BY <1>1
<1>4. LinkedStand(stood')
  <2> SUFFICES ASSUME NEW p \in People, NEW s \in Listed!SpeaksAt(stood', p)
               PROVE  Listed!Session(s) \in stood'
    BY DEF LinkedStand
  <2>1. s \in Listed!SpeaksAt(stood, p) /\ s \in Listed!SpeaksAt(rows', p)
    BY <1>1 DEF Listed!SpeaksAt
  <2> QED BY <1>1, <1>2, <2>1 DEF ListInv, UnderWay, LinkedStand, Listed!Sound
<1>5. /\ \A p : Listed!SpeaksAt(stood', p) \subseteq Listed!SpeaksAt(stood, p)
      /\ \A p : Listed!Stored(stood', p) \subseteq Listed!Stored(stood, p)
  BY <1>3, MoreRows
<1>6. Gathered(list)'
  <2>1. Gathered(list)
    BY <1>1 DEF ListInv
  <2> QED BY <1>1, <1>3, <1>5, <2>1 DEF Gathered, Has, FirstsOf, Listed!Firsts
<1>7. list.pc = "sessions" =>
        \A x \in list.shown : x[1] \in Listed!Concerned(ever') /\ Listed!Claimed(x)'
  <2> SUFFICES ASSUME list.pc = "sessions", NEW x \in list.shown
               PROVE  x[1] \in Listed!Concerned(ever') /\ Listed!Claimed(x)'
    OBVIOUS
  <2>1. x[1] \in Listed!Concerned(ever) /\ Listed!Claimed(x)
    BY DEF ListInv
  <2>2. /\ Listed!SpeaksAt(ever, x[1]) \subseteq Listed!SpeaksAt(ever', x[1])
        /\ Listed!Stored(ever, x[1]) \subseteq Listed!Stored(ever', x[1])
        /\ Listed!Concerned(ever) \subseteq Listed!Concerned(ever')
    BY <1>3, MoreRows
  <2> QED BY <1>5, <2>1, <2>2 DEF Listed!Claimed
<1>8. Listed!ListsTell'
  BY <1>1 DEF Listed!ListsTell, UnderWay
<1> QED BY <1>1, <1>2, <1>3, <1>4, <1>6, <1>7, <1>8 DEF ListInv, UnderWay

(* The statements of the request: the rows stay.                            *)
LEMMA ListMoves ==
  ASSUME ListInv, list.pc \in UnderWay, UNCHANGED <<rows, ever, stood>>,
         list' = [pc |-> list'.pc, kind |-> list.kind, unread |-> list'.unread, got |-> list'.got,
                  shown |-> list'.shown, at |-> list'.at],
         list'.pc \in UnderWay, Gathered(list)', list'.at = list.at,
         list'.pc = "sessions" =>
           list.kind = "speaker" /\ \A x \in list'.shown : x[1] \in Listed!Concerned(ever) /\ Listed!Claimed(x)
  PROVE  ListInv'
<1>1. Listed!ListsTell'
  BY DEF Listed!ListsTell, UnderWay
<1>2. \A x : Listed!Claimed(x)' <=> Listed!Claimed(x)
  BY DEF Listed!Claimed
<1> QED BY <1>1, <1>2 DEF ListInv, UnderWay

LEMMA ListBegins ==
  ASSUME ListInv, NEW kind \in {"sessions", "speakers", "speaker"}, Listed!Begin(kind)
  PROVE  ListInv'
<1>1. /\ list.pc = "none" /\ ever' = rows /\ stood' = rows /\ rows' = rows
      /\ list' = [pc |-> "first", kind |-> kind,
                  unread |-> IF kind = "sessions" THEN {"sessions"} ELSE Listed!Firsts,
                  got |-> {}, shown |-> {}, at |-> {}]
  BY DEF Listed!Begin, Listed!NoList
<1>2. ~Has(list, "sessions")' /\ ~Has(list, "members")' /\ ~Has(list, "tasks")'
  BY <1>1 DEF Has, FirstsOf, Listed!Firsts
<1>3. Gathered(list)'
  <2>1. /\ list'.pc = "first" /\ list'.unread = FirstsOf(list)' /\ list'.got = {}
    BY <1>1 DEF FirstsOf
  <2>2. \A p : Listed!Stored({}, p) = {}
    BY DEF Listed!Stored
  <2> QED BY <1>2, <2>1, <2>2 DEF Gathered
<1>4. LinkedStand(stood)'
  BY <1>1 DEF ListInv, LinkedStand, Listed!Sound
<1>5. Listed!ListsTell'
  BY <1>1 DEF Listed!ListsTell
<1> QED BY <1>1, <1>3, <1>4, <1>5 DEF ListInv, UnderWay

LEMMA RowsAreRead == ASSUME ListInv, NEW what \in Listed!Firsts, Listed!ReadRows(what) PROVE ListInv'
<1> DEFINE found == Listed!Found(what)
           known == list.got \cup found
<1>1. /\ list.pc = "first" /\ what \in list.unread /\ UNCHANGED <<rows, ever, stood>>
      /\ list'.pc \in {"first", "links"} /\ list'.kind = list.kind /\ list'.at = list.at
      /\ list'.unread = list.unread \ {what} /\ list'.got = known
      /\ (list'.pc = "links" => list.unread = {what})
      /\ list' = [pc |-> list'.pc, kind |-> list.kind, unread |-> list'.unread, got |-> list'.got,
                  shown |-> list'.shown, at |-> list'.at]
  <2>1. list = [pc |-> list.pc, kind |-> list.kind, unread |-> list.unread, got |-> list.got,
                shown |-> list.shown, at |-> list.at]
    BY DEF ListInv
  <2>2. list.pc = "first" /\ what \in list.unread /\ UNCHANGED <<rows, ever, stood>>
    BY DEF Listed!ReadRows, Listed!Goes
  <2>3. list' = [list EXCEPT !.unread = list.unread \ {what}, !.got = known,
                             !.pc = IF list.unread = {what} THEN "links" ELSE list.pc]
    BY DEF Listed!ReadRows, Listed!Goes
  <2> HIDE DEF known
  <2> QED BY <2>1, <2>2, <2>3
<1>2. /\ Gathered(list) /\ stood \subseteq rows /\ rows \subseteq ever
  BY <1>1 DEF ListInv, UnderWay
<1>3. found \subseteq rows
  BY DEF Listed!Found
<1>4. /\ what # "sessions" => \A s : Listed!Session(s) \notin found
      /\ what # "members" => \A p, a : Listed!Member(p, a) \notin found
      /\ what # "tasks" => \A p : Listed!Given(p) \notin found
  BY RowsDiffer DEF Listed!Found, Listed!Firsts
<1>5. /\ what = "sessions" => \A s \in Talks : Listed!Session(s) \in rows => Listed!Session(s) \in found
      /\ what = "members" =>
           \A p \in People, a \in Listed!Answers : Listed!Member(p, a) \in rows => Listed!Member(p, a) \in found
      /\ what = "tasks" => \A p \in People : Listed!Given(p) \in rows => Listed!Given(p) \in found
  BY DEF Listed!Found
<1> HIDE DEF found
<1>6. /\ \A k \in {"sessions", "members", "tasks"} : Has(list, k)' <=> Has(list, k) \/ k = what
      /\ list'.pc = "first" => list'.unread \subseteq FirstsOf(list)'
  <2>1. list.unread \subseteq FirstsOf(list) /\ FirstsOf(list)' = FirstsOf(list)
    BY <1>1, <1>2 DEF Gathered, FirstsOf
  <2> QED BY <1>1, <2>1 DEF Has
<1>7. ~Has(list, what)
  BY <1>1 DEF Has
<1>8. \A p \in People : Listed!Stored(known, p) =
        IF what = "members" THEN Listed!Stored(rows, p) ELSE Listed!Stored(list.got, p)
  <2>1. CASE what = "members"
    <3>1. \A p \in People : Listed!Stored(list.got, p) = {}
      BY <1>2, <1>7, <2>1 DEF Gathered
    <3> QED BY <1>3, <1>5, <2>1, <3>1 DEF Listed!Stored
  <2>2. CASE what # "members"
    BY <1>4, <2>2 DEF Listed!Stored
  <2> QED BY <2>1, <2>2
<1>9. \A p \in People : \A a, b \in Listed!Stored(rows, p) : a = b
  BY DEF ListInv, Listed!Sound
<1>10. \A p \in People : Listed!Stored(stood, p) \subseteq Listed!Stored(rows, p)
  BY <1>2, MoreRows
<1>11. /\ known \subseteq ever
       /\ \A p \in People : \A a, b \in Listed!Stored(known, p) : a = b
       /\ ~Has(list, "members")' => \A p \in People : Listed!Stored(known, p) = {}
       /\ Has(list, "members")' => \A p \in People : Listed!Stored(stood, p) \subseteq Listed!Stored(known, p)
  BY <1>2, <1>3, <1>6, <1>8, <1>9, <1>10 DEF Gathered
<1>12. /\ Has(list, "sessions")' => \A s \in Talks : Listed!Session(s) \in stood => Listed!Session(s) \in known
       /\ Has(list, "tasks")' => \A p \in People : Listed!Given(p) \in stood => Listed!Given(p) \in known
  BY <1>2, <1>5, <1>6 DEF Gathered
<1>13. Gathered(list)'
  BY <1>1, <1>6, <1>11, <1>12 DEF Gathered
<1> QED BY <1>1, <1>13, ListMoves DEF UnderWay

LEMMA LinksAreRead == ASSUME ListInv, Listed!ReadLinks PROVE ListInv'
<1> DEFINE found == rows \cap {Listed!Link(s, p) : s \in {t \in Talks : Listed!Session(t) \in list.got}, p \in People}
           known == list.got \cup found
<1>1. /\ list.pc = "links" /\ UNCHANGED <<rows, ever, stood>>
      /\ list'.pc = "people" /\ list'.kind = list.kind /\ list'.got = known /\ list'.at = list.at
      /\ list' = [pc |-> list'.pc, kind |-> list.kind, unread |-> list'.unread, got |-> list'.got,
                  shown |-> list'.shown, at |-> list'.at]
  <2>1. list = [pc |-> list.pc, kind |-> list.kind, unread |-> list.unread, got |-> list.got,
                shown |-> list.shown, at |-> list.at]
    BY DEF ListInv
  <2>2. list.pc = "links" /\ UNCHANGED <<rows, ever, stood>>
    BY DEF Listed!ReadLinks, Listed!Goes
  <2>3. list' = [list EXCEPT !.pc = "people", !.got = known]
    BY DEF Listed!ReadLinks, Listed!Goes
  <2> HIDE DEF known
  <2> QED BY <2>1, <2>2, <2>3
<1>2. /\ Gathered(list) /\ stood \subseteq rows /\ rows \subseteq ever /\ LinkedStand(stood)
  BY <1>1 DEF ListInv, UnderWay
<1>3. \A k : Has(list, k)' <=> Has(list, k)
  BY <1>1 DEF Has, FirstsOf
<1>4. found \subseteq rows /\ \A p, a : Listed!Member(p, a) \notin found
  BY RowsDiffer
<1>5. \A p \in People : \A s \in Listed!SpeaksAt(stood, p) : Listed!Link(s, p) \in found
  <2> SUFFICES ASSUME NEW p \in People, NEW s \in Listed!SpeaksAt(stood, p) PROVE Listed!Link(s, p) \in found
    OBVIOUS
  <2>1. s \in Talks /\ Listed!Link(s, p) \in stood /\ Listed!Session(s) \in stood
    BY <1>2 DEF LinkedStand, Listed!SpeaksAt
  <2>2. Has(list, "sessions")
    BY <1>1 DEF Has, FirstsOf, Listed!Firsts
  <2>3. Listed!Session(s) \in list.got
    BY <1>2, <2>1, <2>2 DEF Gathered
  <2> QED BY <1>2, <2>1, <2>3
<1> HIDE DEF found
<1>6. \A p : Listed!Stored(known, p) = Listed!Stored(list.got, p)
  BY <1>4 DEF Listed!Stored
<1>7. \A p \in People : Listed!SpeaksAt(stood, p) \subseteq Listed!SpeaksAt(known, p)
  BY <1>5 DEF Listed!SpeaksAt
<1>8. Gathered(list)'
  BY <1>1, <1>2, <1>3, <1>4, <1>6, <1>7 DEF Gathered
<1> QED BY <1>1, <1>8, ListMoves DEF UnderWay

(* What a list says of the people in it                                     *)
LEMMA PeopleTold ==
  ASSUME ListInv, list.pc = "people", list.kind # "sessions"
  PROVE  /\ Listed!Concerned(stood) \subseteq {x[1] : x \in Listed!SpeakerRows(list.got)}
         /\ \A x \in Listed!SpeakerRows(list.got) : x[1] \in Listed!Concerned(ever) /\ Listed!Claimed(x)
<1>1. Gathered(list) /\ \A k \in Listed!Firsts : Has(list, k)
  BY DEF ListInv, UnderWay, Has, FirstsOf
<1>2. ASSUME NEW p \in People
      PROVE  /\ Listed!Stored(stood, p) \subseteq Listed!Stored(list.got, p)
             /\ Listed!SpeaksAt(stood, p) \subseteq Listed!SpeaksAt(list.got, p)
             /\ Listed!Given(p) \in stood => Listed!Given(p) \in list.got
             /\ Listed!Stored(list.got, p) \subseteq Listed!Stored(ever, p)
             /\ Listed!SpeaksAt(list.got, p) \subseteq Listed!SpeaksAt(ever, p)
             /\ \A a, b \in Listed!Stored(list.got, p) : a = b
  <2>1. list.got \subseteq ever
    BY <1>1 DEF Gathered
  <2> QED BY <1>1, <2>1, MoreRows DEF Gathered, Listed!Firsts
<1>3. Listed!Concerned(stood) \subseteq Listed!Concerned(list.got)
  BY <1>2 DEF Listed!Concerned
<1>4. Listed!Concerned(list.got) \subseteq Listed!Concerned(ever)
  BY <1>1, MoreRows DEF Gathered
<1>5. ASSUME NEW p \in Listed!Concerned(list.got)
      PROVE  Listed!Claimed(<<p, Listed!Confirmation(list.got, p)>>)
  <2> DEFINE st == Listed!Confirmation(list.got, p)
             all == Listed!Stored(list.got, p)
  <2>1. p \in People /\ all \subseteq Listed!Answers
    BY DEF Listed!Concerned, Listed!Stored
  <2>2. CASE all \ {"open"} # {}
    <3>1. PICK a \in all : a # "open"
      BY <2>2
    <3>2. all = {a}
      BY <1>2, <2>1, <3>1
    <3>3. st = a
      <4>1. st = CHOOSE b \in all : TRUE
        BY <2>2 DEF Listed!Confirmation
      <4>2. (CHOOSE b \in {a} : TRUE) = a
        OBVIOUS
      <4> HIDE DEF all, st
      <4> QED BY <3>2, <4>1, <4>2
    <3>4. a \in Listed!Stored(ever, p) /\ a \in {"confirmed", "declined"}
      BY <1>2, <2>1, <3>1 DEF Listed!Answers
    <3> QED BY <3>3, <3>4 DEF Listed!Claimed
  <2>3. CASE all \ {"open"} = {} /\ Listed!SpeaksAt(list.got, p) # {}
    <3>1. st = "confirmed"
      BY <2>3 DEF Listed!Confirmation
    <3>2. Listed!SpeaksAt(ever, p) # {}
      BY <1>2, <2>1, <2>3
    <3> QED BY <3>1, <3>2 DEF Listed!Claimed
  <2>4. CASE all \ {"open"} = {} /\ Listed!SpeaksAt(list.got, p) = {}
    <3>1. st = "unconfirmed"
      BY <2>4 DEF Listed!Confirmation
    <3>2. Listed!SpeaksAt(stood, p) = {} /\ Listed!Stored(stood, p) \subseteq {"open"}
      BY <1>2, <2>1, <2>4
    <3> QED BY <3>1, <3>2 DEF Listed!Claimed
  <2> QED BY <2>2, <2>3, <2>4
<1>6. \A p \in Listed!Concerned(list.got) :
        <<p, Listed!Confirmation(list.got, p)>> \in Listed!SpeakerRows(list.got)
  BY DEF Listed!SpeakerRows
<1>7. ASSUME NEW x \in Listed!SpeakerRows(list.got)
      PROVE  x[1] \in Listed!Concerned(ever) /\ Listed!Claimed(x)
  <2>1. PICK p \in Listed!Concerned(list.got) : x = <<p, Listed!Confirmation(list.got, p)>>
    BY DEF Listed!SpeakerRows
  <2> QED BY <1>4, <1>5, <2>1
<1>8. Listed!Concerned(stood) \subseteq {x[1] : x \in Listed!SpeakerRows(list.got)}
  <2> SUFFICES ASSUME NEW p \in Listed!Concerned(stood)
               PROVE  \E x \in Listed!SpeakerRows(list.got) : p = x[1]
    OBVIOUS
  <2>1. <<p, Listed!Confirmation(list.got, p)>> \in Listed!SpeakerRows(list.got)
    BY <1>3, <1>6
  <2> QED BY <2>1
<1> QED BY <1>7, <1>8

LEMMA ListShaped == ASSUME ListInv, Listed!Shape PROVE ListInv'
<1>1. list = [pc |-> list.pc, kind |-> list.kind, unread |-> list.unread, got |-> list.got,
              shown |-> list.shown, at |-> list.at]
  BY DEF ListInv
<1>2. /\ list.pc = "people" /\ UNCHANGED <<rows, ever, stood>> /\ Gathered(list)
      /\ stood \subseteq rows /\ rows \subseteq ever /\ LinkedStand(stood)
      /\ list.kind \in {"sessions", "speakers", "speaker"}
  BY DEF Listed!Shape, Listed!Goes, ListInv, UnderWay
<1>3. CASE list.kind = "sessions"
  <2>1. /\ list' = [list EXCEPT !.pc = "end", !.shown = Listed!SessionRows(list.got)]
    BY <1>3 DEF Listed!Shape, Listed!Goes
  <2>2. /\ list'.pc = "end" /\ list'.kind = "sessions" /\ list'.shown = Listed!SessionRows(list.got)
        /\ list' = [pc |-> list'.pc, kind |-> list'.kind, unread |-> list'.unread, got |-> list'.got,
                    shown |-> list'.shown, at |-> list'.at]
    BY <1>1, <1>3, <2>1
  <2>3. \A s \in Talks : Listed!Session(s) \in stood => Listed!Session(s) \in list.got
    BY <1>2, <1>3 DEF Gathered, Has, FirstsOf
  <2>4. {s \in Talks : Listed!Session(s) \in stood} \subseteq {x[1] : x \in list'.shown}
    <3> SUFFICES ASSUME NEW s \in Talks, Listed!Session(s) \in stood
                 PROVE  \E x \in Listed!SessionRows(list.got) : s = x[1]
      BY <2>2
    <3>1. <<s, {p \in People : Listed!Link(s, p) \in list.got}>> \in Listed!SessionRows(list.got)
      BY <2>3 DEF Listed!SessionRows
    <3> QED BY <3>1
  <2>5. ASSUME NEW x \in list'.shown
        PROVE  /\ Listed!Session(x[1]) \in ever
               /\ {p \in People : Listed!Link(x[1], p) \in stood} \subseteq x[2]
               /\ \A p \in x[2] : Listed!Link(x[1], p) \in ever
    <3>1. PICK s \in Talks : /\ Listed!Session(s) \in list.got
                             /\ x = <<s, {p \in People : Listed!Link(s, p) \in list.got}>>
      BY <2>2, <2>5 DEF Listed!SessionRows
    <3>2. \A p \in People : Listed!Link(s, p) \in stood => Listed!Link(s, p) \in list.got
      BY <1>2 DEF Gathered, Listed!SpeaksAt
    <3> QED BY <1>2, <3>1, <3>2 DEF Gathered
  <2>6. Listed!ListsTell'
    BY <1>2, <2>2, <2>4, <2>5 DEF Listed!ListsTell
  <2> QED BY <1>2, <2>2, <2>6 DEF ListInv, UnderWay
<1>4. CASE list.kind = "speakers"
  <2>1. list' = [list EXCEPT !.pc = "end", !.shown = Listed!SpeakerRows(list.got)]
    BY <1>4 DEF Listed!Shape, Listed!Goes
  <2>2. /\ list'.pc = "end" /\ list'.kind = "speakers" /\ list'.shown = Listed!SpeakerRows(list.got)
        /\ list' = [pc |-> list'.pc, kind |-> list'.kind, unread |-> list'.unread, got |-> list'.got,
                    shown |-> list'.shown, at |-> list'.at]
    BY <1>1, <1>4, <2>1
  <2>3. list.at = {}
    BY <1>2 DEF ListInv, UnderWay
  <2>4. list'.at = list.at
    BY <1>1, <2>1
  <2>5. Listed!ListsTell'
    <3>1. \A x : Listed!Claimed(x)' <=> Listed!Claimed(x)
      BY <1>2 DEF Listed!Claimed
    <3> QED BY <1>2, <1>4, <2>2, <2>3, <2>4, <3>1, PeopleTold DEF Listed!ListsTell
  <2> QED BY <1>2, <2>2, <2>5 DEF ListInv, UnderWay
<1>5. CASE list.kind = "speaker"
  <2>1. list' = [list EXCEPT !.pc = "sessions", !.shown = Listed!SpeakerRows(list.got)]
    BY <1>5 DEF Listed!Shape, Listed!Goes
  <2>2. /\ list'.pc = "sessions" /\ list'.kind = "speaker" /\ list'.shown = Listed!SpeakerRows(list.got)
        /\ list'.got = list.got /\ list'.unread = list.unread /\ list'.at = list.at
        /\ list' = [pc |-> list'.pc, kind |-> list'.kind, unread |-> list'.unread, got |-> list'.got,
                    shown |-> list'.shown, at |-> list'.at]
    BY <1>1, <1>5, <2>1
  <2>3. \A k : Has(list, k)' <=> Has(list, k)
    BY <1>2, <1>5, <2>2 DEF Has, FirstsOf
  <2>4. Gathered(list)'
    BY <1>2, <1>5, <2>2, <2>3 DEF Gathered
  <2> QED BY <1>2, <1>5, <2>2, <2>4, PeopleTold, ListMoves DEF UnderWay
<1> QED BY <1>2, <1>3, <1>4, <1>5

LEMMA SessionsAreRead ==
  ASSUME ListInv, NEW p \in People, Listed!SpeakersSessions(p)
  PROVE  ListInv'
<1> DEFINE at == IF p \in Listed!Concerned(list.got)
                 THEN {s \in Listed!SpeaksAt(list.got, p) : Listed!Session(s) \in rows} ELSE {}
           shown == {x \in list.shown : x[1] = p}
<1>1. /\ list.pc = "sessions" /\ UNCHANGED <<rows, ever, stood>> /\ Gathered(list) /\ list.kind = "speaker"
      /\ stood \subseteq rows /\ rows \subseteq ever /\ LinkedStand(stood)
      /\ \A x \in list.shown : x[1] \in Listed!Concerned(ever) /\ Listed!Claimed(x)
  BY DEF Listed!SpeakersSessions, Listed!Goes, ListInv, UnderWay
<1>2. /\ list'.pc = "end" /\ list'.kind = "speaker" /\ list'.shown = shown /\ list'.at = at
      /\ list' = [pc |-> list'.pc, kind |-> list'.kind, unread |-> list'.unread, got |-> list'.got,
                  shown |-> list'.shown, at |-> list'.at]
  <2>1. list = [pc |-> list.pc, kind |-> list.kind, unread |-> list.unread, got |-> list.got,
                shown |-> list.shown, at |-> list.at]
    BY DEF ListInv
  <2>2. list' = [list EXCEPT !.pc = "end", !.shown = shown, !.at = at]
    BY DEF Listed!SpeakersSessions, Listed!Goes
  <2> HIDE DEF shown, at
  <2> QED BY <1>1, <2>1, <2>2
<1>3. at \subseteq Listed!SpeaksAt(ever, p)
  BY <1>1, MoreRows DEF Gathered
<1>4. Listed!SpeaksAt(stood, p) \subseteq at
  <2> SUFFICES ASSUME NEW s \in Listed!SpeaksAt(stood, p) PROVE s \in at
    OBVIOUS
  <2>1. s \in Listed!SpeaksAt(list.got, p)
    BY <1>1 DEF Gathered
  <2>2. Listed!Session(s) \in rows
    BY <1>1 DEF LinkedStand
  <2>3. p \in Listed!Concerned(list.got)
    BY <2>1 DEF Listed!Concerned
  <2> QED BY <2>1, <2>2, <2>3
<1> HIDE DEF at
<1>5. Listed!ListsTell'
  <2>1. \A x : Listed!Claimed(x)' <=> Listed!Claimed(x)
    BY <1>1 DEF Listed!Claimed
  <2> QED BY <1>1, <1>2, <1>3, <1>4, <2>1 DEF Listed!ListsTell
<1> QED BY <1>1, <1>2, <1>5 DEF ListInv, UnderWay

LEMMA ListNext == ListInv /\ [Listed!Next]_Listed!listVars => ListInv'
<1> SUFFICES ASSUME ListInv, [Listed!Next]_Listed!listVars PROVE ListInv'
  OBVIOUS
<1>1. CASE UNCHANGED Listed!listVars
  BY <1>1 DEF Listed!listVars, ListInv, Listed!ListsTell, Gathered, Has, FirstsOf, Listed!Claimed
<1> QED BY <1>1, ChangeGathers, ListBegins, RowsAreRead, LinksAreRead, ListShaped, SessionsAreRead
        DEF Listed!Next

(* Calls side by side with any credentials, each of its own event and       *)
(* session, while keys are made, revoked and lose their owner: what is      *)
(* served was granted, what is refused changed nothing, and what is of      *)
(* another event stays hidden (authenticateExternalRequest,                 *)
(* withApiRequest).                                                         *)
THEOREM CallsAreGranted ==
  Called!Spec =>
    [](Called!GoodsAreGranted /\ Called!RefusalsChangeNothing /\ Called!OtherEventsAreHidden)
  BY CallInit, CallNext, CallProps, PTL DEF Called!Spec

(* However rows come, go and change between the reads of a list: whoever    *)
(* had one all the while is in it, and what it says of them was so          *)
(* (speakerRows, listSessions).                                             *)
THEOREM ListsAlwaysTell == Listed!Spec => []Listed!ListsTell
<1>1. ListInv => Listed!ListsTell
  BY DEF ListInv
<1> QED BY <1>1, ListInit, ListNext, PTL DEF Listed!Spec

(* Whatever of its credential is revoked, expires or is taken from its      *)
(* owner meanwhile: a call from outside is served what the credential was   *)
(* good for at some moment and nothing of another event, and one that is    *)
(* refused has changed nothing; however rows change between the reads of a  *)
(* list, whoever had one all the while is in it and what it says was so     *)
(* (authenticateExternalRequest, withApiRequest, speakerRows,               *)
(* listSessions).                                                           *)
THEOREM AnswersAlwaysHold == Outside => []AnswersHold
<1> DEFINE Stays == (setting = "calls" => ApiInv) /\ (setting = "lists" => ListInv)
<1>1. Begins => Stays
  BY CallInit, ListInit DEF Begins, CalledFirst, Settle
<1>2. Stays /\ [Steps]_<<reviewing, outside>> => Stays'
  <2> SUFFICES ASSUME Stays, [Steps]_<<reviewing, outside>> PROVE Stays'
    OBVIOUS
  <2>1. setting' = setting
    BY DEF Steps, Work, reviewing
  <2>2. setting = "calls" => [Called!Next]_Called!apiVars
    BY DEF Steps, Work, Calling, reviewing, outside, calling, Called!apiVars
  <2>3. setting = "lists" => [Listed!Next]_Listed!listVars
    BY DEF Steps, Work, Lists, reviewing, outside, listing, Listed!listVars
  <2> QED BY <2>1, <2>2, <2>3, CallNext, ListNext
<1>3. Stays => AnswersHold
  BY CallProps DEF ListInv, AnswersHold
<1> HIDE DEF Stays
<1> QED BY <1>1, <1>2, <1>3, PTL DEF Outside

----------------------------------------------------------------------------
(* Nudges for reviewers who owe scorecards *)

LEMMA SameCardinality == ASSUME NEW S PROVE Nudges!Cardinality(S) = Cardinality(S)
  BY DEF Nudges!Cardinality, Cardinality, Nudges!IsFiniteSet, IsFiniteSet

(* Pairs are of a proposal and a reviewer, and no scorecard is None.        *)
PairsOK ==
  /\ Owing \subseteq Nominated \X Panel /\ IsFiniteSet(Nominated)
  /\ \A S, T : None \notin [S -> T]

(* A pending assignment has a card while it is being filed, or where that   *)
(* stopped, and a done one has one; whom a nudge is going to mail owed it,  *)
(* or lost an assignment.                                                   *)
NudgeFields(q) ==
  q = [pc |-> q.pc, rows |-> q.rows, todo |-> q.todo, mailed |-> q.mailed,
       owed |-> q.owed, lost |-> q.lost, calm |-> q.calm]
Behindhand(q) ==
  /\ q.pc \in {"idle", "scores", "mail"}
  /\ q.pc = "scores" =>
       /\ q.mailed = {} /\ q.rows \subseteq Owing
       /\ \A x \in q.rows : filed[x] = None => x[2] \in q.owed \cup q.lost
       /\ q.calm => /\ q.rows = {x \in Owing : Nudges!Required(x[1], x[2])}
                    /\ q.owed = {r \in Panel : Nudges!Open(r) # {}}
  /\ q.pc = "mail" =>
       /\ q.mailed \cup q.todo \subseteq q.owed \cup q.lost
       /\ q.calm => q.mailed \cup q.todo = q.owed

NudgeInv ==
  /\ status \in [Owing -> {"none", "pending", "done", "recused"}] /\ DOMAIN filed = Owing
  /\ filed = [x \in Owing |-> filed[x]]
  /\ half \subseteq Owing
  /\ \A x \in Owing : /\ status[x] = "none" => filed[x] = None
                      /\ status[x] = "pending" => (filed[x] # None <=> x \in half)
                      /\ status[x] = "done" \/ x \in half => filed[x] # None
  /\ NudgeFields(nudge) /\ Behindhand(nudge)

LEMMA NudgeInit == Nudges!Init => NudgeInv
  BY DEF Nudges!Init, Nudges!NoNudge, NudgeInv, NudgeFields, Behindhand

LEMMA NobodyOwesChanged ==
  ASSUME UNCHANGED <<status, filed, half>>
  PROVE  /\ \A s, r : Nudges!Required(s, r)' <=> Nudges!Required(s, r)
         /\ \A r : Nudges!Open(r)' = Nudges!Open(r)
         /\ \A s, r : Nudges!Filed(s, r)' <=> Nudges!Filed(s, r)
  BY DEF Nudges!Required, Nudges!Assigned, Nudges!Recused, Nudges!Open, Nudges!Filed

(* A step of an assignment                                                  *)
LEMMA AssignmentChanges ==
  ASSUME NudgeInv, NEW x \in Owing, NEW st \in {"none", "pending", "done", "recused"}, NEW values,
         Nudges!Change(x, st, values),
         half' \subseteq Owing, \A y \in Owing : y # x => (y \in half' <=> y \in half),
         st = "none" => values = None, st = "pending" => (values # None <=> x \in half'),
         st = "done" \/ x \in half' => values # None,
         st = "pending" /\ values = None => status[x] = "none",
         values = None => st \in {"none", "pending"} \/ filed[x] = None
  PROVE  NudgeInv'
<1>1. /\ status' = [status EXCEPT ![x] = st] /\ filed' = [filed EXCEPT ![x] = values]
  BY DEF Nudges!Change
<1>2. /\ status' \in [Owing -> {"none", "pending", "done", "recused"}] /\ DOMAIN filed' = Owing
      /\ filed' = [y \in Owing |-> filed'[y]]
      /\ status'[x] = st /\ filed'[x] = values
      /\ \A y \in Owing : y # x => status'[y] = status[y] /\ filed'[y] = filed[y]
  BY <1>1 DEF NudgeInv
<1>3. \A y \in Owing : /\ status'[y] = "none" => filed'[y] = None
                       /\ status'[y] = "pending" => (filed'[y] # None <=> y \in half')
                       /\ status'[y] = "done" \/ y \in half' => filed'[y] # None
  BY <1>2 DEF NudgeInv
<1>4. NudgeFields(nudge) /\ Behindhand(nudge)
  BY DEF NudgeInv
<1>5. CASE nudge.pc = "idle"
  <2>1. nudge' = nudge
    BY <1>5 DEF Nudges!Change
  <2> QED BY <1>2, <1>3, <1>4, <1>5, <2>1 DEF NudgeInv, NudgeFields, Behindhand
<1>6. CASE nudge.pc # "idle"
  <2> DEFINE owed == IF st = "pending" /\ status[x] = "none" THEN nudge.owed \cup {x[2]} ELSE nudge.owed
             lost == IF st = "none" THEN nudge.lost \cup {x[2]} ELSE nudge.lost
  <2>1. nudge' = [nudge EXCEPT !.calm = FALSE, !.owed = owed, !.lost = lost]
    BY <1>6 DEF Nudges!Change
  <2>2. /\ nudge.owed \subseteq owed /\ nudge.lost \subseteq lost
        /\ st = "pending" /\ status[x] = "none" => x[2] \in owed
        /\ st = "none" => x[2] \in lost
    OBVIOUS
  <2> HIDE DEF owed, lost
  <2>3. nudge' = [pc |-> nudge.pc, rows |-> nudge.rows, todo |-> nudge.todo, mailed |-> nudge.mailed,
                  owed |-> owed, lost |-> lost, calm |-> FALSE]
    BY <1>4, <2>1 DEF NudgeFields
  <2>4. NudgeFields(nudge')
    BY <2>3 DEF NudgeFields
  <2>5. nudge.pc = "scores" => \A y \in nudge.rows : filed'[y] = None => y[2] \in owed \cup lost
    <3> SUFFICES ASSUME nudge.pc = "scores", NEW y \in nudge.rows, filed'[y] = None
                 PROVE  y[2] \in owed \cup lost
      OBVIOUS
    <3>1. y \in Owing /\ (filed[y] = None => y[2] \in nudge.owed \cup nudge.lost)
      BY <1>4 DEF Behindhand
    <3> QED BY <1>2, <2>2, <3>1
  <2>6. Behindhand(nudge)'
    BY <1>4, <1>6, <2>2, <2>3, <2>5 DEF Behindhand
  <2> QED BY <1>2, <1>3, <2>4, <2>6 DEF NudgeInv
<1> QED BY <1>5, <1>6

LEMMA NudgeMoves ==
  ASSUME NudgeInv, UNCHANGED <<status, filed, half>>, NudgeFields(nudge'), Behindhand(nudge)'
  PROVE  NudgeInv'
  BY DEF NudgeInv

(* What is open is what is required and not on file                         *)
LEMMA OpenIsUnfiled ==
  ASSUME NudgeInv, NEW x \in Owing, x = <<x[1], x[2]>>
  PROVE  x \in Nudges!Open(x[2]) <=> Nudges!Required(x[1], x[2]) /\ ~Nudges!Filed(x[1], x[2])
  BY DEF NudgeInv, Nudges!Open, Nudges!Required, Nudges!Assigned, Nudges!Recused, Nudges!Filed

LEMMA NudgeBegins ==
  ASSUME PairsOK, NudgeInv, Nudges!RemindReviewers
  PROVE  NudgeInv'
<1> DEFINE due == {x \in Owing : Nudges!Required(x[1], x[2])}
           owed == {r \in Panel : Nudges!Open(r) # {}}
<1>1. /\ nudge' = [pc |-> "scores", rows |-> due, todo |-> {}, mailed |-> {}, owed |-> owed, lost |-> {},
                   calm |-> TRUE]
      /\ UNCHANGED <<status, filed, half>>
  <2>1. nudge' = [Nudges!NoNudge EXCEPT !.pc = "scores", !.rows = due, !.owed = owed]
    BY DEF Nudges!RemindReviewers
  <2> HIDE DEF due, owed
  <2> QED BY <2>1 DEF Nudges!NoNudge, Nudges!RemindReviewers
<1>2. \A x \in due : filed[x] = None => x[2] \in owed
  <2> SUFFICES ASSUME NEW x \in due, filed[x] = None PROVE x[2] \in owed
    OBVIOUS
  <2>1. x \in Owing /\ x = <<x[1], x[2]>> /\ x[2] \in Panel
    BY DEF PairsOK
  <2>2. x \in Nudges!Open(x[2])
    BY <2>1, OpenIsUnfiled DEF Nudges!Filed
  <2> QED BY <2>1, <2>2
<1>3. due' = due /\ owed' = owed
  BY <1>1, NobodyOwesChanged
<1>4. Behindhand(nudge)'
  <2>1. due \subseteq Owing
    OBVIOUS
  <2> HIDE DEF due, owed
  <2> SUFFICES /\ nudge'.rows = {x \in Owing : Nudges!Required(x[1], x[2])'}
               /\ nudge'.owed = {r \in Panel : Nudges!Open(r)' # {}}
    BY <1>1, <1>2, <2>1 DEF Behindhand
  <2> QED BY <1>1, <1>3 DEF due, owed
<1> HIDE DEF due, owed
<1>5. NudgeFields(nudge')
  BY <1>1 DEF NudgeFields
<1> QED BY <1>1, <1>4, <1>5, NudgeMoves

LEMMA NudgeReads ==
  ASSUME PairsOK, NudgeInv, Nudges!ListScores
  PROVE  NudgeInv'
<1> DEFINE todo == Nudges!PendingReviewers(nudge.rows)
<1>1. /\ nudge.pc = "scores" /\ UNCHANGED <<status, filed, half>>
      /\ nudge' = [pc |-> "mail", rows |-> {}, todo |-> todo, mailed |-> nudge.mailed,
                   owed |-> nudge.owed, lost |-> nudge.lost, calm |-> nudge.calm]
  <2>1. nudge' = [nudge EXCEPT !.pc = "mail", !.rows = {}, !.todo = todo]
    BY DEF Nudges!ListScores
  <2> HIDE DEF todo
  <2> QED BY <2>1 DEF NudgeInv, NudgeFields, Nudges!ListScores
<1>2. Behindhand(nudge)
  BY DEF NudgeInv
<1>3. todo \subseteq nudge.owed \cup nudge.lost
  <2> SUFFICES ASSUME NEW r \in todo PROVE r \in nudge.owed \cup nudge.lost
    OBVIOUS
  <2>1. PICK s \in Nominated : <<s, r>> \in nudge.rows /\ ~Nudges!Filed(s, r)
    BY DEF Nudges!PendingReviewers
  <2>2. filed[<<s, r>>] = None
    BY <2>1 DEF Nudges!Filed
  <2> QED BY <1>1, <1>2, <2>1, <2>2 DEF Behindhand
<1>4. ASSUME nudge.calm PROVE todo = nudge.owed
  <2>1. /\ nudge.rows = {x \in Owing : Nudges!Required(x[1], x[2])}
        /\ nudge.owed = {r \in Panel : Nudges!Open(r) # {}}
    BY <1>1, <1>2, <1>4 DEF Behindhand
  <2>2. ASSUME NEW r \in todo PROVE r \in nudge.owed
    <3>1. PICK s \in Nominated : <<s, r>> \in nudge.rows /\ ~Nudges!Filed(s, r)
      BY DEF Nudges!PendingReviewers
    <3>2. <<s, r>> \in Owing /\ Nudges!Required(s, r)
      BY <2>1, <3>1
    <3>3. <<s, r>> \in Nudges!Open(r)
      BY <3>1, <3>2, OpenIsUnfiled
    <3> QED BY <2>1, <3>2, <3>3 DEF Nudges!PendingReviewers
  <2>3. ASSUME NEW r \in nudge.owed PROVE r \in todo
    <3>1. PICK x \in Owing : x[2] = r /\ x \in Nudges!Open(r)
      BY <2>1 DEF Nudges!Open
    <3>2. x = <<x[1], x[2]>> /\ x[1] \in Nominated /\ x[2] \in Panel
      BY DEF PairsOK
    <3>3. Nudges!Required(x[1], x[2]) /\ ~Nudges!Filed(x[1], x[2])
      BY <3>1, <3>2, OpenIsUnfiled
    <3>4. <<x[1], r>> \in nudge.rows
      BY <2>1, <3>1, <3>2, <3>3
    <3> QED BY <3>1, <3>2, <3>3, <3>4 DEF Nudges!PendingReviewers
  <2> QED BY <2>2, <2>3
<1> HIDE DEF todo
<1>5. NudgeFields(nudge') /\ Behindhand(nudge)'
  BY <1>1, <1>2, <1>3, <1>4 DEF NudgeFields, Behindhand
<1> QED BY <1>1, <1>5, NudgeMoves

LEMMA NudgeMails ==
  ASSUME NudgeInv, NEW r \in Panel, Nudges!Deliver(r)
  PROVE  NudgeInv'
<1>1. /\ nudge.pc = "mail" /\ r \in nudge.todo /\ UNCHANGED <<status, filed, half>>
      /\ nudge' = [pc |-> "mail", rows |-> nudge.rows, todo |-> nudge.todo \ {r},
                   mailed |-> nudge.mailed \cup {r}, owed |-> nudge.owed, lost |-> nudge.lost,
                   calm |-> nudge.calm]
  <2>1. nudge' = [nudge EXCEPT !.todo = @ \ {r}, !.mailed = @ \cup {r}]
    BY DEF Nudges!Deliver
  <2> QED BY <2>1 DEF NudgeInv, NudgeFields, Nudges!Deliver
<1>2. NudgeFields(nudge') /\ Behindhand(nudge)'
  BY <1>1 DEF NudgeFields, Behindhand, NudgeInv
<1> QED BY <1>1, <1>2, NudgeMoves

LEMMA NudgeNext ==
  ASSUME PairsOK, NudgeInv, [Nudges!Next]_Nudges!resultVars
  PROVE  NudgeInv'
<1>1. ASSUME UNCHANGED <<status, filed, half, nudge>> PROVE NudgeInv'
  BY <1>1, NobodyOwesChanged, NudgeMoves DEF NudgeInv, Behindhand
<1>2. CASE Nudges!Finish
  BY <1>2, NudgeMoves DEF Nudges!Finish, Nudges!NoNudge, NudgeFields, Behindhand
<1>3. ASSUME NEW x \in Owing,
             \/ Nudges!Assign(x) \/ Nudges!Unassign(x) \/ Nudges!RecuseFromSubmission(x)
             \/ (\E values \in Nudges!Answers : Nudges!SaveScore(x, values)) \/ Nudges!MarkDone(x)
      PROVE  NudgeInv'
  <2>1. ASSUME NEW values \in Nudges!Answers PROVE values # None
    <3>1. \E T : values \in [DOMAIN criteria -> T]
      BY DEF Nudges!Answers
    <3> QED BY <3>1 DEF PairsOK
  <2>2. /\ \A v \in Nudges!Answers : v # None
        /\ status[x] \in {"none", "pending", "done", "recused"} /\ half \subseteq Owing
        /\ status[x] = "none" => filed[x] = None
        /\ status[x] = "done" \/ x \in half => filed[x] # None
    BY <2>1 DEF NudgeInv
  <2>3. CASE Nudges!Assign(x)
    <3>1. Nudges!Change(x, "pending", None) /\ status[x] = "none" /\ half' = half
      BY <2>3 DEF Nudges!Assign
    <3> QED BY <2>2, <3>1, AssignmentChanges
  <2>4. CASE Nudges!Unassign(x)
    <3>1. Nudges!Change(x, "none", None) /\ half' = half \ {x}
      BY <2>4 DEF Nudges!Unassign
    <3> QED BY <2>2, <3>1, AssignmentChanges
  <2>5. CASE Nudges!RecuseFromSubmission(x)
    <3>1. Nudges!Change(x, "recused", filed[x]) /\ half' = half
      BY <2>5 DEF Nudges!RecuseFromSubmission
    <3> QED BY <2>2, <3>1, AssignmentChanges
  <2>6. ASSUME NEW v \in Nudges!Answers, Nudges!SaveScore(x, v) PROVE NudgeInv'
    <3>1. status[x] # "none" /\ Nudges!Change(x, status[x], v) /\ half' = half \cup {x}
      BY <2>6 DEF Nudges!SaveScore
    <3> QED BY <2>2, <3>1, AssignmentChanges
  <2>7. CASE Nudges!MarkDone(x)
    <3>1. x \in half /\ Nudges!Change(x, "done", filed[x]) /\ half' = half \ {x}
      BY <2>7 DEF Nudges!MarkDone
    <3> QED BY <2>2, <3>1, AssignmentChanges
  <2> QED BY <1>3, <2>3, <2>4, <2>5, <2>6, <2>7
<1>4. CASE \E drafts \in Asking : Nudges!UpdateRound(drafts)
  BY <1>1, <1>4 DEF Nudges!UpdateRound
<1>5. CASE UNCHANGED Nudges!resultVars
  BY <1>1, <1>5 DEF Nudges!resultVars
<1> QED BY <1>2, <1>3, <1>4, <1>5, NudgeBegins, NudgeReads, NudgeMails DEF Nudges!Next

(* What a reviewer is said to owe: what is required less what is done is    *)
(* what is open.                                                            *)
LEMMA OwedIsOpen ==
  ASSUME PairsOK, NudgeInv, NEW r \in Panel
  PROVE  Nudges!ProgressByReviewer(r).pending =
           Cardinality(Nudges!Open(r))
<1> DEFINE required == {s \in Nominated : Nudges!Assigned(s, r) /\ Nudges!Required(s, r)}
           done == {s \in Nominated : Nudges!Assigned(s, r) /\ Nudges!Scored(s, r)}
           open == Nudges!Open(r)
           owes == {s \in Nominated : <<s, r>> \in open}
           pair == [s \in owes |-> <<s, r>>]
<1>1. Nudges!ProgressByReviewer(r).pending = Cardinality(required) - Cardinality(done)
  <2> DEFINE mine == {s \in Nominated : Nudges!Assigned(s, r)}
             recused == Cardinality({s \in mine : Nudges!Recused(s, r)})
  <2>1. required = {s \in mine : Nudges!Required(s, r)} /\ done = {s \in mine : Nudges!Scored(s, r)}
    OBVIOUS
  <2>2. Nudges!ProgressByReviewer(r) =
          [assigned |-> Cardinality(mine), required |-> Cardinality({s \in mine : Nudges!Required(s, r)}),
           done |-> Cardinality({s \in mine : Nudges!Scored(s, r)}), recused |-> recused,
           pending |-> Cardinality({s \in mine : Nudges!Required(s, r)})
                         - Cardinality({s \in mine : Nudges!Scored(s, r)})]
    BY SameCardinality DEF Nudges!ProgressByReviewer
  <2> HIDE DEF required, done, mine, recused
  <2> QED BY <2>1, <2>2
<1>2. done \subseteq required /\ required \ done = owes
  <2>1. done \subseteq required
    BY DEF Nudges!Scored
  <2>2. ASSUME NEW s \in Nominated
        PROVE  s \in required /\ s \notin done <=> <<s, r>> \in open
    <3>1. Nudges!Required(s, r) => <<s, r>> \in Owing /\ Nudges!Assigned(s, r)
      BY DEF Nudges!Required, Nudges!Assigned
    <3>2. <<s, r>>[1] = s /\ <<s, r>>[2] = r
      OBVIOUS
    <3>3. <<s, r>> \in Owing =>
            (<<s, r>> \in open <=> Nudges!Required(s, r) /\ ~Nudges!Filed(s, r))
      BY <3>2, OpenIsUnfiled
    <3>4. open \subseteq Owing
      BY DEF Nudges!Open
    <3> QED BY <3>1, <3>2, <3>3, <3>4 DEF Nudges!Scored
  <2> QED BY <2>1, <2>2
<1>3. Cardinality(required) - Cardinality(done) = Cardinality(owes) /\ IsFiniteSet(owes)
  <2>1. IsFiniteSet(required) /\ IsFiniteSet(owes)
    BY FS_Subset DEF PairsOK
  <2>2. IsFiniteSet(done)
    BY <1>2, <2>1, FS_Subset
  <2>3. required \cap done = done
    BY <1>2
  <2>4. Cardinality(required \ done) = Cardinality(required) - Cardinality(required \cap done)
    BY <2>1, FS_Difference
  <2> HIDE DEF required, done, owes
  <2> QED BY <1>2, <2>1, <2>3, <2>4
<1>4. pair \in Bijection(owes, open)
  <2>1. \A x \in open : x = <<x[1], r>> /\ x[1] \in owes
    <3> SUFFICES ASSUME NEW x \in open PROVE x = <<x[1], r>> /\ x[1] \in owes
      OBVIOUS
    <3>1. x \in Nominated \X Panel /\ x[2] = r
      BY DEF PairsOK, Nudges!Open
    <3> QED BY <3>1
  <2>2. \A s \in owes : <<s, r>> \in open
    OBVIOUS
  <2> HIDE DEF owes, open
  <2>3. pair \in [owes -> open]
    BY <2>2
  <2>4. \A s, t \in owes : pair[s] = pair[t] => s = t
    OBVIOUS
  <2>5. \A x \in open : \E s \in owes : pair[s] = x
    BY <2>1
  <2> HIDE DEF pair
  <2> QED BY <2>3, <2>4, <2>5 DEF Bijection, Injection, Surjection, IsInjective
<1>5. Cardinality(open) = Cardinality(owes)
  <2>1. ExistsBijection(owes, open)
    BY <1>4 DEF ExistsBijection
  <2> HIDE DEF owes, open
  <2> QED BY <1>3, <2>1, FS_Bijection
<1> HIDE DEF required, done, owes, open
<1> QED BY <1>1, <1>3, <1>5 DEF open

LEMMA NudgeProps == PairsOK /\ NudgeInv => Nudges!NudgesOwed
<1> SUFFICES ASSUME PairsOK, NudgeInv PROVE Nudges!NudgesOwed
  OBVIOUS
<1>1. nudge.pc = "mail" =>
        /\ nudge.mailed \subseteq nudge.owed \cup nudge.lost
        /\ nudge.calm => nudge.mailed \cup nudge.todo = nudge.owed
  BY DEF NudgeInv, Behindhand
<1>2. \A r \in Panel :
        Nudges!ProgressByReviewer(r).pending = Cardinality(Nudges!Open(r))
  BY OwedIsOpen
<1> QED BY <1>1, <1>2, SameCardinality DEF Nudges!NudgesOwed

(* Whatever is assigned, unassigned, scored or recused between its two      *)
(* reads: a nudge mails nobody who owed nothing all the while, unless an    *)
(* assignment of theirs was removed meanwhile, and everybody who owes when  *)
(* nothing changes; and what a reviewer is said to owe is what is pending   *)
(* but for what is being filed, or was in a filing that stopped             *)
(* (progressByReviewer, submitScorecard, sendRoundReminders).               *)
THEOREM NudgesAreOwed ==
  ASSUME PairsOK
  PROVE  Nudges!Spec => []Nudges!NudgesOwed
<1>1. NudgeInv /\ [Nudges!Next]_Nudges!resultVars => NudgeInv'
  BY NudgeNext
<1>2. NudgeInv => Nudges!NudgesOwed
  BY NudgeProps
<1> QED BY <1>1, <1>2, NudgeInit, PTL DEF Nudges!Spec

(* The same of the nudges among the parts that are checked together.        *)
THEOREM NudgesAlwaysOwed ==
  ASSUME PairsOK
  PROVE  Outside => []NudgesOwed
<1> DEFINE Stays == setting = "nudges" => NudgeInv
<1>1. Begins => Stays
  BY NudgeInit DEF Begins, Settle
<1>2. Stays /\ [Steps]_<<reviewing, outside>> => Stays'
  <2> SUFFICES ASSUME Stays, [Steps]_<<reviewing, outside>>, setting' = "nudges" PROVE NudgeInv'
    OBVIOUS
  <2>1. setting = "nudges"
    BY DEF Steps, Work, reviewing
  <2>2. [Nudges!Next]_Nudges!resultVars
    BY <2>1 DEF Steps, Work, reviewing, results, Nudges!resultVars
  <2> QED BY <2>1, <2>2, NudgeNext
<1>3. Stays => NudgesOwed
  BY NudgeProps DEF NudgesOwed
<1> HIDE DEF Stays
<1> QED BY <1>1, <1>2, <1>3, PTL DEF Outside

(* As long as requests run one at a time, failing anywhere, every scorecard *)
(* on file answers the questions its round asks, whatever a round adds up   *)
(* to and whatever is asked from outside beside it (updateRound).           *)
THEOREM ReadsBackAlways ==
  ASSUME Serial
  PROVE  Outside => []ReadsBackSerially
<1> DEFINE Stays == setting = "serial" => IInv /\ CardInv
<1>1. Begins => Stays
  BY InitHolds, CardInit, ConstantsOK DEF Begins, Settle, NoRounds, NoReviews
<1>2. Stays /\ [Steps]_<<reviewing, outside>> => Stays'
  <2> SUFFICES ASSUME Stays, [Steps]_<<reviewing, outside>>, setting' = "serial" PROVE IInv' /\ CardInv'
    OBVIOUS
  <2>1. setting = "serial"
    BY DEF Steps, Work, reviewing
  <2>2. [Next]_vars
    BY <2>1 DEF Steps, Work, reviewing
  <2> QED BY <2>1, <2>2, StepKeeps, CardKept, ConstantsOK
<1>3. Stays => ReadsBackSerially
  BY DEF ReadsBackSerially, CardInv, SerialInv
<1> HIDE DEF Stays
<1> QED BY <1>1, <1>2, <1>3, PTL DEF Outside

----------------------------------------------------------------------------
(* A client that pages through a collection *)

LEMMA SameNumber == ASSUME NEW S PROVE Paged!Cardinality(S) = Cardinality(S)
  BY DEF Paged!Cardinality, Cardinality, Paged!IsFiniteSet, IsFiniteSet

(* How a collection with rows rw, sorted by o, is ordered                   *)
Stamps(rw, o, i) == IF o.sort = "createdAt" THEN rw[i].created ELSE rw[i].updated
Precedes(rw, o, i, j) ==
  \/ Stamps(rw, o, i) = Stamps(rw, o, j) /\ i < j
  \/ o.direction = "desc" /\ Stamps(rw, o, j) < Stamps(rw, o, i)
  \/ o.direction # "desc" /\ Stamps(rw, o, i) < Stamps(rw, o, j)
OnFile(rw) == {i \in Items : rw[i].created > 0}
Ahead(rw, o, i) == {j \in OnFile(rw) : Precedes(rw, o, j, i)}
Place(rw, o, i) == Cardinality(Ahead(rw, o, i)) + 1
Stamped == [Items -> [created : Nat, updated : Nat]]

LEMMA PagedIs ==
  /\ Paged!There = OnFile(stamps)
  /\ \A i : Paged!Position(i) = Place(stamps, order, i)
<1>1. Paged!There = OnFile(stamps)
  BY DEF Paged!There, OnFile
<1>2. \A i, j : Paged!Before(i, j) <=> Precedes(stamps, order, i, j)
  BY DEF Paged!Before, Paged!Stamp, Paged!ByCreation, Paged!LastFirst, Precedes, Stamps
<1> QED BY <1>1, <1>2, SameNumber DEF Paged!Position, Place, Ahead

(* Rows have a place each, within the number of them.                       *)
LEMMA PlacesDiffer ==
  ASSUME NEW rw \in Stamped, NEW o
  PROVE  /\ IsFiniteSet(OnFile(rw)) /\ Cardinality(OnFile(rw)) \in Nat
         /\ \A i \in Items : Place(rw, o, i) \in Nat /\ Place(rw, o, i) >= 1
         /\ \A i \in OnFile(rw) : Place(rw, o, i) <= Cardinality(OnFile(rw))
         /\ \A i, j \in OnFile(rw) : Place(rw, o, i) = Place(rw, o, j) => i = j
<1>1. IsFiniteSet(OnFile(rw)) /\ Cardinality(OnFile(rw)) \in Nat
  BY PagesOK, FS_Subset, FS_CardinalityType DEF OnFile
<1>2. ASSUME NEW i \in Items PROVE IsFiniteSet(Ahead(rw, o, i)) /\ Cardinality(Ahead(rw, o, i)) \in Nat
  BY <1>1, FS_Subset, FS_CardinalityType DEF Ahead
<1>3. \A i \in Items : Stamps(rw, o, i) \in Nat /\ i \in Nat
  BY PagesOK DEF Stamps, Stamped
<1>4. ASSUME NEW i \in OnFile(rw) PROVE Place(rw, o, i) <= Cardinality(OnFile(rw))
  <2>1. i \in Items
    BY DEF OnFile
  <2>2. i \notin Ahead(rw, o, i) /\ Ahead(rw, o, i) \subseteq OnFile(rw)
    BY <1>3, <2>1 DEF Ahead, Precedes
  <2>3. Ahead(rw, o, i) \in SUBSET (OnFile(rw) \ {i})
    BY <2>2
  <2>4. /\ IsFiniteSet(OnFile(rw) \ {i})
        /\ Cardinality(OnFile(rw) \ {i}) = Cardinality(OnFile(rw)) - 1
    BY <1>1, FS_RemoveElement
  <2>5. Cardinality(Ahead(rw, o, i)) <= Cardinality(OnFile(rw)) - 1
    BY <2>3, <2>4, FS_Subset
  <2> QED BY <1>1, <1>2, <2>1, <2>5 DEF Place
<1>5. ASSUME NEW i \in OnFile(rw), NEW j \in OnFile(rw), Precedes(rw, o, i, j)
      PROVE  Place(rw, o, i) < Place(rw, o, j)
  <2>1. i \in Items /\ j \in Items
    BY DEF OnFile
  <2>2. i \notin Ahead(rw, o, i) /\ i \in Ahead(rw, o, j)
    BY <1>3, <1>5, <2>1 DEF Ahead, Precedes
  <2>3. Ahead(rw, o, i) \subseteq Ahead(rw, o, j)
    <3> SUFFICES ASSUME NEW k \in OnFile(rw), Precedes(rw, o, k, i) PROVE Precedes(rw, o, k, j)
      BY DEF Ahead
    <3>1. k \in Items
      BY DEF OnFile
    <3>2. /\ Stamps(rw, o, i) \in Nat /\ Stamps(rw, o, j) \in Nat /\ Stamps(rw, o, k) \in Nat
          /\ i \in Nat /\ j \in Nat /\ k \in Nat
      BY <1>3, <2>1, <3>1
    <3> QED BY <1>5, <3>2 DEF Precedes
  <2>4. Ahead(rw, o, i) # Ahead(rw, o, j)
    BY <2>2
  <2>5. Cardinality(Ahead(rw, o, i)) < Cardinality(Ahead(rw, o, j))
    BY <1>2, <2>1, <2>3, <2>4, FS_Subset
  <2> QED BY <1>2, <2>1, <2>5 DEF Place
<1>6. ASSUME NEW i \in OnFile(rw), NEW j \in OnFile(rw), i # j
      PROVE  Precedes(rw, o, i, j) \/ Precedes(rw, o, j, i)
  <2>1. i \in Items /\ j \in Items
    BY DEF OnFile
  <2> QED BY <1>3, <1>6, <2>1 DEF Precedes
<1>7. \A i \in Items : Place(rw, o, i) \in Nat /\ Place(rw, o, i) >= 1
  BY <1>2 DEF Place
<1>8. ASSUME NEW i \in OnFile(rw), NEW j \in OnFile(rw), Place(rw, o, i) = Place(rw, o, j) PROVE i = j
  <2>1. Place(rw, o, i) \in Nat
    BY <1>7 DEF OnFile
  <2>2. ~(Place(rw, o, i) < Place(rw, o, j)) /\ ~(Place(rw, o, j) < Place(rw, o, i))
    BY <1>8, <2>1
  <2> QED BY <1>5, <1>6, <2>2
<1> QED BY <1>1, <1>4, <1>7, <1>8

(* So the list has every row at its place.                                  *)
LEMMA ListedAtPlace ==
  ASSUME stamps \in Stamped
  PROVE  /\ Len(Paged!SortCollection) = Cardinality(OnFile(stamps)) /\ Len(Paged!SortCollection) \in Nat
         /\ \A i \in OnFile(stamps) : Paged!SortCollection[Place(stamps, order, i)] = i
<1>1. PICK n : n = Cardinality(OnFile(stamps))
  OBVIOUS
<1>2. PICK sorted : sorted = Paged!SortCollection
  OBVIOUS
<1>3. n \in Nat
  BY <1>1, PlacesDiffer
<1>4. sorted = [k \in 1..n |-> CHOOSE i \in OnFile(stamps) : Place(stamps, order, i) = k]
  BY <1>1, <1>2, PagedIs, SameNumber DEF Paged!SortCollection
<1>5. Len(sorted) = n
  BY <1>3, <1>4
<1>6. ASSUME NEW i \in OnFile(stamps) PROVE sorted[Place(stamps, order, i)] = i
  <2>1. PICK k : k = Place(stamps, order, i)
    OBVIOUS
  <2>2. k \in 1..n
    BY <1>1, <1>3, <2>1, PlacesDiffer DEF OnFile
  <2>3. sorted[k] = CHOOSE j \in OnFile(stamps) : Place(stamps, order, j) = k
    BY <1>4, <2>2
  <2>4. sorted[k] \in OnFile(stamps) /\ Place(stamps, order, sorted[k]) = k
    BY <2>1, <2>3
  <2>5. sorted[k] = i
    BY <2>1, <2>4, PlacesDiffer
  <2> QED BY <2>1, <2>5
<1> QED BY <1>1, <1>2, <1>3, <1>5, <1>6

LEMMA Together == ASSUME NEW p \in Nat PROVE (p + 1) * PageSize = p * PageSize + PageSize /\ p * PageSize \in Nat
  BY PagesOK

LEMMA SliceHas ==
  ASSUME stamps \in Stamped, page \in Nat, NEW i \in OnFile(stamps),
         ~(Place(stamps, order, i) <= page * PageSize),
         Place(stamps, order, i) <= (page + 1) * PageSize
  PROVE  i \in Paged!Range(Paged!Slice(Paged!SortCollection, page + 1))
<1>1. PICK sorted : sorted = Paged!SortCollection
  OBVIOUS
<1>2. PICK lo : lo = page * PageSize
  OBVIOUS
<1>3. PICK k : k = Place(stamps, order, i)
  OBVIOUS
<1>4. PICK hi : hi = Paged!Min2(lo + PageSize, Len(sorted))
  OBVIOUS
<1>5. lo \in Nat /\ PageSize \in Nat /\ k \in Nat /\ lo + 1 <= k /\ k <= lo + PageSize /\ k <= Len(sorted) /\ Len(sorted) \in Nat
  <2>1. lo \in Nat /\ PageSize \in Nat /\ (page + 1) * PageSize = lo + PageSize
    BY <1>2, PagesOK, Together
  <2>2. k \in Nat /\ k <= Cardinality(OnFile(stamps))
    BY <1>3, PlacesDiffer DEF OnFile
  <2>3. Len(sorted) = Cardinality(OnFile(stamps)) /\ Len(sorted) \in Nat
    BY <1>1, ListedAtPlace
  <2>4. ~(k <= lo) /\ k <= lo + PageSize
    BY <1>2, <1>3, <2>1
  <2> QED BY <2>1, <2>2, <2>3, <2>4
<1>6. hi \in Nat /\ k <= hi /\ hi <= Len(sorted)
  BY <1>4, <1>5 DEF Paged!Min2
<1>7. sorted[k] = i
  BY <1>1, <1>3, ListedAtPlace
<1>8. PICK given : given = SubSeq(sorted, lo + 1, hi)
  OBVIOUS
<1>9. Paged!Slice(sorted, page + 1) = given
  <2>1. PICK n : n = page + 1
    OBVIOUS
  <2>2. (n - 1) * PageSize = lo /\ n * PageSize = lo + PageSize
    <3>1. n - 1 = page
      BY <2>1
    <3> QED BY <1>2, <2>1, <3>1, Together
  <2>3. Paged!Slice(sorted, n) = SubSeq(sorted, (n - 1) * PageSize + 1, Paged!Min2(n * PageSize, Len(sorted)))
    BY DEF Paged!Slice
  <2> QED BY <1>4, <1>8, <2>1, <2>2, <2>3
<1>10. /\ DOMAIN given = 1..(hi - lo)
       /\ \A x \in 1..(hi - lo) : given[x] = sorted[lo + x]
  <2>1. PICK S : S = {sorted[x] : x \in (lo + 1)..hi}
    OBVIOUS
  <2>2. lo + 1 \in Int /\ hi \in Int /\ \A x \in (lo + 1)..hi : sorted[x] \in S
    BY <1>5, <1>6, <2>1
  <2>3. /\ given \in Seq(S)
        /\ Len(given) = IF lo + 1 <= hi THEN hi - (lo + 1) + 1 ELSE 0
        /\ \A x \in 1..(hi - (lo + 1) + 1) : given[x] = sorted[lo + 1 + x - 1]
    BY <1>8, <2>2, SubSeqProperties
  <2>4. lo + 1 <= hi /\ hi - (lo + 1) + 1 = hi - lo /\ \A x \in 1..(hi - lo) : lo + 1 + x - 1 = lo + x
    BY <1>5, <1>6
  <2>5. Len(given) = hi - lo /\ DOMAIN given = 1..Len(given)
    BY <2>3, <2>4
  <2> QED BY <2>3, <2>4, <2>5
<1>11. given[k - lo] = i /\ k - lo \in DOMAIN given
  <2>1. k - lo \in 1..(hi - lo) /\ lo + (k - lo) = k
    BY <1>5, <1>6
  <2> QED BY <1>7, <1>10, <2>1
<1> QED BY <1>1, <1>9, <1>11 DEF Paged!Range

(* What a client has read of a collection that is not sorted by oldest      *)
(* change: of the rows nobody touched, those that stand within its pages.   *)
Untouched == OnFile(stamps) \ stirred
Steady == page > 0 /\ ~removed /\ (Paged!ByCreation \/ Paged!LastFirst)
PageInv ==
  /\ stamps \in Stamped /\ clock \in Nat \ {0} /\ page \in Nat
  /\ \A i \in Items : stamps[i].created <= clock /\ stamps[i].updated <= clock
  /\ Steady => \A i \in Untouched : Place(stamps, order, i) <= page * PageSize => i \in got
  /\ Steady /\ page >= pages => Untouched \subseteq got

LEMMA PageInit == Paged!Init => PageInv
<1> SUFFICES ASSUME Paged!Init PROVE PageInv
  OBVIOUS
<1>1. PICK first \in SUBSET Items, late \in SUBSET Items :
        stamps = [i \in Items |-> IF i \notin first THEN [created |-> 0, updated |-> 0]
                                   ELSE [created |-> 1, updated |-> IF i \in late THEN 2 ELSE 1]]
  BY DEF Paged!Init
<1>2. \A i \in Items : stamps[i] \in [created : 0..2, updated : 0..2]
  BY <1>1
<1>3. stamps \in Stamped
  BY <1>1, <1>2 DEF Stamped
<1> QED BY <1>2, <1>3 DEF Paged!Init, PageInv, Steady

(* A row nobody touches is never passed by a row behind it: its place grows *)
(* with what is added or changed.                                           *)
LEMMA PlaceGrows ==
  ASSUME PageInv, NEW j \in Items, Paged!ByCreation \/ Paged!LastFirst,
         NEW w \in [created : Nat, updated : Nat], w.updated = clock,
         w.created = IF j \in OnFile(stamps) THEN stamps[j].created ELSE clock,
         NEW rw, rw = [stamps EXCEPT ![j] = w]
  PROVE  /\ rw \in Stamped /\ OnFile(rw) = OnFile(stamps) \cup {j}
         /\ \A i \in OnFile(stamps) \ {j} : Place(stamps, order, i) <= Place(rw, order, i)
<1>1. /\ rw \in Stamped /\ rw[j] = w
      /\ \A i \in Items \ {j} : rw[i] = stamps[i]
  BY DEF PageInv, Stamped
<1>2. OnFile(rw) = OnFile(stamps) \cup {j}
  <2>1. \A i \in Items : rw[i].created > 0 <=> i = j \/ stamps[i].created > 0
    BY <1>1 DEF OnFile, PageInv
  <2> QED BY <2>1 DEF OnFile
<1>3. ASSUME NEW i \in OnFile(stamps) \ {j} PROVE Place(stamps, order, i) <= Place(rw, order, i)
  <2>1. i \in Items
    BY DEF OnFile
  <2>2. ASSUME NEW x \in OnFile(stamps), Precedes(stamps, order, x, i) PROVE Precedes(rw, order, x, i)
    <3>1. x \in Items /\ stamps[x] \in [created : Nat, updated : Nat] /\ stamps[i] \in [created : Nat, updated : Nat]
      BY <2>1 DEF OnFile, PageInv, Stamped
    <3>2. CASE x # j
      BY <1>1, <2>1, <2>2, <3>1, <3>2 DEF Precedes, Stamps
    <3>3. CASE x = j
      <4>1. rw[j].created = stamps[j].created /\ rw[j].updated = clock /\ rw[i] = stamps[i]
        BY <1>1, <2>1, <3>3
      <4>2. stamps[j].updated <= clock /\ clock \in Nat /\ j \in Nat /\ i \in Nat
        BY <2>1, PagesOK DEF PageInv
      <4>3. CASE order.sort = "createdAt"
        BY <2>2, <3>3, <4>1, <4>3 DEF Precedes, Stamps
      <4>4. CASE order.sort # "createdAt"
        <5>1. order.direction = "desc"
          BY <4>4 DEF Paged!ByCreation, Paged!LastFirst
        <5>2. PICK a, b : a = stamps[j].updated /\ b = stamps[i].updated
          OBVIOUS
        <5>3. a \in Nat /\ b \in Nat /\ (b < a \/ (a = b /\ j < i))
          BY <2>2, <3>1, <3>3, <4>4, <5>1, <5>2 DEF Precedes, Stamps
        <5>4. b < clock \/ (clock = b /\ j < i)
          BY <4>2, <5>2, <5>3
        <5> QED BY <3>3, <4>1, <4>4, <5>1, <5>2, <5>4 DEF Precedes, Stamps
      <4> QED BY <4>3, <4>4
    <3> QED BY <3>2, <3>3
  <2>3. Ahead(stamps, order, i) \subseteq Ahead(rw, order, i)
    BY <1>2, <2>2 DEF Ahead
  <2>4. IsFiniteSet(Ahead(rw, order, i))
    BY <1>1, PlacesDiffer, FS_Subset DEF Ahead
  <2>5. /\ Cardinality(Ahead(stamps, order, i)) <= Cardinality(Ahead(rw, order, i))
        /\ Cardinality(Ahead(stamps, order, i)) \in Nat /\ Cardinality(Ahead(rw, order, i)) \in Nat
    BY <2>3, <2>4, FS_Subset, FS_CardinalityType
  <2> QED BY <2>5 DEF Place
<1> QED BY <1>1, <1>2, <1>3

LEMMA RoundedUp ==
  ASSUME NEW n \in Nat, NEW p \in Nat, p >= (n + PageSize - 1) \div PageSize
  PROVE  n <= p * PageSize
<1>1. PICK m, d : m = n + PageSize - 1 /\ d = m \div PageSize
  OBVIOUS
<1>2. m \in Nat /\ PageSize \in Nat \ {0} /\ d \in Nat /\ m < d * PageSize + PageSize
  BY <1>1, PagesOK
<1>3. d * PageSize <= p * PageSize
  BY <1>1, <1>2
<1> QED BY <1>1, <1>2, <1>3

LEMMA PageNext == PageInv /\ [Paged!Next]_Paged!pageVars => PageInv'
<1> SUFFICES ASSUME PageInv, [Paged!Next]_Paged!pageVars PROVE PageInv'
  OBVIOUS
<1>0. UNCHANGED order
  BY DEF Paged!pageVars, Paged!Next, Paged!Tick, Paged!NextPage, Paged!Add, Paged!Change, Paged!Delete, Paged!Stir
<1>1. CASE UNCHANGED Paged!pageVars
  BY <1>1 DEF Paged!pageVars, PageInv, Steady, Untouched, Paged!ByCreation, Paged!LastFirst
<1>2. CASE Paged!Tick
  <2>1. UNCHANGED <<stamps, order, page, pages, got, stirred, removed>> /\ clock' = clock + 1
    BY <1>2 DEF Paged!Tick
  <2>2. \A i \in Items : stamps[i].created \in Nat /\ stamps[i].updated \in Nat
    BY DEF PageInv, Stamped
  <2>3. clock' \in Nat /\ \A i \in Items : stamps[i].created <= clock' /\ stamps[i].updated <= clock'
    BY <2>1, <2>2 DEF PageInv
  <2> QED BY <2>1, <2>3 DEF PageInv, Steady, Untouched, Paged!ByCreation, Paged!LastFirst
<1>3. ASSUME NEW j \in Items, Paged!Add(j) \/ Paged!Change(j) PROVE PageInv'
  <2>1. PICK w : w = IF j \in OnFile(stamps) THEN [created |-> stamps[j].created, updated |-> clock]
                     ELSE [created |-> clock, updated |-> clock]
    OBVIOUS
  <2>2. stamps' = [stamps EXCEPT ![j] = w]
    <3>1. stamps[j] = [created |-> stamps[j].created, updated |-> stamps[j].updated]
      BY DEF PageInv, Stamped
    <3>2. CASE Paged!Add(j)
      BY <2>1, <3>2, PagedIs DEF Paged!Add
    <3>3. CASE Paged!Change(j)
      <4>1. j \in OnFile(stamps) /\ stamps' = [stamps EXCEPT ![j].updated = clock]
        BY <3>3, PagedIs DEF Paged!Change
      <4>2. [stamps[j] EXCEPT !.updated = clock] = w
        BY <2>1, <3>1, <4>1
      <4> QED BY <4>1, <4>2
    <3> QED BY <1>3, <3>2, <3>3
  <2>3. /\ UNCHANGED <<clock, order, page, pages, got, removed>>
        /\ stirred' = IF page = 0 THEN {} ELSE stirred \cup {j}
    BY <1>3 DEF Paged!Add, Paged!Change, Paged!Stir
  <2>4. w \in [created : Nat, updated : Nat] /\ w.updated = clock /\ w.created <= clock
    BY <2>1 DEF PageInv, Stamped
  <2>5. /\ stamps' \in Stamped
        /\ \A i \in Items : stamps'[i].created <= clock /\ stamps'[i].updated <= clock
    <3>1. stamps' \in Stamped
      BY <2>2, <2>4 DEF PageInv, Stamped
    <3>2. \A i \in Items : stamps'[i] = IF i = j THEN w ELSE stamps[i]
      BY <2>2 DEF PageInv, Stamped
    <3> QED BY <2>4, <3>1, <3>2 DEF PageInv
  <2>6. ASSUME Steady'
        PROVE  /\ \A i \in Untouched' : Place(stamps', order', i) <= page' * PageSize => i \in got'
               /\ page' >= pages' => Untouched' \subseteq got'
    <3>1. Steady /\ page # 0
      BY <2>3, <2>6 DEF Steady, Paged!ByCreation, Paged!LastFirst, PageInv
    <3>2. w.created = IF j \in OnFile(stamps) THEN stamps[j].created ELSE clock
      BY <2>1
    <3>3. Paged!ByCreation \/ Paged!LastFirst
      BY <3>1 DEF Steady
    <3>4. PICK rw : rw = stamps'
      OBVIOUS
    <3>5. /\ OnFile(rw) = OnFile(stamps) \cup {j}
          /\ \A i \in OnFile(stamps) \ {j} : Place(stamps, order, i) <= Place(rw, order, i)
      BY <2>2, <2>4, <3>2, <3>3, <3>4, PlaceGrows
    <3>6. stirred' = stirred \cup {j} /\ Untouched' = OnFile(rw) \ stirred'
      BY <2>3, <3>1, <3>4 DEF Untouched, OnFile
    <3>7. \A i \in Untouched' : i \in Untouched /\ i \in OnFile(stamps) \ {j}
      BY <3>5, <3>6 DEF Untouched
    <3>8. ASSUME NEW i \in Untouched', Place(stamps', order', i) <= page' * PageSize PROVE i \in got'
      <4>1. i \in Untouched /\ i \in Items /\ Place(stamps, order, i) <= Place(rw, order, i)
        BY <3>5, <3>7 DEF OnFile
      <4>2. Place(rw, order, i) <= page * PageSize
        BY <2>3, <3>4, <3>8
      <4>3. page * PageSize \in Nat /\ Place(stamps, order, i) \in Nat /\ Place(rw, order, i) \in Nat
        BY <2>5, <3>4, <4>1, Together, PlacesDiffer DEF PageInv
      <4>4. Place(stamps, order, i) <= page * PageSize
        BY <4>1, <4>2, <4>3
      <4> QED BY <2>3, <3>1, <4>1, <4>4 DEF PageInv
    <3>9. page' >= pages' => Untouched' \subseteq got'
      BY <2>3, <3>1, <3>7 DEF PageInv
    <3> QED BY <3>8, <3>9
  <2> QED BY <2>3, <2>5, <2>6 DEF PageInv
<1>4. ASSUME NEW j \in Items, Paged!Delete(j) PROVE PageInv'
  <2>1. /\ stamps' = [stamps EXCEPT ![j] = [created |-> 0, updated |-> 0]]
        /\ UNCHANGED <<clock, order, page, pages, got>> /\ removed' = (removed \/ page > 0)
    BY <1>4 DEF Paged!Delete, Paged!Stir
  <2>2. stamps' \in Stamped
    BY <2>1 DEF PageInv, Stamped
  <2>3. \A i \in Items : stamps'[i].created <= clock /\ stamps'[i].updated <= clock
    BY <2>1 DEF PageInv, Stamped
  <2>4. ~Steady'
    BY <2>1 DEF Steady
  <2> QED BY <2>1, <2>2, <2>3, <2>4 DEF PageInv
<1>5. CASE Paged!NextPage
  <2>1. /\ UNCHANGED <<stamps, clock, order, stirred, removed>> /\ page' = page + 1
        /\ pages' = Paged!TotalPages(Paged!SortCollection)
        /\ got' = got \cup Paged!Range(Paged!Slice(Paged!SortCollection, page + 1))
    BY <1>5 DEF Paged!NextPage
  <2>2. Untouched' = Untouched
    BY <2>1 DEF Untouched, OnFile
  <2>3. stamps \in Stamped /\ page \in Nat /\ page' \in Nat /\ page' * PageSize \in Nat
    BY <2>1, Together DEF PageInv
  <2>4. ASSUME ~removed, Paged!ByCreation \/ Paged!LastFirst, NEW i \in Untouched,
               Place(stamps, order, i) <= page' * PageSize
        PROVE  i \in got'
    <3>1. i \in OnFile(stamps) /\ i \in Items /\ Place(stamps, order, i) \in Nat /\ Place(stamps, order, i) >= 1
      BY <2>3, PlacesDiffer DEF Untouched, OnFile
    <3>2. CASE ~(Place(stamps, order, i) <= page * PageSize)
      BY <2>1, <2>3, <2>4, <3>1, <3>2, SliceHas
    <3>3. CASE Place(stamps, order, i) <= page * PageSize
      <4>1. page # 0
        <5>1. page = 0 => page * PageSize = 0
          BY PagesOK
        <5> QED BY <3>1, <3>3, <5>1
      <4>2. Steady
        BY <2>3, <2>4, <4>1 DEF Steady
      <4> QED BY <2>1, <2>4, <3>3, <4>2 DEF PageInv
    <3> QED BY <3>2, <3>3
  <2>5. ASSUME ~removed, Paged!ByCreation \/ Paged!LastFirst, page' >= pages', NEW i \in Untouched
        PROVE  i \in got'
    <3>1. PICK n : n = Cardinality(OnFile(stamps))
      OBVIOUS
    <3>2. n \in Nat /\ i \in OnFile(stamps) /\ Place(stamps, order, i) <= n /\ Place(stamps, order, i) \in Nat
      BY <2>3, <3>1, PlacesDiffer DEF Untouched, OnFile
    <3>3. pages' = (n + PageSize - 1) \div PageSize
      BY <2>1, <2>3, <3>1, ListedAtPlace DEF Paged!TotalPages
    <3>4. n <= page' * PageSize
      BY <2>3, <2>5, <3>2, <3>3, PagesOK, RoundedUp
    <3>5. Place(stamps, order, i) <= page' * PageSize
      BY <2>3, <3>2, <3>4
    <3> QED BY <2>4, <2>5, <3>5
  <2>6. Steady' => ~removed /\ (Paged!ByCreation \/ Paged!LastFirst)
    BY <2>1 DEF Steady, Paged!ByCreation, Paged!LastFirst
  <2>7. Steady' => \A i \in Untouched' : Place(stamps', order', i) <= page' * PageSize => i \in got'
    BY <2>1, <2>2, <2>4, <2>6
  <2>8. Steady' /\ page' >= pages' => Untouched' \subseteq got'
    BY <2>2, <2>5, <2>6
  <2> QED BY <2>1, <2>3, <2>7, <2>8 DEF PageInv
<1> QED BY <1>1, <1>2, <1>3, <1>4, <1>5 DEF Paged!Next

LEMMA PageProps == PageInv => Paged!UntouchedAreListed
  BY PagedIs DEF PageInv, Steady, Untouched, Paged!UntouchedAreListed

(* However rows are added and changed between the pages, and however many   *)
(* there are: a client that has read every page was given every row that    *)
(* nobody touched while it read, unless rows were removed or it sorts by    *)
(* oldest change (sortCollection, paginateCollection).                      *)
THEOREM UntouchedAlwaysListed == Paged!Spec => []Paged!UntouchedAreListed
  BY PageInit, PageNext, PageProps, PTL DEF Paged!Spec

(* The same of the pages among the parts that are checked together.         *)
THEOREM PagesAlwaysHold == Outside => []PagesHold
<1> DEFINE Stays == setting = "pages" => PageInv
<1>1. Begins => Stays
  BY PageInit DEF Begins, Settle
<1>2. Stays /\ [Steps]_<<reviewing, outside>> => Stays'
  <2> SUFFICES ASSUME Stays, [Steps]_<<reviewing, outside>>, setting' = "pages" PROVE PageInv'
    OBVIOUS
  <2>1. setting = "pages"
    BY DEF Steps, Work, reviewing
  <2>2. [Paged!Next]_Paged!pageVars
    BY <2>1 DEF Steps, Work, Leafs, reviewing, outside, paging, Paged!pageVars
  <2> QED BY <2>1, <2>2, PageNext
<1>3. Stays => PagesHold
  BY PageProps DEF PagesHold
<1> HIDE DEF Stays
<1> QED BY <1>1, <1>2, <1>3, PTL DEF Outside

----------------------------------------------------------------------------
(* What a round adds up to. There is no induction over data: a least number *)
(* stands in for it.                                                        *)
Below == {pair \in Nat \X Nat : pair[1] < pair[2]}
LEMMA Climbs ==
  ASSUME NEW n \in Nat, NEW T, 0 \in T, \A k \in Nat : k < n /\ k \in T => k + 1 \in T
  PROVE  n \in T
<1> SUFFICES ASSUME n \notin T PROVE FALSE
  OBVIOUS
<1>1. PICK U : U = {k \in Nat : k \notin T /\ k <= n}
  OBVIOUS
<1>2. PICK m \in U : \A k \in U : ~(<<k, m>> \in Below)
  <2>1. U \in SUBSET Nat /\ U # {}
    BY <1>1
  <2>2. IsWellFoundedOn(Below, Nat)
    BY NatLessThanWellFounded DEF OpToRel, Below
  <2> QED BY <2>1, <2>2, WFMin
<1>3. m \in Nat /\ m # 0 /\ m \notin T /\ m <= n
  BY <1>1, <1>2
<1>4. PICK k : k = m - 1
  OBVIOUS
<1>5. k \in Nat /\ k < n /\ k + 1 = m /\ k < m /\ k <= n
  BY <1>3, <1>4
<1>6. k \notin U
  BY <1>2, <1>3, <1>5 DEF Below
<1>7. k \in T
  BY <1>1, <1>5, <1>6
<1> QED BY <1>3, <1>5, <1>7

(* A total is what its partial sums come to.                                *)
LEMMA SumSteps ==
  ASSUME NEW n \in Nat, NEW p \in [1..n -> Int]
  PROVE  \E g : /\ g[0] = 0 /\ Scores!Total(p) = g[n] /\ \A k \in Nat : k <= n => g[k] \in Int
                /\ \A k \in Nat : k < n => g[k + 1] = g[k] + p[k + 1]
<1> DEFINE Eq(f, k) == f = [i \in 0..k |-> IF i = 0 THEN 0 ELSE f[i - 1] + p[i]]
           Made(k) == \E f : Eq(f, k)
<1>1. Made(0)
  <2>1. PICK f : f = [i \in 0..0 |-> 0]
    OBVIOUS
  <2>2. Eq(f, 0)
    BY <2>1
  <2> QED BY <2>2
<1>2. ASSUME NEW k \in Nat, k < n, Made(k) PROVE Made(k + 1)
  <2>1. PICK f : Eq(f, k)
    BY <1>2
  <2>2. PICK g : g = [i \in 0..(k + 1) |-> IF i <= k THEN f[i] ELSE f[k] + p[i]]
    OBVIOUS
  <2>3. \A i \in 0..(k + 1) : g[i] = IF i = 0 THEN 0 ELSE g[i - 1] + p[i]
    <3> SUFFICES ASSUME NEW i \in 0..(k + 1) PROVE g[i] = IF i = 0 THEN 0 ELSE g[i - 1] + p[i]
      OBVIOUS
    <3>1. CASE i <= k
      <4>1. i \in 0..k /\ g[i] = f[i] /\ (i # 0 => i - 1 \in 0..(k + 1) /\ i - 1 <= k)
        BY <1>2, <2>2, <3>1
      <4>2. i # 0 => g[i - 1] = f[i - 1]
        BY <2>2, <4>1
      <4>3. f[i] = IF i = 0 THEN 0 ELSE f[i - 1] + p[i]
        BY <2>1, <4>1
      <4> QED BY <4>1, <4>2, <4>3
    <3>2. CASE ~(i <= k)
      <4>1. i = k + 1 /\ i # 0 /\ i - 1 = k /\ k \in 0..(k + 1) /\ k <= k
        BY <1>2, <3>2
      <4> QED BY <2>2, <3>2, <4>1
    <3> QED BY <3>1, <3>2
  <2>4. Eq(g, k + 1)
    BY <2>2, <2>3
  <2> QED BY <2>4
<1>3. Made(n)
  <2> HIDE DEF Made
  <2>1. PICK T : T = {k \in Nat : Made(k)}
    OBVIOUS
  <2>2. 0 \in T /\ \A k \in Nat : k < n /\ k \in T => k + 1 \in T
    BY <1>1, <1>2, <2>1
  <2>3. n \in T
    BY ONLY <2>2, Climbs, n \in Nat
  <2> QED BY <2>1, <2>3
<1>4. Len(p) = n
  <2>1. p \in Seq(Int)
    OBVIOUS
  <2>2. DOMAIN p = 1..n /\ DOMAIN p = 1..Len(p) /\ Len(p) \in Nat
    BY <2>1, LenProperties
  <2> QED BY <2>2
<1>5. PICK g : g = CHOOSE f : Eq(f, n)
  OBVIOUS
<1>6. Eq(g, n)
  BY <1>3, <1>5
<1>7. Scores!Total(p) = g[n]
  BY <1>4, <1>5 DEF Scores!Total
<1> HIDE DEF Eq
<1>8. \A i \in 0..n : g[i] = IF i = 0 THEN 0 ELSE g[i - 1] + p[i]
  BY <1>6 DEF Eq
<1>9. g[0] = 0
  BY <1>8
<1>10. ASSUME NEW k \in Nat, k < n PROVE g[k + 1] = g[k] + p[k + 1]
  <2>1. k + 1 \in 0..n /\ k + 1 # 0 /\ (k + 1) - 1 = k
    BY <1>10
  <2> QED BY <1>8, <2>1
<1>11. \A m \in Nat : m <= n => g[m] \in Int
  <2> SUFFICES ASSUME NEW m \in Nat, m <= n PROVE g[m] \in Int
    OBVIOUS
  <2>1. PICK T : T = {k \in Nat : g[k] \in Int}
    OBVIOUS
  <2>2. 0 \in T
    BY <1>9, <2>1
  <2>3. \A k \in Nat : k < m /\ k \in T => k + 1 \in T
    BY <1>10, <2>1
  <2>4. m \in T
    BY ONLY <2>2, <2>3, Climbs, m \in Nat
  <2> QED BY <2>1, <2>4
<1> QED BY <1>7, <1>9, <1>10, <1>11

LEMMA Shares ==
  \A a \in Int, x \in Int, y \in Int : a * (x + y) = a * x + a * y /\ a * x \in Int /\ a * y \in Int
OBVIOUS

(* Totals compare as their parts do.                                        *)
LEMMA SumsCompare ==
  ASSUME NEW n \in Nat, NEW p \in [1..n -> Int], NEW q \in [1..n -> Int], NEW a \in Int, NEW c \in Int,
         \A i \in 1..n : a * q[i] >= c * p[i]
  PROVE  /\ Scores!Total(p) \in Int /\ Scores!Total(q) \in Int
         /\ a * Scores!Total(q) >= c * Scores!Total(p)
<1>1. PICK f : /\ f[0] = 0 /\ Scores!Total(p) = f[n] /\ \A k \in Nat : k <= n => f[k] \in Int
               /\ \A k \in Nat : k < n => f[k + 1] = f[k] + p[k + 1]
  BY SumSteps
<1>2. PICK g : /\ g[0] = 0 /\ Scores!Total(q) = g[n] /\ \A k \in Nat : k <= n => g[k] \in Int
               /\ \A k \in Nat : k < n => g[k + 1] = g[k] + q[k + 1]
  BY SumSteps
<1>3. PICK T : T = {k \in Nat : a * g[k] >= c * f[k]}
  OBVIOUS
<1>4. 0 \in T
  BY <1>1, <1>2, <1>3
<1>5. ASSUME NEW k \in Nat, k < n, k \in T PROVE k + 1 \in T
  <2>1. k + 1 \in 1..n /\ k <= n
    BY <1>5
  <2>2. PICK x \in Int, y \in Int, u \in Int, v \in Int : x = f[k] /\ y = g[k] /\ u = p[k + 1] /\ v = q[k + 1]
    BY <1>1, <1>2, <2>1
  <2>3. a * y >= c * x /\ a * v >= c * u
    BY <1>3, <1>5, <2>1, <2>2
  <2>4. a * (y + v) = a * y + a * v /\ c * (x + u) = c * x + c * u
    BY Shares
  <2>5. a * y \in Int /\ a * v \in Int /\ c * x \in Int /\ c * u \in Int
    BY Shares
  <2>6. PICK s \in Int, t \in Int, s1 \in Int, t1 \in Int : s = a * y /\ t = a * v /\ s1 = c * x /\ t1 = c * u
    BY <2>5
  <2>7. a * (y + v) >= c * (x + u)
    BY <2>3, <2>4, <2>6
  <2>8. g[k + 1] = y + v /\ f[k + 1] = x + u /\ k + 1 \in Nat
    <3>1. f[k + 1] = f[k] + p[k + 1]
      BY <1>1, <1>5
    <3>2. g[k + 1] = g[k] + q[k + 1]
      BY <1>2, <1>5
    <3> QED BY <2>2, <3>1, <3>2
  <2>9. a * g[k + 1] >= c * f[k + 1]
    BY <2>7, <2>8
  <2> QED BY <1>3, <2>8, <2>9
<1>6. n \in T
  BY ONLY <1>4, <1>5, Climbs, n \in Nat
<1> QED BY <1>1, <1>2, <1>3, <1>6

(* One part more or less is that much more or less in all.                  *)
LEMMA SumChanges ==
  ASSUME NEW n \in Nat, NEW p \in [1..n -> Int], NEW q \in [1..n -> Int], NEW j \in 1..n,
         \A i \in 1..n : i # j => q[i] = p[i]
  PROVE  /\ Scores!Total(p) \in Int /\ Scores!Total(q) \in Int
         /\ Scores!Total(q) = Scores!Total(p) + (q[j] - p[j])
<1>1. PICK f : /\ f[0] = 0 /\ Scores!Total(p) = f[n] /\ \A k \in Nat : k <= n => f[k] \in Int
               /\ \A k \in Nat : k < n => f[k + 1] = f[k] + p[k + 1]
  BY SumSteps
<1>2. PICK g : /\ g[0] = 0 /\ Scores!Total(q) = g[n] /\ \A k \in Nat : k <= n => g[k] \in Int
               /\ \A k \in Nat : k < n => g[k + 1] = g[k] + q[k + 1]
  BY SumSteps
<1>3. PICK d \in Int : d = q[j] - p[j] /\ q[j] = p[j] + d
  OBVIOUS
<1>4. PICK T : T = {k \in Nat : (k < j => g[k] = f[k]) /\ (k >= j => g[k] = f[k] + d)}
  OBVIOUS
<1>5. 0 \in T
  BY <1>1, <1>2, <1>4
<1>6. ASSUME NEW k \in Nat, k < n, k \in T PROVE k + 1 \in T
  <2>1. k + 1 \in 1..n /\ k <= n /\ f[k] \in Int /\ g[k] \in Int /\ p[k + 1] \in Int /\ q[k + 1] \in Int
    BY <1>1, <1>2, <1>6
  <2>2. f[k + 1] = f[k] + p[k + 1] /\ g[k + 1] = g[k] + q[k + 1]
    BY <1>1, <1>2, <1>6
  <2>3. k + 1 # j => q[k + 1] = p[k + 1]
    BY <2>1
  <2>4. PICK x \in Int, y \in Int, u \in Int : x = f[k] /\ y = g[k] /\ u = p[k + 1]
    BY <2>1
  <2>5. (k < j => y = x) /\ (k >= j => y = x + d)
    BY <1>4, <1>6, <2>4
  <2>6. f[k + 1] = x + u /\ (k + 1 # j => g[k + 1] = y + u) /\ (k + 1 = j => g[k + 1] = y + (u + d))
    BY <1>3, <2>1, <2>2, <2>3, <2>4
  <2>7. (k + 1 < j => g[k + 1] = f[k + 1]) /\ (k + 1 >= j => g[k + 1] = f[k + 1] + d)
    <3>1. CASE k + 1 < j
      BY <2>4, <2>5, <2>6, <3>1
    <3>2. CASE k + 1 = j
      <4>0. k < j /\ j \in Int
        BY <3>2
      <4>1. y = x /\ x + (u + d) = (x + u) + d
        BY <2>5, <4>0
      <4>2. g[k + 1] = f[k + 1] + d /\ k + 1 >= j /\ ~(k + 1 < j)
        BY <2>6, <3>2, <4>0, <4>1
      <4> QED BY <4>2
    <3>3. CASE k + 1 > j
      <4>0. k >= j /\ j \in Int /\ k + 1 # j
        BY <3>3
      <4>1. y = x + d /\ (x + d) + u = (x + u) + d
        BY <2>5, <4>0
      <4>2. g[k + 1] = f[k + 1] + d /\ ~(k + 1 < j)
        BY <2>6, <3>3, <4>0, <4>1
      <4> QED BY <4>2
    <3> QED BY <3>1, <3>2, <3>3
  <2> QED BY <1>4, <1>6, <2>7
<1>7. n \in T
  BY ONLY <1>5, <1>6, Climbs, n \in Nat
<1> QED BY <1>1, <1>2, <1>3, <1>4, <1>7

(* Rounding down.                                                           *)
LEMMA Larger ==
  \A d \in Nat, x \in Int, y \in Int : d * x \in Int /\ d * x = x * d /\ (x >= y => x * d >= y * d)
OBVIOUS
LEMMA Floor ==
  ASSUME NEW a \in Int, NEW d \in Nat \ {0}, NEW k \in Int
  PROVE  a \div d \in Int /\ (a \div d >= k <=> a >= k * d)
<1>1. PICK z \in Int : z = a \div d
  OBVIOUS
<1>2. z * d <= a /\ a < z * d + d
  BY <1>1
<1>3. z * d \in Int /\ k * d \in Int
  BY Larger
<1>4. z >= k => a >= k * d
  BY <1>2, <1>3, Larger
<1>5. ASSUME ~(z >= k) PROVE ~(a >= k * d)
  <2>1. k >= z + 1
    BY <1>5
  <2>2. k * d >= (z + 1) * d
    BY <2>1, Larger
  <2>3. (z + 1) * d = z * d + d
    OBVIOUS
  <2> QED BY <1>2, <1>3, <2>2, <2>3
<1> QED BY <1>1, <1>4, <1>5

LEMMA RoundsUp ==
  ASSUME NEW x \in Int, NEW y \in Int, x <= y
  PROVE  /\ Scores!RoundScoreValue(x) \in Int /\ Scores!RoundScoreValue(y) \in Int
         /\ Scores!RoundScoreValue(x) <= Scores!RoundScoreValue(y)
BY DEF Scores!RoundScoreValue

----------------------------------------------------------------------------
(* A scorecard's criteria, and what it says once they have been answered.   *)
Criterion == {c \in [type : STRING, min : Int, max : Int, weight : Nat] : c.min < c.max /\ c.weight > 0}
Asks(cr, n) == n \in Nat /\ cr \in [1..n -> Criterion]
Answered(cr, v) == \A i \in DOMAIN cr : v[i] \in Scores!Scale(cr[i])
RatedIn(cr, v) == {i \in DOMAIN cr : Scores!CriterionWeight(cr[i]) > 0 /\ v[i] # None}
WeightsIn(cr, v) == [i \in DOMAIN cr |-> IF i \in RatedIn(cr, v) THEN cr[i].weight ELSE 0]
Worth(cr, v, i) == Scores!NormalizedValue(cr[i], v[i])
WeighedIn(cr, v) ==
  [i \in DOMAIN cr |-> IF i \in RatedIn(cr, v) THEN cr[i].weight * Worth(cr, v, i) ELSE 0]
ScoreIn(cr, v) == Scores!Over(Scores!Total(WeighedIn(cr, v)), Scores!Total(WeightsIn(cr, v)))

LEMMA RatedIs ==
  ASSUME NEW cr, NEW n, Asks(cr, n), NEW v, Answered(cr, v)
  PROVE  /\ RatedIn(cr, v) = {i \in 1..n : Scores!Numeric(cr[i])} /\ DOMAIN cr = 1..n
         /\ \A i \in RatedIn(cr, v) :
              v[i] \in Int /\ cr[i].weight \in Nat /\ cr[i].weight > 0 /\ cr[i] \in Criterion
<1>1. DOMAIN cr = 1..n /\ \A i \in 1..n : cr[i] \in Criterion
  BY DEF Asks
<1>2. ASSUME NEW i \in 1..n, Scores!Numeric(cr[i])
      PROVE  i \in RatedIn(cr, v) /\ v[i] \in Int
  <2>1. cr[i].weight > 0 /\ cr[i].weight \in Nat /\ cr[i].min \in Int /\ cr[i].max \in Int
    BY <1>1 DEF Criterion
  <2>2. v[i] \in Int /\ v[i] # None
    BY <1>1, <1>2, <2>1, ScoresOK DEF Answered, Scores!Scale
  <2> QED BY <1>1, <1>2, <2>1, <2>2 DEF RatedIn, Scores!CriterionWeight
<1>3. ASSUME NEW i \in 1..n, ~Scores!Numeric(cr[i]) PROVE i \notin RatedIn(cr, v)
  BY <1>3 DEF RatedIn, Scores!CriterionWeight
<1>4. RatedIn(cr, v) \subseteq 1..n
  BY <1>1 DEF RatedIn
<1>5. \A i \in 1..n : cr[i].weight \in Nat /\ cr[i].weight > 0
  BY <1>1 DEF Criterion
<1> QED BY <1>1, <1>2, <1>3, <1>4, <1>5

(* A rating is worth something, and a higher one no less.                   *)
LEMMA WorthGrows ==
  ASSUME NEW c \in Criterion, NEW x \in Int, NEW y \in Int
  PROVE  /\ Scores!NormalizedValue(c, x) \in Int /\ Scores!NormalizedValue(c, y) \in Int
         /\ x <= y => Scores!NormalizedValue(c, x) <= Scores!NormalizedValue(c, y)
<1>1. PICK d \in Nat \ {0} : d = c.max - c.min
  BY DEF Criterion
<1>2. c.min \in Int /\ c.max \in Int /\ c.min < c.max
  BY DEF Criterion
<1>3. PICK a \in Int : a = 100000 * ((IF x < c.min THEN c.min ELSE IF x > c.max THEN c.max ELSE x) - c.min)
  BY <1>2
<1>4. PICK b \in Int : b = 100000 * ((IF y < c.min THEN c.min ELSE IF y > c.max THEN c.max ELSE y) - c.min)
  BY <1>2
<1>5. x <= y => a <= b
  BY <1>2, <1>3, <1>4
<1>6. Scores!NormalizedValue(c, x) = a \div d /\ Scores!NormalizedValue(c, y) = b \div d
  BY <1>1, <1>3, <1>4 DEF Scores!NormalizedValue
<1>7. a \div d \in Int /\ b \div d \in Int
  BY Floor
<1>8. ASSUME x <= y PROVE b \div d >= a \div d
  <2>1. PICK k \in Int : k = a \div d
    BY <1>7
  <2>2. a >= k * d /\ k * d \in Int
    BY <2>1, Floor, Larger
  <2>3. b >= k * d
    BY <1>5, <1>8, <2>2
  <2> QED BY <2>1, <2>3, Floor
<1> QED BY <1>6, <1>7, <1>8

LEMMA PartsTyped ==
  ASSUME NEW cr, NEW n, Asks(cr, n), NEW v, Answered(cr, v)
  PROVE  /\ WeightsIn(cr, v) \in [1..n -> Int] /\ WeighedIn(cr, v) \in [1..n -> Int]
         /\ \A i \in 1..n : WeightsIn(cr, v)[i] >= 0
         /\ \A i \in RatedIn(cr, v) : Worth(cr, v, i) \in Int
<1>1. DOMAIN cr = 1..n /\ RatedIn(cr, v) \subseteq 1..n
  BY RatedIs
<1>2. \A i \in RatedIn(cr, v) :
        v[i] \in Int /\ cr[i].weight \in Nat /\ cr[i].weight > 0 /\ cr[i] \in Criterion
  BY RatedIs
<1>3. \A i \in RatedIn(cr, v) : Worth(cr, v, i) \in Int
  BY <1>2, WorthGrows DEF Worth
<1>4. \A i \in RatedIn(cr, v) : cr[i].weight * Worth(cr, v, i) \in Int
  BY <1>2, <1>3, Larger
<1>5. WeightsIn(cr, v) = [i \in 1..n |-> IF i \in RatedIn(cr, v) THEN cr[i].weight ELSE 0]
  BY <1>1 DEF WeightsIn
<1>6. WeighedIn(cr, v) = [i \in 1..n |-> IF i \in RatedIn(cr, v) THEN cr[i].weight * Worth(cr, v, i) ELSE 0]
  BY <1>1 DEF WeighedIn
<1> QED BY <1>2, <1>3, <1>4, <1>5, <1>6

(* Whatever is rated has some weight.                                       *)
LEMMA Weighty ==
  ASSUME NEW cr, NEW n, Asks(cr, n), NEW v, Answered(cr, v)
  PROVE  /\ Scores!Total(WeightsIn(cr, v)) \in Nat /\ Scores!Total(WeighedIn(cr, v)) \in Int
         /\ RatedIn(cr, v) # {} => Scores!Total(WeightsIn(cr, v)) > 0
<1>0. n \in Nat
  BY DEF Asks
<1>1. PICK w \in [1..n -> Int] : w = WeightsIn(cr, v)
  BY PartsTyped
<1>2. \A i \in 1..n : w[i] >= 0
  BY <1>1, PartsTyped
<1>3. ASSUME NEW p \in [1..n -> Int], \A i \in 1..n : p[i] >= 0
      PROVE  Scores!Total(p) \in Int /\ Scores!Total(p) >= 0
  <2>1. \A i \in 1..n : 1 * p[i] >= 0 * p[i]
    BY <1>3
  <2>2. Scores!Total(p) \in Int /\ 1 * Scores!Total(p) >= 0 * Scores!Total(p)
    BY ONLY <1>0, <2>1, SumsCompare, p \in [1..n -> Int], 1 \in Int, 0 \in Int
  <2> QED BY <2>2
<1>4. Scores!Total(WeighedIn(cr, v)) \in Int
  <2>1. PICK p \in [1..n -> Int] : p = WeighedIn(cr, v)
    BY PartsTyped
  <2>2. \A i \in 1..n : 0 * p[i] >= 0 * p[i]
    OBVIOUS
  <2>3. Scores!Total(p) \in Int
    BY ONLY <1>0, <2>2, SumsCompare, p \in [1..n -> Int], 0 \in Int
  <2> QED BY <2>1, <2>3
<1>5. ASSUME NEW j \in RatedIn(cr, v) PROVE Scores!Total(w) > 0
  <2>1. j \in 1..n /\ j \in DOMAIN cr /\ cr[j].weight > 0 /\ cr[j].weight \in Nat
    BY RatedIs
  <2>2. w[j] > 0 /\ w[j] \in Int
    BY <1>1, <2>1 DEF WeightsIn
  <2>3. PICK p \in [1..n -> Int] : p = [i \in 1..n |-> IF i = j THEN 0 ELSE w[i]]
    <3>1. PICK p : p = [i \in 1..n |-> IF i = j THEN 0 ELSE w[i]]
      OBVIOUS
    <3>2. p \in [1..n -> Int]
      BY <3>1
    <3> QED BY <3>1, <3>2
  <2>4. \A i \in 1..n : i # j => w[i] = p[i]
    BY <2>3
  <2>5. Scores!Total(p) \in Int /\ Scores!Total(w) \in Int /\ Scores!Total(w) = Scores!Total(p) + (w[j] - p[j])
    BY ONLY <1>0, <2>1, <2>4, SumChanges, p \in [1..n -> Int], w \in [1..n -> Int]
  <2>6. p[j] = 0 /\ \A i \in 1..n : p[i] >= 0
    BY <1>2, <2>1, <2>3
  <2>7. Scores!Total(p) >= 0
    BY <1>3, <2>6
  <2> QED BY <2>2, <2>5, <2>6, <2>7
<1>6. Scores!Total(w) \in Int /\ Scores!Total(w) >= 0
  BY <1>2, <1>3
<1> QED BY <1>1, <1>4, <1>5, <1>6

LEMMA ScoreIs ==
  ASSUME NEW cr, NEW n, Asks(cr, n), NEW v, Answered(cr, v)
  PROVE  /\ ScoreIn(cr, v) = None \/ ScoreIn(cr, v) \in Int
         /\ RatedIn(cr, v) # {} => /\ Scores!Total(WeightsIn(cr, v)) \in Nat \ {0}
                                   /\ ScoreIn(cr, v) \in Int /\ ScoreIn(cr, v) # None
                                   /\ ScoreIn(cr, v) =
                                        Scores!Total(WeighedIn(cr, v)) \div Scores!Total(WeightsIn(cr, v))
<1>1. PICK a \in Int, d \in Nat : a = Scores!Total(WeighedIn(cr, v)) /\ d = Scores!Total(WeightsIn(cr, v))
  BY Weighty
<1>2. ScoreIn(cr, v) = IF d = 0 THEN None ELSE a \div d
  BY <1>1 DEF ScoreIn, Scores!Over
<1>3. d # 0 => a \div d \in Int
  BY Floor
<1>4. RatedIn(cr, v) # {} => d # 0
  BY <1>1, Weighty
<1> QED BY <1>1, <1>2, <1>3, <1>4, ScoresOK

(* A score is none of it outside what its ratings are worth.                *)
LEMMA ScoreWithin ==
  ASSUME NEW cr, NEW n, Asks(cr, n), NEW v, Answered(cr, v), RatedIn(cr, v) # {}
  PROVE  \E i \in RatedIn(cr, v), j \in RatedIn(cr, v) :
           /\ Worth(cr, v, i) \in Int /\ Worth(cr, v, j) \in Int
           /\ Worth(cr, v, i) <= ScoreIn(cr, v) /\ ScoreIn(cr, v) <= Worth(cr, v, j)
<1>0. n \in Nat /\ 1 \in Int
  BY DEF Asks
<1>1. PICK p \in [1..n -> Int] : p = WeighedIn(cr, v)
  BY PartsTyped
<1>2. PICK w \in [1..n -> Int] : w = WeightsIn(cr, v)
  BY PartsTyped
<1>3. PICK x \in Int, a \in Int, d \in Nat \ {0} :
        /\ x = ScoreIn(cr, v) /\ a = Scores!Total(p) /\ d = Scores!Total(w) /\ x = a \div d
  BY <1>1, <1>2, ScoreIs, Weighty
<1>4. DOMAIN cr = 1..n /\ RatedIn(cr, v) \subseteq 1..n
  BY RatedIs
<1>5. \A i \in 1..n : i \notin RatedIn(cr, v) => p[i] = 0 /\ w[i] = 0
  BY <1>1, <1>2, <1>4 DEF WeighedIn, WeightsIn
<1>6. \A i \in RatedIn(cr, v) : p[i] = w[i] * Worth(cr, v, i) /\ w[i] \in Nat /\ Worth(cr, v, i) \in Int
  BY <1>1, <1>2, <1>4, RatedIs, PartsTyped DEF WeighedIn, WeightsIn
<1>7. \E i \in RatedIn(cr, v) : Worth(cr, v, i) <= x
  <2> SUFFICES ASSUME \A i \in RatedIn(cr, v) : ~(Worth(cr, v, i) <= x) PROVE FALSE
    OBVIOUS
  <2>1. \A i \in 1..n : 1 * p[i] >= (x + 1) * w[i]
    <3> SUFFICES ASSUME NEW i \in 1..n PROVE 1 * p[i] >= (x + 1) * w[i]
      OBVIOUS
    <3>1. CASE i \in RatedIn(cr, v)
      <4>1. PICK y \in Int, u \in Nat : y = Worth(cr, v, i) /\ u = w[i] /\ p[i] = u * y
        BY <1>6, <3>1
      <4>2. y >= x + 1
        BY <3>1, <4>1
      <4>3. y * u >= (x + 1) * u /\ u * y = y * u
        BY <4>2, Larger
      <4> QED BY <4>1, <4>3
    <3>2. CASE i \notin RatedIn(cr, v)
      <4>1. p[i] = 0 /\ w[i] = 0
        BY <1>5, <3>2
      <4> QED BY <4>1
    <3> QED BY <3>1, <3>2
  <2>2. 1 * a >= (x + 1) * d
    <3>1. x + 1 \in Int
      OBVIOUS
    <3>2. 1 * Scores!Total(p) >= (x + 1) * Scores!Total(w)
      BY ONLY <1>0, <2>1, <3>1, SumsCompare, p \in [1..n -> Int], w \in [1..n -> Int]
    <3> QED BY <1>3, <3>2
  <2>3. a >= (x + 1) * d
    BY <2>2
  <2>4. a \div d >= x + 1
    BY <2>3, Floor
  <2> QED BY <1>3, <2>4
<1>8. \E j \in RatedIn(cr, v) : x <= Worth(cr, v, j)
  <2> SUFFICES ASSUME \A j \in RatedIn(cr, v) : ~(x <= Worth(cr, v, j)) PROVE FALSE
    OBVIOUS
  <2>1. \A i \in 1..n : (x - 1) * w[i] >= 1 * p[i]
    <3> SUFFICES ASSUME NEW i \in 1..n PROVE (x - 1) * w[i] >= 1 * p[i]
      OBVIOUS
    <3>1. CASE i \in RatedIn(cr, v)
      <4>1. PICK y \in Int, u \in Nat : y = Worth(cr, v, i) /\ u = w[i] /\ p[i] = u * y
        BY <1>6, <3>1
      <4>2. x - 1 >= y
        BY <3>1, <4>1
      <4>3. (x - 1) * u >= y * u /\ u * y = y * u
        BY <4>2, Larger
      <4> QED BY <4>1, <4>3
    <3>2. CASE i \notin RatedIn(cr, v)
      <4>1. p[i] = 0 /\ w[i] = 0
        BY <1>5, <3>2
      <4> QED BY <4>1
    <3> QED BY <3>1, <3>2
  <2>2. (x - 1) * d >= 1 * a
    <3>1. x - 1 \in Int
      OBVIOUS
    <3>2. (x - 1) * Scores!Total(w) >= 1 * Scores!Total(p)
      BY ONLY <1>0, <2>1, <3>1, SumsCompare, p \in [1..n -> Int], w \in [1..n -> Int]
    <3> QED BY <1>3, <3>2
  <2>3. a >= x * d
    BY <1>3, Floor
  <2>4. x * d = (x - 1) * d + d
    OBVIOUS
  <2>5. (x - 1) * d \in Int /\ x * d \in Int
    BY Larger
  <2> QED BY <2>2, <2>3, <2>4, <2>5
<1> QED BY <1>3, <1>6, <1>7, <1>8

(* Higher ratings make no lower score.                                      *)
LEMMA ScoreGrows ==
  ASSUME NEW cr, NEW n, Asks(cr, n), NEW v, Answered(cr, v), NEW u, Answered(cr, u),
         RatedIn(cr, v) # {}, \A i \in RatedIn(cr, v) : u[i] <= v[i]
  PROVE  RatedIn(cr, u) # {} /\ ScoreIn(cr, u) <= ScoreIn(cr, v)
<1>0. n \in Nat /\ 1 \in Int
  BY DEF Asks
<1>1. RatedIn(cr, u) = RatedIn(cr, v) /\ RatedIn(cr, v) \subseteq 1..n /\ DOMAIN cr = 1..n
  BY RatedIs
<1>2. WeightsIn(cr, u) = WeightsIn(cr, v)
  BY <1>1 DEF WeightsIn
<1>3. PICK p \in [1..n -> Int], q \in [1..n -> Int] : p = WeighedIn(cr, u) /\ q = WeighedIn(cr, v)
  BY PartsTyped
<1>4. \A i \in 1..n : 1 * q[i] >= 1 * p[i]
  <2> SUFFICES ASSUME NEW i \in 1..n PROVE 1 * q[i] >= 1 * p[i]
    OBVIOUS
  <2>1. CASE i \in RatedIn(cr, v)
    <3>1. /\ u[i] \in Int /\ v[i] \in Int /\ cr[i] \in Criterion
          /\ cr[i].weight \in Nat /\ u[i] <= v[i]
      BY <1>1, <2>1, RatedIs
    <3>2. PICK x \in Int, y \in Int : x = Worth(cr, u, i) /\ y = Worth(cr, v, i) /\ x <= y
      BY <3>1, WorthGrows DEF Worth
    <3>3. PICK d \in Nat : d = cr[i].weight
      BY <3>1
    <3>4. p[i] = d * x /\ q[i] = d * y
      BY <1>1, <1>3, <2>1, <3>2, <3>3 DEF WeighedIn
    <3>5. d * y >= d * x /\ d * y \in Int /\ d * x \in Int
      BY <3>2, Larger
    <3> QED BY <3>4, <3>5
  <2>2. CASE i \notin RatedIn(cr, v)
    <3>1. p[i] = 0 /\ q[i] = 0
      BY <1>1, <1>3, <2>2 DEF WeighedIn
    <3> QED BY <3>1
  <2> QED BY <2>1, <2>2
<1>5. /\ Scores!Total(p) \in Int /\ Scores!Total(q) \in Int
      /\ 1 * Scores!Total(q) >= 1 * Scores!Total(p)
  BY ONLY <1>0, <1>4, SumsCompare, p \in [1..n -> Int], q \in [1..n -> Int]
<1>6. PICK a \in Int, b \in Int, d \in Nat \ {0} :
        /\ a = Scores!Total(p) /\ b = Scores!Total(q) /\ a <= b /\ d = Scores!Total(WeightsIn(cr, v))
        /\ ScoreIn(cr, v) = b \div d /\ ScoreIn(cr, u) = a \div d
  BY <1>1, <1>2, <1>3, <1>5, ScoreIs
<1>7. PICK k \in Int : k = a \div d
  BY Floor
<1>8. a >= k * d /\ k * d \in Int
  BY <1>7, Floor, Larger
<1>9. b \div d >= k /\ b \div d \in Int
  BY <1>6, <1>8, Floor
<1> QED BY <1>1, <1>6, <1>7, <1>9

(* One more score draws a mean towards it.                                  *)
LEMMA MeanMoves ==
  ASSUME NEW T \in Int, NEW N \in Nat, NEW x \in Int, N = 0 => T = 0
  PROVE  /\ N = 0 => (T + x) \div (N + 1) = x
         /\ N # 0 => /\ T \div N \in Int /\ (T + x) \div (N + 1) \in Int
                     /\ Scores!Between((T + x) \div (N + 1), T \div N, x)
<1>1. CASE N = 0
  <2>1. T + x = x /\ N + 1 = 1 /\ x \div 1 = x
    BY <1>1
  <2> QED BY <1>1, <2>1
<1>2. CASE N # 0
  <2>1. N \in Nat \ {0} /\ N + 1 \in Nat \ {0} /\ T + x \in Int
    BY <1>2
  <2>2. PICK m \in Int, z \in Int : m = T \div N /\ z = (T + x) \div (N + 1)
    BY <2>1, Floor
  <2>3. T >= m * N /\ ~(T >= (m + 1) * N)
    BY <2>1, <2>2, Floor
  <2>4. \A k \in Int : z >= k <=> T + x >= k * (N + 1)
    BY <2>1, <2>2, Floor
  <2>5. \A k \in Int : k * (N + 1) = k * N + k /\ k * N \in Int /\ (k + 1) * N = k * N + N
    OBVIOUS
  <2>6. CASE x >= m
    <3>1. z >= m
      BY <2>3, <2>4, <2>5, <2>6
    <3>2. ~(z >= x + 1)
      <4>1. x * N >= m * N
        BY <2>6, Larger
      <4>2. (x + 1) * (N + 1) = (x * N + N) + (x + 1) /\ x * N \in Int
        BY <2>5
      <4>3. (m + 1) * N = m * N + N /\ m * N \in Int
        BY <2>5
      <4>4. T < x * N + N
        BY <2>3, <4>1, <4>2, <4>3
      <4>5. ~(T + x >= (x + 1) * (N + 1))
        BY <4>2, <4>4
      <4> QED BY <2>4, <4>5
    <3> QED BY <1>2, <2>2, <3>1, <3>2 DEF Scores!Between
  <2>7. CASE ~(x >= m)
    <3>1. z >= x
      <4>1. m * N >= x * N /\ x * N \in Int /\ m * N \in Int
        BY <2>5, <2>7, Larger
      <4>2. x * (N + 1) = x * N + x
        BY <2>5
      <4>3. T + x >= x * (N + 1)
        BY <2>3, <4>1, <4>2
      <4> QED BY <2>4, <4>3
    <3>2. ~(z >= m + 1)
      <4>1. (m + 1) * (N + 1) = (m * N + N) + (m + 1) /\ m * N \in Int /\ (m + 1) * N = m * N + N
        BY <2>5
      <4>2. ~(T + x >= (m + 1) * (N + 1))
        BY <2>3, <2>7, <4>1
      <4> QED BY <2>4, <4>2
    <3> QED BY <1>2, <2>2, <2>7, <3>1, <3>2 DEF Scores!Between
  <2> QED BY <2>6, <2>7
<1> QED BY <1>1, <1>2

----------------------------------------------------------------------------
(* The aggregate of a proposal, of any criteria, assignments and cards.     *)
LEMMA SameSize == ASSUME NEW S PROVE Scores!Cardinality(S) = Cardinality(S)
  BY DEF Scores!Cardinality, Cardinality, Scores!IsFiniteSet, IsFiniteSet

CountedIn(st, fl, s) ==
  {r \in Judges : /\ <<s, r>> \in Judging /\ st[<<s, r>>] # "none" /\ st[<<s, r>>] # "recused"
                  /\ fl[<<s, r>>] # None}
TotalsIn(cr, st, fl, s) == {r \in CountedIn(st, fl, s) : ScoreIn(cr, fl[<<s, r>>]) # None}
PartsIn(cr, st, fl, s) ==
  [r \in Judges |-> IF r \in TotalsIn(cr, st, fl, s) THEN ScoreIn(cr, fl[<<s, r>>]) ELSE 0]
MeanIn(cr, st, fl, s) ==
  Scores!Over(Scores!Total(PartsIn(cr, st, fl, s)), Cardinality(TotalsIn(cr, st, fl, s)))
AggregateIn(cr, st, fl, s) ==
  IF MeanIn(cr, st, fl, s) = None THEN None ELSE Scores!RoundScoreValue(MeanIn(cr, st, fl, s))

LEMMA ScoresAre ==
  ASSUME NEW v
  PROVE  Scores!Rated(v) = RatedIn(criteria, v) /\ Scores!ScorecardScore(v) = ScoreIn(criteria, v)
<1>1. Scores!Rated(v) = RatedIn(criteria, v)
  BY DEF Scores!Rated, RatedIn
<1>2. Scores!Weights(v) = WeightsIn(criteria, v)
  BY <1>1 DEF Scores!Weights, WeightsIn
<1>3. Scores!Weighed(v) = WeighedIn(criteria, v)
  BY <1>1 DEF Scores!Weighed, WeighedIn, Worth
<1> QED BY <1>1, <1>2, <1>3 DEF Scores!ScorecardScore, ScoreIn

LEMMA CountedAre ==
  ASSUME NEW s PROVE Scores!Counted(s) = CountedIn(status, filed, s)
BY DEF Scores!Counted, CountedIn, Scores!Required, Scores!Assigned, Scores!Recused, Scores!Filed

LEMMA AggregatesAre ==
  ASSUME NEW s PROVE Scores!Aggregate(s) = AggregateIn(criteria, status, filed, s)
<1>1. Scores!Totals(s) = TotalsIn(criteria, status, filed, s)
  BY CountedAre, ScoresAre DEF Scores!Totals, TotalsIn
<1>2. PICK p : p = [r \in Judges |-> IF r \in Scores!Totals(s)
                                     THEN Scores!ScorecardScore(filed[<<s, r>>]) ELSE 0]
  OBVIOUS
<1>3. p = PartsIn(criteria, status, filed, s)
  BY <1>1, <1>2, ScoresAre DEF PartsIn
<1>4. Scores!Mean(s) = Scores!Over(Scores!Total(p), Scores!Cardinality(Scores!Totals(s)))
  BY <1>2 DEF Scores!Mean
<1>5. Scores!Mean(s) = MeanIn(criteria, status, filed, s)
  BY <1>1, <1>3, <1>4, SameSize DEF MeanIn
<1> QED BY <1>5 DEF Scores!Aggregate, AggregateIn

LEMMA AggregateNext ==
  ASSUME NEW s PROVE Scores!Aggregate(s)' = AggregateIn(criteria', status', filed', s)
<1>1. \A r : Scores!Rated(filed[<<s, r>>])' = RatedIn(criteria', filed'[<<s, r>>])
  BY DEF Scores!Rated, RatedIn
<1>2. \A r : Scores!Weights(filed[<<s, r>>])' = WeightsIn(criteria', filed'[<<s, r>>])
  BY <1>1 DEF Scores!Weights, WeightsIn
<1>3. \A r : Scores!Weighed(filed[<<s, r>>])' = WeighedIn(criteria', filed'[<<s, r>>])
  BY <1>1 DEF Scores!Weighed, WeighedIn, Worth
<1>4. \A r : Scores!ScorecardScore(filed[<<s, r>>])' = ScoreIn(criteria', filed'[<<s, r>>])
  BY <1>2, <1>3 DEF Scores!ScorecardScore, ScoreIn
<1>5. Scores!Counted(s)' = CountedIn(status', filed', s)
  BY DEF Scores!Counted, CountedIn, Scores!Required, Scores!Assigned, Scores!Recused, Scores!Filed
<1>6. Scores!Totals(s)' = TotalsIn(criteria', status', filed', s)
  BY <1>4, <1>5 DEF Scores!Totals, TotalsIn
<1>7. PICK p : p = [r \in Judges |-> IF r \in Scores!Totals(s)'
                                     THEN Scores!ScorecardScore(filed[<<s, r>>])' ELSE 0]
  OBVIOUS
<1>8. p = PartsIn(criteria', status', filed', s)
  BY <1>4, <1>6, <1>7 DEF PartsIn
<1>9. Scores!Mean(s)' = Scores!Over(Scores!Total(p), Scores!Cardinality(Scores!Totals(s)'))
  BY <1>7 DEF Scores!Mean
<1>10. Scores!Mean(s)' = MeanIn(criteria', status', filed', s)
  BY <1>6, <1>8, <1>9, SameSize DEF MeanIn
<1> QED BY <1>10 DEF Scores!Aggregate, AggregateIn

(* A card is None or has answered the criteria.                             *)
CardsFit(cr, fl) == \A x \in Judging : fl[x] = None \/ Answered(cr, fl[x])

LEMMA JudgesCount ==
  ASSUME NEW S \in SUBSET Judges
  PROVE  /\ Cardinality(Judges) \in Nat /\ Judges = 1..Cardinality(Judges)
         /\ IsFiniteSet(S) /\ Cardinality(S) \in Nat /\ (Cardinality(S) = 0 <=> S = {})
         /\ \A r \in Judges : r \notin S => Cardinality(S \cup {r}) = Cardinality(S) + 1
<1>1. IsFiniteSet(S)
  BY ScoresOK, FS_Subset
<1>2. Cardinality(S) \in Nat /\ (Cardinality(S) = 0 <=> S = {})
  BY <1>1, FS_CardinalityType, FS_EmptySet
<1>3. \A r \in Judges : r \notin S => Cardinality(S \cup {r}) = Cardinality(S) + 1
  BY <1>1, FS_AddElement
<1> QED BY <1>1, <1>2, <1>3, ScoresOK, FS_CardinalityType

LEMMA PartsAre ==
  ASSUME NEW cr, NEW n, Asks(cr, n), NEW st, NEW fl, CardsFit(cr, fl), NEW s
  PROVE  /\ TotalsIn(cr, st, fl, s) \subseteq Judges
         /\ \A r \in TotalsIn(cr, st, fl, s) : ScoreIn(cr, fl[<<s, r>>]) \in Int
         /\ PartsIn(cr, st, fl, s) \in [1..Cardinality(Judges) -> Int]
<1>1. TotalsIn(cr, st, fl, s) \subseteq Judges
  BY DEF TotalsIn, CountedIn
<1>2. ASSUME NEW r \in TotalsIn(cr, st, fl, s) PROVE ScoreIn(cr, fl[<<s, r>>]) \in Int
  <2>1. <<s, r>> \in Judging /\ fl[<<s, r>>] # None /\ ScoreIn(cr, fl[<<s, r>>]) # None
    BY DEF TotalsIn, CountedIn
  <2>2. Answered(cr, fl[<<s, r>>])
    BY <2>1 DEF CardsFit
  <2> QED BY <2>1, <2>2, ScoreIs
<1>3. PartsIn(cr, st, fl, s) \in [Judges -> Int]
  BY <1>2 DEF PartsIn
<1> QED BY <1>1, <1>2, <1>3, ScoresOK

LEMMA AggregateIs ==
  ASSUME NEW cr, NEW n, Asks(cr, n), NEW st, NEW fl, CardsFit(cr, fl), NEW s
  PROVE  LET T == Scores!Total(PartsIn(cr, st, fl, s))
             N == Cardinality(TotalsIn(cr, st, fl, s))
         IN  /\ T \in Int /\ N \in Nat /\ (N = 0 => T = 0) /\ (N # 0 => T \div N \in Int)
             /\ (N = 0 => AggregateIn(cr, st, fl, s) = None)
             /\ (N # 0 => /\ AggregateIn(cr, st, fl, s) = Scores!RoundScoreValue(T \div N)
                          /\ AggregateIn(cr, st, fl, s) # None)
<1>1. PICK S \in SUBSET Judges : S = TotalsIn(cr, st, fl, s)
  BY PartsAre
<1>2. PICK m \in Nat : m = Cardinality(Judges) /\ Judges = 1..m
  BY JudgesCount
<1>3. PICK p \in [1..m -> Int] : p = PartsIn(cr, st, fl, s)
  BY <1>2, PartsAre
<1>4. PICK N \in Nat : N = Cardinality(S) /\ (N = 0 <=> S = {})
  BY JudgesCount
<1>5. \A i \in 1..m : 0 * p[i] >= 0 * p[i]
  OBVIOUS
<1>6. Scores!Total(p) \in Int
  BY ONLY <1>5, SumsCompare, m \in Nat, p \in [1..m -> Int], 0 \in Int
<1>7. ASSUME N = 0 PROVE Scores!Total(p) = 0
  <2>1. \A i \in 1..m : p[i] = 0
    BY <1>1, <1>2, <1>3, <1>4, <1>7 DEF PartsIn
  <2>2. \A i \in 1..m : 1 * p[i] >= 0 * p[i]
    BY <2>1
  <2>3. \A i \in 1..m : 0 * p[i] >= 1 * p[i]
    BY <2>1
  <2>4. 1 * Scores!Total(p) >= 0 * Scores!Total(p)
    BY ONLY <2>2, SumsCompare, m \in Nat, p \in [1..m -> Int], 0 \in Int, 1 \in Int
  <2>5. 0 * Scores!Total(p) >= 1 * Scores!Total(p)
    BY ONLY <2>3, SumsCompare, m \in Nat, p \in [1..m -> Int], 0 \in Int, 1 \in Int
  <2> QED BY <1>6, <2>4, <2>5
<1>8. PICK T \in Int : T = Scores!Total(p)
  BY <1>6
<1>9. MeanIn(cr, st, fl, s) = IF N = 0 THEN None ELSE T \div N
  BY <1>1, <1>3, <1>4, <1>8 DEF MeanIn, Scores!Over
<1>10. N # 0 => T \div N \in Int
  BY Floor
<1>11. N # 0 => Scores!RoundScoreValue(T \div N) \in Int
  BY <1>10, RoundsUp
<1>12. N = 0 => AggregateIn(cr, st, fl, s) = None
  BY <1>9 DEF AggregateIn
<1>13. N # 0 => /\ AggregateIn(cr, st, fl, s) = Scores!RoundScoreValue(T \div N)
                /\ AggregateIn(cr, st, fl, s) # None
  BY <1>9, <1>10, <1>11, ScoresOK DEF AggregateIn
<1> QED BY <1>1, <1>3, <1>4, <1>7, <1>8, <1>10, <1>12, <1>13

(* Filing a scorecard where there is none adds its score to the others, and *)
(* filing it again changes none but its own.                                *)
Refiled(st, fl, s, r, st2, fl2, v) ==
  /\ <<s, r>> \in Judging /\ r \in Judges
  /\ st2[<<s, r>>] \notin {"none", "recused"} /\ fl2[<<s, r>>] = v /\ v # None
  /\ \A x \in Judging : x # <<s, r>> => st2[x] = st[x] /\ fl2[x] = fl[x]

LEMMA CountedChanges ==
  ASSUME NEW cr, NEW n, Asks(cr, n), NEW st, NEW fl, NEW s, NEW r, NEW st2, NEW fl2, NEW v,
         Refiled(st, fl, s, r, st2, fl2, v), Answered(cr, v), RatedIn(cr, v) # {}
  PROVE  /\ TotalsIn(cr, st2, fl2, s) = TotalsIn(cr, st, fl, s) \cup {r}
         /\ \A k \in Judges :
              k # r => PartsIn(cr, st2, fl2, s)[k] = PartsIn(cr, st, fl, s)[k]
         /\ PartsIn(cr, st2, fl2, s)[r] = ScoreIn(cr, v)
         /\ r \in Judges /\ ScoreIn(cr, v) \in Int
<1>1. ScoreIn(cr, v) # None /\ ScoreIn(cr, v) \in Int
  BY ScoreIs
<1>2. r \in Judges /\ <<s, r>> \in Judging /\ st2[<<s, r>>] \notin {"none", "recused"} /\ fl2[<<s, r>>] = v /\ v # None
  BY DEF Refiled
<1>3. r \in TotalsIn(cr, st2, fl2, s)
  BY <1>1, <1>2 DEF TotalsIn, CountedIn
<1>4. ASSUME NEW k \in Judges, k # r
      PROVE  /\ k \in TotalsIn(cr, st2, fl2, s) <=> k \in TotalsIn(cr, st, fl, s)
             /\ <<s, k>> \in Judging => fl2[<<s, k>>] = fl[<<s, k>>]
  <2>1. <<s, k>> # <<s, r>>
    BY <1>4
  <2>2. <<s, k>> \in Judging => st2[<<s, k>>] = st[<<s, k>>] /\ fl2[<<s, k>>] = fl[<<s, k>>]
    BY <2>1 DEF Refiled
  <2>3. k \in CountedIn(st2, fl2, s) <=> k \in CountedIn(st, fl, s)
    BY <2>2 DEF CountedIn
  <2>4. k \in CountedIn(st, fl, s) => <<s, k>> \in Judging
    BY DEF CountedIn
  <2> QED BY <2>2, <2>3, <2>4 DEF TotalsIn
<1>5. TotalsIn(cr, st2, fl2, s) \subseteq Judges /\ TotalsIn(cr, st, fl, s) \subseteq Judges
  BY DEF TotalsIn, CountedIn
<1>6. TotalsIn(cr, st2, fl2, s) = TotalsIn(cr, st, fl, s) \cup {r}
  BY <1>3, <1>4, <1>5
<1>7. PartsIn(cr, st2, fl2, s)[r] = ScoreIn(cr, v)
  BY <1>2, <1>3 DEF PartsIn
<1>8. ASSUME NEW k \in Judges, k # r
      PROVE  PartsIn(cr, st2, fl2, s)[k] = PartsIn(cr, st, fl, s)[k]
  <2>1. CASE k \in TotalsIn(cr, st, fl, s)
    <3>1. <<s, k>> \in Judging
      BY <2>1 DEF TotalsIn, CountedIn
    <3> QED BY <1>4, <1>8, <2>1, <3>1 DEF PartsIn
  <2>2. CASE k \notin TotalsIn(cr, st, fl, s)
    BY <1>4, <1>8, <2>2 DEF PartsIn
  <2> QED BY <2>1, <2>2
<1> QED BY <1>1, <1>2, <1>6, <1>7, <1>8

(* A new scorecard draws the aggregate towards its own score.               *)
LEMMA AggregateMoves ==
  ASSUME NEW cr, NEW n, Asks(cr, n), NEW st, NEW fl, NEW s, NEW r, NEW st2, NEW fl2, NEW v,
         Refiled(st, fl, s, r, st2, fl2, v), Answered(cr, v), RatedIn(cr, v) # {},
         CardsFit(cr, fl), CardsFit(cr, fl2), r \notin CountedIn(st, fl, s)
  PROVE  LET own == Scores!RoundScoreValue(ScoreIn(cr, v))
             before == AggregateIn(cr, st, fl, s)
             after == AggregateIn(cr, st2, fl2, s)
         IN  Scores!Between(after, IF before = None THEN own ELSE before, own)
<1>1. PICK S \in SUBSET Judges : S = TotalsIn(cr, st, fl, s) /\ r \notin S
  BY PartsAre DEF TotalsIn
<1>2. PICK m \in Nat : m = Cardinality(Judges) /\ Judges = 1..m
  BY JudgesCount
<1>3. PICK p \in [1..m -> Int] : p = PartsIn(cr, st, fl, s)
  BY <1>2, PartsAre
<1>4. PICK q \in [1..m -> Int] : q = PartsIn(cr, st2, fl2, s)
  BY <1>2, PartsAre
<1>5. PICK x \in Int : x = ScoreIn(cr, v) /\ r \in Judges /\ q[r] = x
  BY <1>4, CountedChanges
<1>6. p[r] = 0
  BY <1>1, <1>3, <1>5 DEF PartsIn
<1>7. \A k \in 1..m : k # r => q[k] = p[k]
  <2>1. \A k \in Judges :
          k # r => PartsIn(cr, st2, fl2, s)[k] = PartsIn(cr, st, fl, s)[k]
    BY CountedChanges
  <2> QED BY <1>2, <1>3, <1>4, <2>1
<1>8. PICK T \in Int, N \in Nat :
        T = Scores!Total(p) /\ N = Cardinality(S) /\ (N = 0 => T = 0)
        /\ (N = 0 => AggregateIn(cr, st, fl, s) = None)
        /\ (N # 0 => /\ AggregateIn(cr, st, fl, s) = Scores!RoundScoreValue(T \div N)
                     /\ AggregateIn(cr, st, fl, s) # None)
  BY <1>1, <1>3, AggregateIs
<1>9. Scores!Total(q) = T + (q[r] - p[r])
  <2>1. r \in 1..m
    BY <1>2, <1>5
  <2>2. Scores!Total(q) = Scores!Total(p) + (q[r] - p[r])
    BY ONLY <1>7, <2>1, SumChanges, m \in Nat, p \in [1..m -> Int], q \in [1..m -> Int]
  <2> QED BY <1>8, <2>2
<1>10. Scores!Total(q) = T + x
  BY <1>5, <1>6, <1>9
<1>11. Cardinality(TotalsIn(cr, st2, fl2, s)) = N + 1
  <2>1. TotalsIn(cr, st2, fl2, s) = S \cup {r}
    BY <1>1, CountedChanges
  <2> QED BY <1>1, <1>5, <1>8, <2>1, JudgesCount
<1>12. AggregateIn(cr, st2, fl2, s) = Scores!RoundScoreValue((T + x) \div (N + 1))
  <2>1. PICK y \in Int, z \in Nat :
          /\ y = Scores!Total(q) /\ z = Cardinality(TotalsIn(cr, st2, fl2, s))
          /\ z # 0 => AggregateIn(cr, st2, fl2, s) = Scores!RoundScoreValue(y \div z)
    BY <1>4, AggregateIs
  <2>2. y = T + x /\ z = N + 1 /\ z # 0
    BY <1>8, <1>10, <1>11, <2>1
  <2> QED BY <2>1, <2>2
<1>13. CASE N = 0
  <2>1. (T + x) \div (N + 1) = x
    BY <1>8, <1>13, MeanMoves
  <2>2. Scores!RoundScoreValue(x) \in Int
    BY RoundsUp
  <2> QED BY <1>5, <1>8, <1>12, <1>13, <2>1, <2>2 DEF Scores!Between
<1>14. CASE N # 0
  <2>1. PICK a \in Int, b \in Int :
          a = T \div N /\ b = (T + x) \div (N + 1) /\ Scores!Between(b, a, x)
    <3>1. N = 0 => T = 0
      BY <1>8
    <3>2. /\ T \div N \in Int /\ (T + x) \div (N + 1) \in Int
          /\ Scores!Between((T + x) \div (N + 1), T \div N, x)
      BY ONLY <1>14, <3>1, MeanMoves, T \in Int, N \in Nat, x \in Int
    <3> QED BY <3>2
  <2>2. Scores!Between(Scores!RoundScoreValue(b), Scores!RoundScoreValue(a), Scores!RoundScoreValue(x))
    BY <2>1, RoundsUp DEF Scores!Between
  <2> QED BY <1>5, <1>8, <1>12, <1>14, <2>1, <2>2
<1> QED BY <1>13, <1>14

(* A scorecard filed again with no rating lower lowers no aggregate.        *)
LEMMA AggregateGrows ==
  ASSUME NEW cr, NEW n, Asks(cr, n), NEW st, NEW fl, NEW s, NEW r, NEW st2, NEW fl2, NEW v,
         Refiled(st, fl, s, r, st2, fl2, v), Answered(cr, v), RatedIn(cr, v) # {},
         CardsFit(cr, fl), CardsFit(cr, fl2), r \in CountedIn(st, fl, s),
         \A i \in RatedIn(cr, v) : fl[<<s, r>>][i] <= v[i]
  PROVE  AggregateIn(cr, st, fl, s) <= AggregateIn(cr, st2, fl2, s)
<1>1. PICK u : u = fl[<<s, r>>]
  OBVIOUS
<1>2. <<s, r>> \in Judging /\ u # None /\ Answered(cr, u)
  BY <1>1 DEF CountedIn, CardsFit
<1>3. RatedIn(cr, u) # {} /\ ScoreIn(cr, u) <= ScoreIn(cr, v)
  BY <1>1, <1>2, ScoreGrows
<1>4. ScoreIn(cr, u) \in Int /\ ScoreIn(cr, u) # None
  BY <1>2, <1>3, ScoreIs
<1>5. r \in TotalsIn(cr, st, fl, s) /\ TotalsIn(cr, st2, fl2, s) = TotalsIn(cr, st, fl, s)
  BY <1>1, <1>4, CountedChanges DEF TotalsIn
<1>6. PICK m \in Nat : m = Cardinality(Judges) /\ Judges = 1..m
  BY JudgesCount
<1>7. PICK p \in [1..m -> Int] : p = PartsIn(cr, st, fl, s)
  BY <1>6, PartsAre
<1>8. PICK q \in [1..m -> Int] : q = PartsIn(cr, st2, fl2, s)
  BY <1>6, PartsAre
<1>9. r \in Judges /\ p[r] = ScoreIn(cr, u) /\ q[r] = ScoreIn(cr, v) /\ ScoreIn(cr, v) \in Int
  BY <1>1, <1>5, <1>7, <1>8, CountedChanges DEF PartsIn
<1>10. \A k \in 1..m : 1 * q[k] >= 1 * p[k]
  <2> SUFFICES ASSUME NEW k \in 1..m PROVE 1 * q[k] >= 1 * p[k]
    OBVIOUS
  <2>1. CASE k = r
    BY <1>3, <1>4, <1>9, <2>1
  <2>2. CASE k # r
    <3>0. \A i \in Judges :
            i # r => PartsIn(cr, st2, fl2, s)[i] = PartsIn(cr, st, fl, s)[i]
      BY CountedChanges
    <3>1. q[k] = p[k]
      BY <1>6, <1>7, <1>8, <2>2, <3>0
    <3> QED BY <3>1
  <2> QED BY <2>1, <2>2
<1>11. /\ Scores!Total(p) \in Int /\ Scores!Total(q) \in Int
       /\ 1 * Scores!Total(q) >= 1 * Scores!Total(p)
  BY ONLY <1>10, SumsCompare, m \in Nat, p \in [1..m -> Int], q \in [1..m -> Int], 1 \in Int
<1>12. PICK S \in SUBSET Judges : S = TotalsIn(cr, st, fl, s)
  BY PartsAre
<1>13. PICK N \in Nat \ {0} : N = Cardinality(S)
  BY <1>5, <1>12, JudgesCount
<1>14. PICK a \in Int, b \in Int : a = Scores!Total(p) /\ b = Scores!Total(q) /\ a <= b
  BY <1>11
<1>15. /\ AggregateIn(cr, st, fl, s) = Scores!RoundScoreValue(a \div N)
       /\ AggregateIn(cr, st2, fl2, s) = Scores!RoundScoreValue(b \div N)
  BY <1>5, <1>7, <1>8, <1>12, <1>13, <1>14, AggregateIs
<1>16. PICK k \in Int : k = a \div N
  BY Floor
<1>17. a >= k * N /\ k * N \in Int
  BY <1>16, Floor, Larger
<1>18. b \div N >= k /\ b \div N \in Int
  BY <1>14, <1>17, Floor
<1> QED BY <1>15, <1>16, <1>18, RoundsUp

----------------------------------------------------------------------------
(* What the builder leaves is a scale that goes up and a weight, whatever   *)
(* was typed.                                                               *)
Builder == [labelled : BOOLEAN, type : STRING, min : Int, max : Int, weight : Int]
LEMMA RowNormalized == ASSUME NEW d \in Builder PROVE Scores!Normalized(d) \in Criterion
<1>1. d.type \in STRING /\ d.min \in Int /\ d.max \in Int /\ d.weight \in Int
  BY DEF Builder
<1> QED BY <1>1 DEF Scores!Normalized, Criterion

LEMMA RowsNormalized ==
  ASSUME NEW kit \in Kits
  PROVE  \E n \in Nat : Asks(Scores!NormalizeCriteria(kit), n)
<1>0. kit \in Seq(Builder)
  BY ScoresOK DEF Builder
<1>1. PICK n \in Nat : n = Len(kit)
  BY <1>0
<1> DEFINE Eq(f, k) ==
             f = [i \in 0..k |->
                    IF i = 0 THEN <<>>
                    ELSE IF kit[i].labelled THEN Append(f[i - 1], Scores!Normalized(kit[i])) ELSE f[i - 1]]
           Made(k) == \E f : Eq(f, k)
<1>2. Made(0)
  <2>1. PICK f : f = [i \in 0..0 |-> <<>>]
    OBVIOUS
  <2>2. Eq(f, 0)
    BY <2>1
  <2> QED BY <2>2
<1>3. ASSUME NEW k \in Nat, k < n, Made(k) PROVE Made(k + 1)
  <2> DEFINE Going(was, i) ==
               IF kit[i].labelled THEN Append(was, Scores!Normalized(kit[i])) ELSE was
  <2>1. PICK f : Eq(f, k)
    BY <1>3
  <2>2. PICK g : g = [i \in 0..(k + 1) |-> IF i <= k THEN f[i] ELSE Going(f[k], i)]
    OBVIOUS
  <2>3. \A i \in 0..k : f[i] = IF i = 0 THEN <<>> ELSE Going(f[i - 1], i)
    BY <2>1
  <2> HIDE DEF Going
  <2>4. \A i \in 0..(k + 1) : g[i] = IF i = 0 THEN <<>> ELSE Going(g[i - 1], i)
    <3> SUFFICES ASSUME NEW i \in 0..(k + 1) PROVE g[i] = IF i = 0 THEN <<>> ELSE Going(g[i - 1], i)
      OBVIOUS
    <3>1. CASE i <= k
      <4>1. i \in 0..k /\ g[i] = f[i] /\ (i # 0 => i - 1 \in 0..(k + 1) /\ i - 1 <= k)
        BY <1>3, <2>2, <3>1
      <4>2. i # 0 => g[i - 1] = f[i - 1]
        BY <2>2, <4>1
      <4> QED BY <2>3, <4>1, <4>2
    <3>2. CASE ~(i <= k)
      <4>1. i = k + 1 /\ i # 0 /\ i - 1 = k /\ k \in 0..(k + 1) /\ k <= k
        BY <1>3, <3>2
      <4> QED BY <2>2, <3>2, <4>1
    <3> QED BY <3>1, <3>2
  <2>5. g = [i \in 0..(k + 1) |-> IF i = 0 THEN <<>> ELSE Going(g[i - 1], i)]
    BY <2>2, <2>4
  <2>6. Eq(g, k + 1)
    BY <2>5 DEF Going
  <2> QED BY <2>6
<1>4. Made(n)
  <2> HIDE DEF Made
  <2>1. PICK T : T = {k \in Nat : Made(k)}
    OBVIOUS
  <2>2. 0 \in T /\ \A k \in Nat : k < n /\ k \in T => k + 1 \in T
    BY <1>2, <1>3, <2>1
  <2>3. n \in T
    BY ONLY <2>2, Climbs, n \in Nat
  <2> QED BY <2>1, <2>3
<1>5. PICK g : g = CHOOSE f : Eq(f, n)
  OBVIOUS
<1>6. Eq(g, n)
  BY <1>4, <1>5
<1>7. Scores!NormalizeCriteria(kit) = g[n]
  BY <1>1, <1>5 DEF Scores!NormalizeCriteria
<1>8. \A i \in 0..n :
        g[i] = IF i = 0 THEN <<>>
               ELSE IF kit[i].labelled THEN Append(g[i - 1], Scores!Normalized(kit[i])) ELSE g[i - 1]
  BY <1>6
<1> HIDE DEF Eq
<1>9. PICK T : T = {k \in Nat : g[k] \in Seq(Criterion)}
  OBVIOUS
<1>10. 0 \in T
  <2>1. g[0] = <<>>
    BY <1>1, <1>8
  <2>2. <<>> \in Seq(Criterion)
    OBVIOUS
  <2>3. g[0] \in Seq(Criterion)
    BY <2>1, <2>2
  <2> QED BY <1>9, <2>3
<1>11. ASSUME NEW k \in Nat, k < n, k \in T PROVE k + 1 \in T
  <2>1. k + 1 \in 0..n /\ k + 1 # 0 /\ (k + 1) - 1 = k /\ k + 1 \in 1..Len(kit)
    BY <1>1, <1>11
  <2>2. g[k + 1] = IF kit[k + 1].labelled THEN Append(g[k], Scores!Normalized(kit[k + 1])) ELSE g[k]
    BY <1>8, <2>1
  <2>3. kit[k + 1] \in Builder
    BY <1>0, <2>1
  <2>4. Scores!Normalized(kit[k + 1]) \in Criterion
    BY <2>3, RowNormalized
  <2>5. g[k] \in Seq(Criterion)
    BY <1>9, <1>11
  <2>6. Append(g[k], Scores!Normalized(kit[k + 1])) \in Seq(Criterion)
    BY <2>4, <2>5
  <2>7. g[k + 1] \in Seq(Criterion)
    BY <2>2, <2>5, <2>6
  <2>8. k + 1 \in Nat
    OBVIOUS
  <2> QED BY <1>9, <2>7, <2>8
<1>12. n \in T
  BY ONLY <1>10, <1>11, Climbs, n \in Nat
<1>13. PICK c \in Seq(Criterion) : c = Scores!NormalizeCriteria(kit)
  BY <1>7, <1>9, <1>12
<1>14. c \in [1..Len(c) -> Criterion] /\ Len(c) \in Nat
  BY LenProperties
<1> QED BY <1>13, <1>14 DEF Asks

(* The criteria are of that kind, and a card has answered them: they stay   *)
(* as they are once there is one.                                           *)
ScoreInv ==
  /\ \E n \in Nat : Asks(criteria, n)
  /\ DOMAIN status = Judging /\ DOMAIN filed = Judging
  /\ CardsFit(criteria, filed)

LEMMA ScoreInit == Scores!Init => ScoreInv
<1> SUFFICES ASSUME Scores!Init PROVE ScoreInv
  OBVIOUS
<1>1. \E n \in Nat : Asks(criteria, n)
  BY RowsNormalized DEF Scores!Init
<1> QED BY <1>1 DEF Scores!Init, ScoreInv, CardsFit

LEMMA ChangesFit ==
  ASSUME ScoreInv, NEW x \in Judging, NEW st, NEW v, v = None \/ Answered(criteria, v),
         Scores!Change(x, st, v)
  PROVE  ScoreInv'
<1>1. criteria' = criteria /\ status' = [status EXCEPT ![x] = st] /\ filed' = [filed EXCEPT ![x] = v]
  BY DEF Scores!Change
<1>2. DOMAIN status' = Judging /\ DOMAIN filed' = Judging
  BY <1>1 DEF ScoreInv
<1>3. ASSUME NEW y \in Judging PROVE filed'[y] = None \/ Answered(criteria, filed'[y])
  BY <1>1 DEF ScoreInv, CardsFit
<1> QED BY <1>1, <1>2, <1>3 DEF ScoreInv, CardsFit

LEMMA AnswersGiven ==
  ASSUME NEW v \in Scores!Answers
  PROVE  Answered(criteria, v)
BY DEF Answered, Scores!Answers

LEMMA ScoreNext == ScoreInv /\ [Scores!Next]_Scores!resultVars => ScoreInv'
<1> SUFFICES ASSUME ScoreInv, [Scores!Next]_Scores!resultVars PROVE ScoreInv'
  OBVIOUS
<1>1. CASE UNCHANGED <<criteria, status, filed>>
  BY <1>1 DEF ScoreInv
<1>2. ASSUME NEW kit \in Kits, Scores!UpdateRound(kit) PROVE ScoreInv'
  <2>1. status' = status /\ filed' = filed /\ \A x \in Judging : filed'[x] = None
    BY <1>2 DEF Scores!UpdateRound
  <2>2. \E n \in Nat : Asks(criteria', n)
    BY <1>2, RowsNormalized DEF Scores!UpdateRound
  <2> QED BY <2>1, <2>2 DEF ScoreInv, CardsFit
<1>3. ASSUME NEW x \in Judging, Scores!Assign(x) \/ Scores!Unassign(x) PROVE ScoreInv'
  BY <1>3, ChangesFit DEF Scores!Assign, Scores!Unassign
<1>4. ASSUME NEW x \in Judging, Scores!RecuseFromSubmission(x) PROVE ScoreInv'
  BY <1>4, ChangesFit DEF Scores!RecuseFromSubmission, ScoreInv, CardsFit
<1>5. ASSUME NEW x \in Judging, NEW v \in Scores!Answers, Scores!SaveScore(x, v) PROVE ScoreInv'
  BY <1>5, ChangesFit, AnswersGiven DEF Scores!SaveScore
<1>6. ASSUME NEW x \in Judging, Scores!MarkDone(x) PROVE ScoreInv'
  BY <1>6, ChangesFit DEF Scores!MarkDone, ScoreInv, CardsFit
<1> QED BY <1>1, <1>2, <1>3, <1>4, <1>5, <1>6
        DEF Scores!Next, Scores!resultVars, Scores!RemindReviewers, Scores!ListScores, Scores!Deliver,
            Scores!Finish

(* A scorecard comes to count, or counts otherwise, by a step that concerns *)
(* no other and no criteria.                                                *)
LEMMA ComesAlone ==
  ASSUME ScoreInv, [Scores!Next]_Scores!resultVars, NEW s, NEW r, <<s, r>> \in Judging, r \in Judges,
         r \in CountedIn(status', filed', s),
         r \in CountedIn(status, filed, s) => filed'[<<s, r>>] # filed[<<s, r>>]
  PROVE  criteria' = criteria /\ Refiled(status, filed, s, r, status', filed', filed'[<<s, r>>])
<1>1. PICK x \in Judging : x = <<s, r>>
  OBVIOUS
<1>2. /\ status'[x] \notin {"none", "recused"} /\ filed'[x] # None
      /\ ~(status'[x] = status[x] /\ filed'[x] = filed[x])
  BY <1>1 DEF CountedIn
<1>3. ASSUME NEW y \in Judging, NEW st, NEW v, Scores!Change(y, st, v)
      PROVE  criteria' = criteria /\ Refiled(status, filed, s, r, status', filed', filed'[<<s, r>>])
  <2>1. criteria' = criteria /\ \A z \in Judging : z # y => status'[z] = status[z] /\ filed'[z] = filed[z]
    BY <1>3 DEF Scores!Change, ScoreInv
  <2>2. x = y
    BY <1>2, <2>1
  <2> QED BY <1>1, <1>2, <2>1, <2>2 DEF Refiled
<1>4. CASE UNCHANGED <<status, filed>>
  BY <1>2, <1>4
<1>5. ASSUME NEW kit \in Kits, Scores!UpdateRound(kit) PROVE FALSE
  BY <1>2, <1>5 DEF Scores!UpdateRound
<1>6. ASSUME NEW y \in Judging,
             \/ Scores!Assign(y) \/ Scores!Unassign(y) \/ Scores!RecuseFromSubmission(y)
             \/ (\E v \in Scores!Answers : Scores!SaveScore(y, v)) \/ Scores!MarkDone(y)
      PROVE  \E st, v : Scores!Change(y, st, v)
  BY <1>6 DEF Scores!Assign, Scores!Unassign, Scores!RecuseFromSubmission, Scores!SaveScore, Scores!MarkDone
<1> QED BY <1>3, <1>4, <1>5, <1>6
        DEF Scores!Next, Scores!resultVars, Scores!RemindReviewers, Scores!ListScores, Scores!Deliver,
            Scores!Finish

LEMMA FairStep ==
  ASSUME ScoreInv, [Scores!Next]_Scores!resultVars, NEW x \in Judging, Scores!Comes(x)
  PROVE  Scores!FiledFairly(x[1], x[2])
<1>1. PICK s \in Judged, r \in Judges : x = <<s, r>>
  BY ScoresOK
<1>2. PICK v : v = filed'[x]
  OBVIOUS
<1>3. criteria' = criteria /\ Refiled(status, filed, s, r, status', filed', v)
  <2>1. Scores!Counted(s)' = CountedIn(status', filed', s)
    BY DEF Scores!Counted, CountedIn, Scores!Required, Scores!Assigned, Scores!Recused, Scores!Filed
  <2>2. /\ r \in CountedIn(status', filed', s)
        /\ r \in CountedIn(status, filed, s) => filed'[x] # filed[x]
    BY <1>1, <2>1, CountedAre DEF Scores!Comes, Scores!Counts
  <2> QED BY <1>1, <1>2, <2>2, ComesAlone
<1>4. v # None /\ Answered(criteria, v)
  <2>1. CardsFit(criteria', filed') /\ filed'[<<s, r>>] = v /\ v # None
    BY <1>1, <1>3, ScoreNext DEF ScoreInv, Refiled
  <2> QED BY <1>1, <1>3, <2>1 DEF CardsFit
<1>5. PICK n \in Nat : Asks(criteria, n)
  BY DEF ScoreInv
<1>6. CardsFit(criteria, filed) /\ CardsFit(criteria, filed')
  BY <1>3, ScoreNext DEF ScoreInv
<1>7. PICK cr, st, fl, st2, fl2 :
        cr = criteria /\ st = status /\ fl = filed /\ st2 = status' /\ fl2 = filed'
  OBVIOUS
<1>8. PICK own : own = Scores!RoundScoreValue(ScoreIn(cr, v))
  OBVIOUS
<1>9. PICK before, after : before = AggregateIn(cr, st, fl, s) /\ after = AggregateIn(cr, st2, fl2, s)
  OBVIOUS
<1>10. Scores!Aggregate(s) = before /\ Scores!Aggregate(s)' = after
  BY <1>3, <1>7, <1>9, AggregatesAre, AggregateNext
<1>11. Scores!Rated(v) = RatedIn(cr, v) /\ Scores!ScorecardScore(v) = ScoreIn(cr, v)
       /\ Scores!Counted(s) = CountedIn(st, fl, s)
  BY <1>7, ScoresAre, CountedAre
<1>12. ASSUME RatedIn(cr, v) # {}
       PROVE  \E i \in RatedIn(cr, v), j \in RatedIn(cr, v) :
                Scores!Tenths(i, v[i]) <= own /\ own <= Scores!Tenths(j, v[j])
  <2>1. PICK i \in RatedIn(cr, v), j \in RatedIn(cr, v) :
          /\ Worth(cr, v, i) \in Int /\ Worth(cr, v, j) \in Int
          /\ Worth(cr, v, i) <= ScoreIn(cr, v) /\ ScoreIn(cr, v) <= Worth(cr, v, j)
    BY <1>4, <1>5, <1>7, <1>12, ScoreWithin
  <2>2. ScoreIn(cr, v) \in Int
    BY <1>4, <1>5, <1>7, <1>12, ScoreIs
  <2>3. /\ Scores!RoundScoreValue(Worth(cr, v, i)) <= own
        /\ own <= Scores!RoundScoreValue(Worth(cr, v, j))
    BY <1>8, <2>1, <2>2, RoundsUp
  <2> QED BY <1>7, <2>1, <2>3 DEF Scores!Tenths, Worth
<1>13. ASSUME RatedIn(cr, v) # {}, r \notin CountedIn(st, fl, s)
       PROVE  Scores!Between(after, IF before = None THEN own ELSE before, own)
  BY <1>3, <1>4, <1>5, <1>6, <1>7, <1>8, <1>9, <1>13, AggregateMoves
<1>14. ASSUME RatedIn(cr, v) # {}, r \in CountedIn(st, fl, s),
              \A i \in RatedIn(cr, v) : filed[<<s, r>>][i] <= v[i]
       PROVE  before <= after
  BY <1>3, <1>4, <1>5, <1>6, <1>7, <1>9, <1>14, AggregateGrows
<1>15. x[1] = s /\ x[2] = r /\ filed'[<<s, r>>] = v
  BY <1>1, <1>2
<1> QED BY <1>8, <1>10, <1>11, <1>12, <1>13, <1>14, <1>15 DEF Scores!FiledFairly

(* A scorecard pulls the aggregate of its proposal towards its own score,   *)
(* which is none of it outside its ratings, and raising ratings never       *)
(* lowers the aggregate, whatever the scales and weights, however many      *)
(* reviewers there are (scorecardScore, mean).                              *)
THEOREM ScoresStayFair == Scores!Spec => Scores!ScoresAreFair
<1>1. ScoreInv /\ [Scores!Next]_Scores!resultVars => ScoreInv'
  BY ScoreNext
<1>2. ScoreInv /\ [Scores!Next]_Scores!resultVars =>
        [\A x \in Judging :
           Scores!Comes(x) => Scores!FiledFairly(x[1], x[2])]_Scores!resultVars
  BY FairStep
<1> QED BY <1>1, <1>2, ScoreInit, PTL DEF Scores!Spec, Scores!ScoresAreFair

(* The same of the scores among the parts that are checked together.        *)
THEOREM ScoresAlwaysFair == Outside => ScoresAreFair
<1> DEFINE Stays == setting = "scores" => ScoreInv
<1>1. Begins => Stays
  BY ScoreInit DEF Begins, Settle
<1>2. ASSUME setting' = "scores", [Steps]_<<reviewing, outside>>
      PROVE  setting = "scores" /\ [Scores!Next]_Scores!resultVars
  <2>1. setting = "scores"
    BY <1>2 DEF Steps, Work, reviewing
  <2> QED BY <1>2, <2>1 DEF Steps, Work, reviewing, results, Scores!resultVars
<1>3. Stays /\ [Steps]_<<reviewing, outside>> => Stays'
  BY <1>2, ScoreNext
<1>4. Stays /\ [Steps]_<<reviewing, outside>> =>
        [\A x \in Judging :
           setting = "scores" /\ Scores!Comes(x)
           => Scores!FiledFairly(x[1], x[2])]_<<setting, results>>
  <2> SUFFICES ASSUME Stays, [Steps]_<<reviewing, outside>>, NEW x \in Judging,
                      setting = "scores", Scores!Comes(x)
               PROVE  Scores!FiledFairly(x[1], x[2])
    OBVIOUS
  <2>1. setting' = "scores"
    BY DEF Steps, Work, reviewing
  <2> QED BY <1>2, <2>1, FairStep
<1> HIDE DEF Stays
<1> QED BY <1>1, <1>3, <1>4, PTL DEF Outside, ScoresAreFair
=============================================================================
