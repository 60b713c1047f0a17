---------------------------- MODULE ReviewRounds ----------------------------
(***************************************************************************)
(* One review round: its scorecard criteria, who is assigned what, and the *)
(* scorecards they file.  The organizer edits and deletes the round and    *)
(* hands work out and takes it back; reviewers file and revise scorecards  *)
(* or recuse themselves.  Deleting an assignment, or the round, takes the  *)
(* filed scorecards along through the schema's cascades.                   *)
(*                                                                         *)
(* A request is a sequence of single D1 statements; other requests run in  *)
(* between.  Each action is one statement or one group of reads.  The      *)
(* clock does not pass the round's dates while a request runs.             *)
(***************************************************************************)
EXTENDS Naturals, FiniteSets

CONSTANTS
  Requests,   \* requests: each runs at most once
  Slots,      \* (submission, reviewer) pairs of the round
  Criteria,   \* the scorecards the round may ask for
  Original,   \* the creator of a row older than every request
  None,       \* no row, no scorecard, no round
  Kinds,      \* what requests may ask for
  Serial,     \* TRUE: a request starts only when none is running
  MayFail     \* TRUE: a request may stop between any two statements

ASSUME ConstantsOK ==
  /\ Original \notin Requests
  /\ None \notin Requests \cup {Original} \cup Criteria \cup Slots
  /\ Kinds \subseteq {"edit", "delete", "assign", "unassign", "score", "recuse"}
  /\ Serial \in BOOLEAN /\ MayFail \in BOOLEAN

VARIABLES
  round,   \* review_rounds: its criteria (None once deleted), and whether open
  row,     \* round_assignments: the row of each slot
  card,    \* round_scores: the criteria the slot's scorecard answers, or None
  req      \* the requests' own state

vars == <<round, row, card, req>>
db == <<round, row, card>>

(* A row's id is the request that created it: a row deleted and created     *)
(* again has another id.                                                   *)
Ids == Requests \cup {Original}
NoRow == [id |-> None, st |-> "none"]
Assignment == [id : Ids, st : {"pending", "done", "recused"}]
RowIds == Slots \X Ids

Ended == {"done", "refused", "failed"}
Labels ==
  {"idle", "list", "scores", "update", "remove", "find", "insert", "mine",
   "save", "status", "recuse", "unassign", "unscored"} \cup Ended

Request ==
  [pc : Labels,                     \* the statement it runs next
   kind : Kinds \cup {"none"},
   slot : Slots \cup {None},        \* the assignment it is about
   id : Ids \cup {None},            \* the row it found there
   asks : Criteria \cup {None},     \* the criteria to save, or to answer
   opens : BOOLEAN,                 \* the window to save, or the one it read
   confirmed : BOOLEAN,             \* the organizer accepts losing scorecards
   todo : SUBSET Slots,             \* slots to assign
   listed : SUBSET RowIds]          \* assignments it listed

TypeOK ==
  /\ round \in [criteria : Criteria \cup {None}, open : BOOLEAN]
  /\ row \in [Slots -> Assignment \cup {NoRow}]
  /\ card \in [Slots -> Criteria \cup {None}]
  /\ req \in [Requests -> Request]

Idle ==
  [pc |-> "idle", kind |-> "none", slot |-> None, id |-> None, asks |-> None,
   opens |-> FALSE, confirmed |-> FALSE, todo |-> {}, listed |-> {}]

InFlight == {r \in Requests : req[r].pc \notin {"idle"} \cup Ended}
Exists == round.criteria # None

(* A round under way: some slots assigned, scored or recused. *)
Init ==
  /\ round \in [criteria : Criteria, open : BOOLEAN]
  /\ row \in [Slots -> {NoRow} \cup
                       [id : {Original}, st : {"pending", "done", "recused"}]]
  /\ card \in [Slots -> {round.criteria, None}]
  /\ \A s \in Slots : /\ row[s].st = "done" => card[s] # None
                      /\ row[s].st \in {"none", "pending"} => card[s] = None
  /\ req = [r \in Requests |-> Idle]

----------------------------------------------------------------------------
At(r, label) == req[r].pc = label
(* A request that ends forgets what it read. *)
Resting(q) == IF q.pc \in Ended THEN [Idle EXCEPT !.pc = q.pc] ELSE q
Set(r, q) == req' = [req EXCEPT ![r] = Resting(q)]
Goto(r, label) == Set(r, [req[r] EXCEPT !.pc = label])

(* Every request reads the round first and is refused without one.         *)
Open(r, kind) ==
  /\ kind \in Kinds /\ At(r, "idle") /\ Exists
  /\ Serial => InFlight = {}

(* Mutant: nobody asks for the lock *)
AlwaysUnlocked(criteria) == "update"

(* updateRound: criteriaEqual to those read just now, or the lock is asked *)
AfterRead(criteria) == IF criteria = round.criteria THEN "update" ELSE "list"

UpdateRound(r, criteria, open) ==
  /\ Open(r, "edit")
  /\ Set(r, [Idle EXCEPT !.pc = AfterRead(criteria), !.kind = "edit",
                         !.asks = criteria, !.opens = open])
  /\ UNCHANGED db

DeleteRound(r, confirmed) ==
  /\ Open(r, "delete")
  /\ Set(r, [Idle EXCEPT !.pc = IF confirmed THEN "remove" ELSE "list",
                         !.kind = "delete", !.confirmed = confirmed])
  /\ UNCHANGED db

(* assignSubmissions and assignTrack, for submissions the reviewer may have *)
Assign(r, slots) ==
  /\ Open(r, "assign") /\ slots # {}
  /\ Set(r, [Idle EXCEPT !.pc = "find", !.kind = "assign", !.todo = slots])
  /\ UNCHANGED db

(* The assignment is read along with the round. *)
UnassignSubmission(r, s, confirmed) ==
  /\ Open(r, "unassign") /\ row[s] # NoRow
  /\ Set(r, [Idle EXCEPT !.pc = IF confirmed THEN "unassign" ELSE "unscored",
                         !.kind = "unassign", !.slot = s, !.id = row[s].id,
                         !.confirmed = confirmed])
  /\ UNCHANGED db

(* requireOwnAssignment: the round first... *)
SubmitScorecard(r, s) ==
  /\ Open(r, "score")
  /\ Set(r, [Idle EXCEPT !.pc = "mine", !.kind = "score", !.slot = s,
                         !.asks = round.criteria, !.opens = round.open])
  /\ UNCHANGED db

RecuseFromSubmission(r, s) ==
  /\ Open(r, "recuse")
  /\ Set(r, [Idle EXCEPT !.pc = "mine", !.kind = "recuse", !.slot = s])
  /\ UNCHANGED db

(* ... then the caller's assignments, then isRoundOpen and the validation   *)
(* against the criteria read before                                        *)
AfterMine(q) ==
  IF row[q.slot] = NoRow THEN "refused"
  ELSE IF q.kind = "recuse" THEN "recuse"
  ELSE IF q.opens THEN "save" ELSE "refused"

ReadMine(r) ==
  /\ At(r, "mine")
  /\ Set(r, [req[r] EXCEPT !.id = row[req[r].slot].id, !.pc = AfterMine(req[r])])
  /\ UNCHANGED db

----------------------------------------------------------------------------
(* roundHasScorecards: the round's assignments, then their scorecards *)

Unlocked(q) == IF q.kind = "edit" THEN "update" ELSE "remove"

ListAssignments(r) ==
  /\ At(r, "list")
  /\ LET listed == {x \in RowIds : row[x[1]].id = x[2]}
     IN Set(r, [req[r] EXCEPT !.listed = listed,
                              !.pc = IF listed = {} THEN Unlocked(req[r]) ELSE "scores"])
  /\ UNCHANGED db

Scored(listed) == \E x \in listed : row[x[1]].id = x[2] /\ card[x[1]] # None

ReadScores(r) ==
  /\ At(r, "scores")
  /\ Goto(r, IF Scored(req[r].listed) THEN "refused" ELSE Unlocked(req[r]))
  /\ UNCHANGED db

(* reviewRounds.update, which finds no row once the round is deleted *)
Update(r) ==
  /\ At(r, "update")
  /\ IF Exists
     THEN /\ round' = [criteria |-> req[r].asks, open |-> req[r].opens]
          /\ Goto(r, "done")
     ELSE round' = round /\ Goto(r, "failed")
  /\ UNCHANGED <<row, card>>

(* reviewRounds.delete: everything in the round cascades *)
Remove(r) ==
  /\ At(r, "remove")
  /\ round' = [round EXCEPT !.criteria = None]
  /\ row' = [s \in Slots |-> NoRow]
  /\ card' = [s \in Slots |-> None]
  /\ Goto(r, "done")

(* reviewRounds.assign for each submission: a lookup, then an INSERT that   *)
(* the unique index and the foreign key to the round may refuse            *)
AfterAssign(todo) == IF todo = {} THEN "done" ELSE "find"

(* Mutant: assigning again reopens the assignment *)
FindAndReset(r) ==
  /\ At(r, "find")
  /\ \E s \in req[r].todo :
       IF row[s] # NoRow
       THEN /\ row' = [row EXCEPT ![s].st = "pending"]
            /\ Set(r, [req[r] EXCEPT !.todo = @ \ {s}, !.pc = AfterAssign(req[r].todo \ {s})])
       ELSE row' = row /\ Set(r, [req[r] EXCEPT !.slot = s, !.pc = "insert"])
  /\ UNCHANGED <<round, card>>

FindAssignment(r) ==
  /\ At(r, "find")
  /\ \E s \in req[r].todo :
       IF row[s] # NoRow
       THEN Set(r, [req[r] EXCEPT !.todo = @ \ {s}, !.pc = AfterAssign(req[r].todo \ {s})])
       ELSE Set(r, [req[r] EXCEPT !.slot = s, !.pc = "insert"])
  /\ UNCHANGED db

InsertAssignment(r) ==
  /\ At(r, "insert")
  /\ LET s == req[r].slot
         todo == req[r].todo \ {s}
     IN IF Exists /\ row[s] = NoRow
        THEN /\ row' = [row EXCEPT ![s] = [id |-> r, st |-> "pending"]]
             /\ Set(r, [req[r] EXCEPT !.todo = todo, !.pc = AfterAssign(todo)])
        ELSE row' = row /\ Goto(r, "failed")
  /\ UNCHANGED <<round, card>>

(* Is the row the request found still the slot's row? *)
Stands(q) == row[q.slot] # NoRow /\ row[q.slot].id = q.id
Emptied(s) == /\ row' = [row EXCEPT ![s] = NoRow]
              /\ card' = [card EXCEPT ![s] = None]

(* reviewRounds.unassign: by id, with the scorecard *)
Unassign(r) ==
  /\ At(r, "unassign")
  /\ IF Stands(req[r]) THEN Emptied(req[r].slot) ELSE UNCHANGED <<row, card>>
  /\ Goto(r, "done")
  /\ UNCHANGED round

(* Mutant: the condition looks at the status in place of the scorecard *)
UnassignIfPending(r) ==
  /\ At(r, "unscored")
  /\ IF Stands(req[r]) /\ row[req[r].slot].st = "pending"
     THEN Emptied(req[r].slot) /\ Goto(r, "done")
     ELSE UNCHANGED <<row, card>> /\ Goto(r, "refused")
  /\ UNCHANGED round

(* reviewRounds.unassignIfUnscored: one conditional statement *)
UnassignIfUnscored(r) ==
  /\ At(r, "unscored")
  /\ IF Stands(req[r]) /\ card[req[r].slot] = None
     THEN Emptied(req[r].slot) /\ Goto(r, "done")
     ELSE UNCHANGED <<row, card>> /\ Goto(r, "refused")
  /\ UNCHANGED round

(* Mutant: the scorecard only accepted for an assignment still pending,     *)
(* its status written all the same                                         *)
SaveIfPending(r) ==
  /\ At(r, "save")
  /\ card' = IF Stands(req[r]) /\ row[req[r].slot].st = "pending"
             THEN [card EXCEPT ![req[r].slot] = req[r].asks] ELSE card
  /\ Goto(r, "status")
  /\ UNCHANGED <<round, row>>

(* reviewRounds.saveScore: an upsert that needs the row to exist *)
SaveScore(r) ==
  /\ At(r, "save")
  /\ IF Stands(req[r])
     THEN /\ card' = [card EXCEPT ![req[r].slot] = req[r].asks]
          /\ Goto(r, "status")
     ELSE card' = card /\ Goto(r, "failed")
  /\ UNCHANGED <<round, row>>

(* reviewRounds.setAssignmentStatus, which fails when the row is gone *)
SetStatus(r, label, st) ==
  /\ At(r, label)
  /\ IF Stands(req[r])
     THEN row' = [row EXCEPT ![req[r].slot].st = st] /\ Goto(r, "done")
     ELSE row' = row /\ Goto(r, "failed")
  /\ UNCHANGED <<round, card>>

MarkDone(r) == SetStatus(r, "status", "done")
MarkRecused(r) == SetStatus(r, "recuse", "recused")

(* The worker stops, or a statement fails and the handler says so *)
Fail(r) ==
  /\ MayFail /\ r \in InFlight
  /\ Goto(r, "failed")
  /\ UNCHANGED db

Begin(r) ==
  \/ \E c \in Criteria, open \in BOOLEAN : UpdateRound(r, c, open)
  \/ \E confirmed \in BOOLEAN : DeleteRound(r, confirmed)
  \/ \E slots \in SUBSET Slots : Assign(r, slots)
  \/ \E s \in Slots :
       \/ \E confirmed \in BOOLEAN : UnassignSubmission(r, s, confirmed)
       \/ SubmitScorecard(r, s)
       \/ RecuseFromSubmission(r, s)

Step(r) ==
  \/ ReadMine(r) \/ ListAssignments(r) \/ ReadScores(r) \/ Update(r) \/ Remove(r)
  \/ FindAssignment(r) \/ InsertAssignment(r)
  \/ Unassign(r) \/ UnassignIfUnscored(r)
  \/ SaveScore(r) \/ MarkDone(r) \/ MarkRecused(r)

Next == \E r \in Requests : Begin(r) \/ Step(r) \/ Fail(r)

Spec == Init /\ [][Next]_vars

----------------------------------------------------------------------------
(* Properties *)

(* A filed scorecard answers exactly the questions the round asks now: the  *)
(* criteria lock in updateRound.                                           *)
ScorecardReadsBack ==
  \A s \in Slots : card[s] # None => card[s] = round.criteria

(* A scorecard disappears only in the statement of a request whose          *)
(* organizer was told and confirmed it (unassignSubmission, deleteRound).  *)
LostOnlyConfirmed ==
  [][\A s \in Slots : card[s] # None /\ card'[s] = None =>
       \E r \in Requests : req[r].confirmed /\ req[r].pc \in {"unassign", "remove"}
                           /\ req'[r].pc = "done"]_vars

(* An assignment is reported done only with its scorecard on file, however  *)
(* scoring, recusing, assigning and unassigning overlap or fail            *)
(* (submitScorecard saves the card before the status).                     *)
DoneHasCard == \A s \in Slots : row[s].st = "done" => card[s] # None

(* Once nothing runs, and nothing has failed half way, every filed          *)
(* scorecard is counted: its assignment has not been put back to pending by *)
(* an assignment made again, or by anything else (the repository's assign). *)
FiledIsCounted ==
  InFlight = {} /\ (\A r \in Requests : req[r].pc # "failed") =>
    \A s \in Slots : card[s] # None => row[s].st \in {"done", "recused"}
============================================================================
