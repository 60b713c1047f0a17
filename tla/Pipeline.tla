------------------------------ MODULE Pipeline ------------------------------
(***************************************************************************)
(* One contact's card on the sourcing board and the history of its stages. *)
(* A move writes the card and then the event that records it; what the     *)
(* event says the card came from was read before either.                   *)
(***************************************************************************)
EXTENDS Naturals, Sequences

CONSTANTS
  Stages, None,
  Hands,       \* requests under way at once, reused once they have ended
  MaxGrabs,    \* bound: requests begun
  MaxDrops     \* bound: requests that break off

VARIABLES
  card,     \* the card's stage; None is no card
  trail,    \* pipeline_stage_events, in the order of their insertion
  hand,     \* the requests' own state
  muddled,  \* history: two requests overlapped, or one broke off
  grabs, drops

pipelineVars == <<card, trail, hand, muddled, grabs, drops>>

Move == [from : Stages \cup {None}, to : Stages]
Hand == [pc : {"idle", "check", "insert", "find", "update", "record"},
         from : Stages \cup {None}, to : Stages \cup {None}]
Empty == [pc |-> "idle", from |-> None, to |-> None]

TypeOK ==
  /\ card \in Stages \cup {None} /\ trail \in Seq(Move) /\ hand \in [Hands -> Hand]
  /\ muddled \in BOOLEAN /\ grabs \in Nat /\ drops \in Nat

Init ==
  /\ card = None /\ trail = <<>> /\ hand = [r \in Hands |-> Empty]
  /\ muddled = FALSE /\ grabs = 0 /\ drops = 0

At(r, label) == hand[r].pc = label
Busy == {r \in Hands : ~At(r, "idle")}
Set(r, h) == hand' = [hand EXCEPT ![r] = h]
Let(r) == Set(r, Empty)
history == <<muddled, grabs, drops>>

Begin(r, pc, stage) ==
  /\ At(r, "idle") /\ grabs < MaxGrabs /\ grabs' = grabs + 1
  /\ Set(r, [pc |-> pc, from |-> None, to |-> stage])
  /\ muddled' = (muddled \/ Busy # {}) /\ UNCHANGED <<card, trail, drops>>
EnrollProspect(r, stage) == Begin(r, "check", stage)
(* The control is on the card, so there is one. *)
MovePipelineStage(r, stage) == card # None /\ Begin(r, "find", stage)

GetCardByUser(r) ==
  /\ At(r, "check")
  /\ IF card = None THEN Set(r, [hand[r] EXCEPT !.pc = "insert"]) ELSE Let(r)
  /\ UNCHANGED <<card, trail, history>>

CameFrom(stage) == None
(* pipeline_cards.user_id is unique: the second insert of one contact fails. *)
Insert(r) ==
  LET h == hand[r] IN
  /\ At(r, "insert")
  /\ IF card = None
     THEN card' = h.to /\ Set(r, [h EXCEPT !.pc = "record", !.from = CameFrom(h.to)])
     ELSE Let(r) /\ UNCHANGED card
  /\ UNCHANGED <<trail, history>>

(* Mutant: every move is one *)
MovesAlways(from, to) == TRUE
Moves(from, to) == from # to
PlanStageMove(r) ==
  LET h == hand[r] IN
  /\ At(r, "find")
  /\ IF Moves(card, h.to) THEN Set(r, [h EXCEPT !.pc = "update", !.from = card]) ELSE Let(r)
  /\ UNCHANGED <<card, trail, history>>
Update(r) ==
  /\ At(r, "update") /\ card' = hand[r].to
  /\ Set(r, [hand[r] EXCEPT !.pc = "record"])
  /\ UNCHANGED <<trail, history>>
Record(r) ==
  /\ At(r, "record") /\ Let(r)
  /\ trail' = Append(trail, [from |-> hand[r].from, to |-> hand[r].to])
  /\ UNCHANGED <<card, history>>

Drop(r) ==
  /\ r \in Busy /\ drops < MaxDrops /\ drops' = drops + 1
  /\ muddled' = TRUE /\ Let(r) /\ UNCHANGED <<card, trail, grabs>>

Next ==
  \E r \in Hands :
    \/ \E stage \in Stages : EnrollProspect(r, stage) \/ MovePipelineStage(r, stage)
    \/ GetCardByUser(r) \/ Insert(r) \/ PlanStageMove(r) \/ Update(r) \/ Record(r) \/ Drop(r)

Spec == Init /\ [][Next]_pipelineVars

----------------------------------------------------------------------------
(* Properties *)

(* Overlapping or not, the history tells what happened: no event leads from *)
(* a stage to itself, there is at most one enrolment, and as long as no     *)
(* request breaks off the stage of the card was reached by some event.      *)
(* While moves do not overlap either it is one walk: each event leads from  *)
(* where the one before has led (planStageMove, enrollProspect, moveStage). *)
HistoryIsTrue ==
  /\ \A i \in 1..Len(trail) : trail[i].from # trail[i].to
  /\ \A i, j \in 1..Len(trail) : trail[i].from = None /\ trail[j].from = None => i = j
  /\ Busy = {} /\ drops = 0 /\ card # None => \E i \in 1..Len(trail) : trail[i].to = card
  /\ Busy = {} /\ ~muddled =>
       /\ \A i \in 1..Len(trail) :
            trail[i].from = IF i = 1 THEN None ELSE trail[i - 1].to
       /\ card = IF trail = <<>> THEN None ELSE trail[Len(trail)].to
=============================================================================
