------------------------------ MODULE MCRounds ------------------------------
(* The review rounds on small instances: requests of every kind one at a    *)
(* time, or those that do not delete the round overlapping; or what a round *)
(* adds up to.                                                              *)
EXTENDS ReviewRounds, Integers, Sequences, TLC

CONSTANTS
  Judges, Judged, Judging, Kits,              \* of the scores
  Panel, Nominated, Owing, Asking, MaxPresses \* of the nudges

VARIABLES
  setting,
  criteria, status, filed, half, nudge, nudges

AllKinds == {"edit", "delete", "assign", "unassign", "score", "recuse"}
Overlapping ==
  INSTANCE ReviewRounds WITH Serial <- FALSE, Kinds <- AllKinds \ {"delete"}

(* Two weighted questions, a text among them and a row without a label; the *)
(* ends of one scale in the wrong order.                                    *)
Draft(labelled, type, min, max, weight) ==
  [labelled |-> labelled, type |-> type, min |-> min, max |-> max, weight |-> weight]
Choice == <<Draft(TRUE, "select", 0, 0, 0)>>
Builders ==
  {Choice,
   <<Draft(TRUE, "number", 0, 1, 0), Draft(TRUE, "text", 0, 0, 0), Draft(TRUE, "number", 1, 3, 2)>>,
   <<Draft(FALSE, "number", 0, 1, 1), Draft(TRUE, "number", 2, 2, 1)>>}
OneProposal == {<<"p1", 1>>, <<"p1", 2>>}
ThreePairs == OneProposal \cup {<<"p2", 1>>}
JustChoice == {Choice}

(* Scores of one proposal; nudges to a panel.                               *)
Scores ==
  INSTANCE RoundResults WITH
    Reviewers <- Judges, Proposals <- Judged, Slots <- Judging, Drafts <- Kits,
    MaxNudges <- 0, card <- filed
ASSUME ScoresOK ==
  /\ IsFiniteSet(Judges) /\ Judges = 1..Cardinality(Judges) /\ Judging \subseteq Judged \X Judges
  /\ Kits \subseteq Seq([labelled : BOOLEAN, type : STRING, min : Int, max : Int, weight : Int])
  /\ None \notin Int
Nudges ==
  INSTANCE RoundResults WITH
    Reviewers <- Panel, Proposals <- Nominated, Slots <- Owing, Drafts <- Asking,
    MaxNudges <- MaxPresses, card <- filed
Symmetry == Permutations(Requests) \cup Permutations(Slots)

results == <<criteria, status, filed, half, nudge, nudges>>

(* The parts that do not run are nowhere. *)
NoRounds ==
  /\ Init /\ \A s \in Slots : row[s] = NoRow
  /\ round.open /\ \A c \in Criteria : round.criteria = c => c = CHOOSE d \in Criteria : TRUE
NoResults == criteria = 0 /\ status = 0 /\ filed = 0 /\ half = 0 /\ nudge = 0 /\ nudges = 0


Settle ==
  \/ setting \in {"serial", "overlapping"} /\ Init /\ NoResults
  \/ setting = "scores" /\ NoRounds /\ Scores!Init
  \/ setting = "nudges" /\ NoRounds /\ Nudges!Init
Work ==
  /\ \/ setting = "serial" /\ Next /\ UNCHANGED results
     \/ setting = "overlapping" /\ Overlapping!Next /\ UNCHANGED results
     \/ setting = "scores" /\ Scores!Next /\ UNCHANGED vars
     \/ setting = "nudges" /\ Nudges!Next /\ UNCHANGED vars
  /\ UNCHANGED setting
Settings == Settle /\ [][Work]_<<setting, vars, results>>

(* A filed scorecard answers exactly the questions the round asks now, as   *)
(* long as no scorecard is filed while the round is edited: the criteria    *)
(* lock in updateRound.                                                    *)
ReadsBackSerially == setting = "serial" => ScorecardReadsBack

(* The properties of RoundResults, stated there.                            *)
ScoresAreFair ==
  [][\A x \in Judging :
       setting = "scores" /\ Scores!Comes(x)
       => Scores!FiledFairly(x[1], x[2])]_<<setting, results>>
NudgesOwed == setting = "nudges" => Nudges!NudgesOwed
============================================================================
