---------------------------- MODULE RoundResults ----------------------------
(***************************************************************************)
(* What a review round adds up to: the progress of each reviewer, the      *)
(* aggregate of each submission, and the mail to those who still owe       *)
(* scorecards.                                                             *)
(*                                                                         *)
(* The statements of one request do not interleave here but for those of   *)
(* the nudge and of filing a scorecard; ReviewRounds has all interleave.   *)
(***************************************************************************)
EXTENDS Integers, FiniteSets, Sequences

CONSTANTS
  Reviewers,   \* 1..n
  Proposals,
  Slots,       \* the pairs of a proposal and a reviewer that may be assigned
  Drafts,      \* the rows an organizer may leave in the scorecard builder
  None,        \* an answer left open, no scorecard, no aggregate
  MaxNudges    \* bound: presses of the nudge button

VARIABLES
  criteria,    \* review_rounds.criteria
  status,      \* round_assignments: of each proposal and reviewer
  card,        \* round_scores: the ratings of each, or None
  half,        \* filings that have saved the scorecard and not yet, or never,
               \* set the status
  nudge,       \* the nudge under way
  nudges       \* bound: nudges pressed

resultVars == <<criteria, status, card, half, nudge, nudges>>

(* A criterion is numeric, with its scale and weight, or it is a dropdown   *)
(* or a free text, which are never scored.                                  *)
Numeric(c) == c.type = "number"

(* CriterionDraft to ScorecardCriterion, numbers for a scale and a weight.  *)
Normalized(d) ==
  [type |-> d.type, min |-> d.min,
   max |-> IF d.max > d.min THEN d.max ELSE d.min + 4,
   weight |-> IF d.weight > 0 THEN d.weight ELSE 1]
NormalizeCriteria(rows) ==
  LET kept[n \in 0..Len(rows)] ==
        IF n = 0 THEN <<>>
        ELSE IF rows[n].labelled THEN Append(kept[n - 1], Normalized(rows[n])) ELSE kept[n - 1]
  IN  kept[Len(rows)]

----------------------------------------------------------------------------
(* Scores are percentages in thousandths, as numbers rounded to one decimal *)
(* in tenths: the code divides doubles.                                     *)

Total(parts) ==
  LET sum[n \in 0..Len(parts)] == IF n = 0 THEN 0 ELSE sum[n - 1] + parts[n]
  IN  sum[Len(parts)]
Over(sum, n) == IF n = 0 THEN None ELSE sum \div n
RoundScoreValue(score) == (score + 50) \div 100

CriterionWeight(c) == IF Numeric(c) THEN c.weight ELSE 0
NormalizedValue(c, value) ==
  LET clamped == IF value < c.min THEN c.min ELSE IF value > c.max THEN c.max ELSE value
  IN  (100000 * (clamped - c.min)) \div (c.max - c.min)

Rated(values) == {i \in DOMAIN criteria : CriterionWeight(criteria[i]) > 0 /\ values[i] # None}
Weights(values) ==
  LET rated == Rated(values)
  IN  [i \in DOMAIN criteria |-> IF i \in rated THEN criteria[i].weight ELSE 0]
Weighed(values) ==
  LET rated == Rated(values)
  IN  [i \in DOMAIN criteria |->
         IF i \in rated THEN criteria[i].weight * NormalizedValue(criteria[i], values[i]) ELSE 0]
(* Mutant: a weight counts in the sum and not in what it is divided by *)
ScorecardByCount(values) == Over(Total(Weighed(values)), Cardinality(Rated(values)))
ScorecardScore(values) == Over(Total(Weighed(values)), Total(Weights(values)))

----------------------------------------------------------------------------
Assigned(s, r) == <<s, r>> \in Slots /\ status[<<s, r>>] # "none"
Recused(s, r) == status[<<s, r>>] = "recused"
Filed(s, r) == card[<<s, r>>] # None
Required(s, r) == Assigned(s, r) /\ ~Recused(s, r)

Scored(s, r) == Required(s, r) /\ Filed(s, r)

(* Mutant: a recused reviewer's scorecard is done work all the same *)
ProgressWithRecused(r) ==
  LET mine == {s \in Proposals : Assigned(s, r)}
      required == Cardinality({s \in mine : Required(s, r)})
      done == Cardinality({s \in mine : Filed(s, r)})
  IN  [assigned |-> Cardinality(mine), required |-> required, done |-> done,
       recused |-> Cardinality({s \in mine : Recused(s, r)}), pending |-> required - done]
ProgressByReviewer(r) ==
  LET mine == {s \in Proposals : Assigned(s, r)}
      required == Cardinality({s \in mine : Required(s, r)})
      done == Cardinality({s \in mine : Scored(s, r)})
  IN  [assigned |-> Cardinality(mine), required |-> required, done |-> done,
       recused |-> Cardinality({s \in mine : Recused(s, r)}), pending |-> required - done]

(* The cards summarizeRound reads for a proposal. *)
Counted(s) == {r \in Reviewers : Required(s, r) /\ Filed(s, r)}
Totals(s) == {r \in Counted(s) : ScorecardScore(card[<<s, r>>]) # None}
Mean(s) ==
  LET totals == Totals(s)
  IN  Over(Total([r \in Reviewers |-> IF r \in totals THEN ScorecardScore(card[<<s, r>>]) ELSE 0]),
           Cardinality(totals))
Aggregate(s) == IF Mean(s) = None THEN None ELSE RoundScoreValue(Mean(s))
SummarizeRound(s) ==
  [assigned |-> Cardinality({r \in Reviewers : Assigned(s, r)}),
   required |-> Cardinality({r \in Reviewers : Required(s, r)}),
   scored |-> Cardinality(Counted(s)),
   recused |-> Cardinality({r \in Reviewers : Recused(s, r)}),
   score |-> Aggregate(s)]

----------------------------------------------------------------------------
NoNudge ==
  [pc |-> "idle", rows |-> {}, todo |-> {}, mailed |-> {}, owed |-> {}, lost |-> {}, calm |-> TRUE]

(* What a reviewer may answer to each criterion: a number of its scale, or  *)
(* something that is never scored.                                          *)
Scale(c) == IF Numeric(c) THEN c.min..c.max ELSE {None}
Answers == {v \in [DOMAIN criteria -> UNION {Scale(criteria[i]) : i \in DOMAIN criteria}] :
              \A i \in DOMAIN criteria : v[i] \in Scale(criteria[i])}

TypeOK ==
  /\ \A i \in DOMAIN criteria : criteria[i] \in [type : STRING, min : Int, max : Int, weight : Nat]
  /\ status \in [Slots -> {"none", "pending", "done", "recused"}]
  /\ DOMAIN card = Slots /\ \A x \in Slots : card[x] = None \/ DOMAIN card[x] = DOMAIN criteria
  /\ half \subseteq Slots
  /\ nudge.pc \in {"idle", "scores", "mail"} /\ nudge.rows \subseteq Slots
  /\ nudge.todo \cup nudge.mailed \cup nudge.owed \cup nudge.lost \subseteq Reviewers
  /\ nudge.calm \in BOOLEAN /\ nudges \in Nat

Init ==
  /\ criteria \in {NormalizeCriteria(rows) : rows \in Drafts}
  /\ status = [x \in Slots |-> "none"] /\ card = [x \in Slots |-> None]
  /\ half = {} /\ nudge = NoNudge /\ nudges = 0

(* What a reviewer owes, by the statuses: pending, and not being filed. *)
Open(r) == {x \in Slots : x[2] = r /\ status[x] = "pending" /\ x \notin half}
(* What anybody does during a nudge; it notes who has come to owe, and who  *)
(* has lost an assignment.                                                  *)
Change(x, st, values) ==
  /\ status' = [status EXCEPT ![x] = st] /\ card' = [card EXCEPT ![x] = values]
  /\ nudge' = IF nudge.pc = "idle" THEN nudge
              ELSE [nudge EXCEPT !.calm = FALSE,
                      !.owed = IF st = "pending" /\ status[x] = "none" THEN @ \cup {x[2]} ELSE @,
                      !.lost = IF st = "none" THEN @ \cup {x[2]} ELSE @]
  /\ UNCHANGED <<criteria, nudges>>

(* updateRound: criteria with scorecards on file stay. *)
UpdateRound(rows) ==
  /\ \A x \in Slots : card[x] = None
  /\ criteria' = NormalizeCriteria(rows)
  /\ UNCHANGED <<status, card, half, nudge, nudges>>
Assign(x) == status[x] = "none" /\ Change(x, "pending", None) /\ UNCHANGED half
(* The scorecard goes with its assignment, and nobody finishes filing it.   *)
Unassign(x) == status[x] # "none" /\ Change(x, "none", None) /\ half' = half \ {x}
(* submitScorecard is two statements, and may stop after the first.  An     *)
(* answer to every criterion but the free texts, on its scale, or none.     *)
SaveScore(x, values) ==
  status[x] # "none" /\ Change(x, status[x], values) /\ half' = half \cup {x}
MarkDone(x) == x \in half /\ Change(x, "done", card[x]) /\ half' = half \ {x}
RecuseFromSubmission(x) ==
  status[x] # "none" /\ Change(x, "recused", card[x]) /\ UNCHANGED half

RemindReviewers ==
  /\ nudge.pc = "idle" /\ nudges < MaxNudges /\ nudges' = nudges + 1
  /\ nudge' = [NoNudge EXCEPT !.pc = "scores", !.rows = {x \in Slots : Required(x[1], x[2])},
                              !.owed = {r \in Reviewers : Open(r) # {}}]
  /\ UNCHANGED <<criteria, status, card, half>>

(* Mutant: whoever has an assignment is reminded *)
PendingOfAssigned(rows) == {r \in Reviewers : \E s \in Proposals : <<s, r>> \in rows}
PendingReviewers(rows) ==
  {r \in Reviewers : \E s \in Proposals : <<s, r>> \in rows /\ ~Filed(s, r)}
ListScores ==
  /\ nudge.pc = "scores"
  /\ nudge' = [nudge EXCEPT !.pc = "mail", !.rows = {}, !.todo = PendingReviewers(nudge.rows)]
  /\ UNCHANGED <<criteria, status, card, half, nudges>>
Deliver(r) ==
  /\ nudge.pc = "mail" /\ r \in nudge.todo
  /\ nudge' = [nudge EXCEPT !.todo = @ \ {r}, !.mailed = @ \cup {r}]
  /\ UNCHANGED <<criteria, status, card, half, nudges>>
Finish ==
  /\ nudge.pc = "mail" /\ nudge.todo = {} /\ nudge' = NoNudge
  /\ UNCHANGED <<criteria, status, card, half, nudges>>

Next ==
  \/ \E rows \in Drafts : UpdateRound(rows)
  \/ \E x \in Slots :
       \/ Assign(x) \/ Unassign(x) \/ RecuseFromSubmission(x)
       \/ (\E values \in Answers : SaveScore(x, values)) \/ MarkDone(x)
  \/ RemindReviewers \/ ListScores \/ (\E r \in Reviewers : Deliver(r)) \/ Finish

Spec == Init /\ [][Next]_resultVars

----------------------------------------------------------------------------
(* Properties *)

(* A scorecard pulls the aggregate of its proposal towards its own score,   *)
(* which is none of it outside what its single ratings are worth, and       *)
(* raising ratings never lowers the aggregate: whenever one comes to count  *)
(* or counts otherwise (scorecardScore, mean).                              *)
Tenths(i, value) == RoundScoreValue(NormalizedValue(criteria[i], value))
Between(x, a, b) == (a <= x /\ x <= b) \/ (b <= x /\ x <= a)
FiledFairly(s, r) ==
  LET rated == Rated(card'[<<s, r>>])
      own == RoundScoreValue(ScorecardScore(card'[<<s, r>>]))
      value(i) == Tenths(i, card'[<<s, r>>][i])
      before == Aggregate(s)
      after == Aggregate(s)'
  IN  rated # {} =>
        /\ \E i, j \in rated : value(i) <= own /\ own <= value(j)
        /\ r \notin Counted(s) => Between(after, IF before = None THEN own ELSE before, own)
        /\ /\ r \in Counted(s)
           /\ \A i \in rated : card[<<s, r>>][i] <= card'[<<s, r>>][i]
           => before <= after
Counts(x) == x[2] \in Counted(x[1])
Comes(x) == Counts(x)' /\ (Counts(x) => card'[x] # card[x])
ScoresAreFair ==
  [][\A x \in Slots :
       Comes(x) => FiledFairly(x[1], x[2])]_resultVars

(* What a reviewer is said to owe, counted by scorecards, is what is open   *)
(* by the statuses: an assignment that is pending, unless its scorecard is  *)
(* being filed, or was in a filing that stopped. The nudge mails nobody who *)
(* owes nothing all the while, unless one of their assignments was removed  *)
(* between its two reads, and if nothing changes meanwhile it mails         *)
(* everybody who owes (progressByReviewer, submitScorecard,                 *)
(* sendRoundReminders).                                                     *)
NudgesOwed ==
  /\ \A r \in Reviewers : ProgressByReviewer(r).pending = Cardinality(Open(r))
  /\ nudge.pc = "mail" =>
       /\ nudge.mailed \subseteq nudge.owed \cup nudge.lost
       /\ nudge.calm => nudge.mailed \cup nudge.todo = nudge.owed
=============================================================================
