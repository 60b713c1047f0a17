------------------------------- MODULE MCDesk -------------------------------
(* What comes in on small instances: proposals through one form, or the     *)
(* answers to one form's questions, or the card of one contact.             *)
EXTENDS Intake, TLC

CONSTANTS
  Hands, Stages, MaxGrabs, MaxDrops,                       \* of the card
  Questions, Choices, Retired, Designs, MaxSaves, MaxVisits \* of the questions

VARIABLES
  part,
  card, trail, hand, muddled, grabs, drops,
  fields, page, answers, under, saves, visits

Sourcing == INSTANCE Pipeline

sourcing == <<card, trail, hand, muddled, grabs, drops>>

(* Three questions: a choice, one that hangs on it, and one that hangs on   *)
(* either or, wrongly, on itself; or two that wrongly hang on each other.   *)
Question(on, op, expects, type) ==
  [type |-> type, required |-> TRUE,
   options |-> IF type = "select" THEN {"a", "b"} ELSE {},
   on |-> on, op |-> op, expects |-> expects]
First == Question(0, "eq", {}, "select")
SomeDesigns ==
  {<<First, Question(1, op, {e}, "select"), Question(on, "eq", {"a"}, "text")>> :
     op \in {"eq", "neq"}, e \in {"a", "old"}, on \in 1..3}
  \cup {<<Question(2, "eq", {"a"}, "select"), Question(1, "eq", {"a"}, "select"), Question(0, "eq", {}, "text")>>}
Asking == INSTANCE FormRules
ASSUME QuestionsOK ==
  /\ IsFiniteSet(Questions) /\ Questions = 1..Cardinality(Questions)
  /\ Designs \subseteq [Questions -> Asking!Field]
(* What can be typed is a choice, and "is" names one value where one is     *)
(* given.  The editor of fields keeps several when "is one of" becomes      *)
(* "is", and fieldSchemaProblems lets them pass: such a question is never   *)
(* shown.                                                                   *)
ASSUME AnswerableOK ==
  \A s \in Designs, q \in Questions :
    s[q].on # 0 =>
      /\ Asking!TakesOptions(s[s[q].on]) \/ s[q].expects \subseteq Choices
      /\ s[q].op = "eq" /\ s[s[q].on].type # "multiselect" =>
           \A e \in s[q].expects : s[q].expects = {e}

asking == <<fields, page, answers, under, saves, visits>>

(* One form of each type; the abstract one takes one proposal a speaker.    *)
OneEach == {[type |-> "abstract", limit |-> 1], [type |-> "session", limit |-> 0]}

(* The parts that do not run are nowhere. *)
NoIntake ==
  /\ form = [exists |-> FALSE, open |-> FALSE, type |-> "abstract", limit |-> 0]
  /\ accounts = {} /\ row = [p \in Rows |-> NoRow]
  /\ link = [p \in Rows |-> [e \in Emails |-> "none"]]
  /\ tracked = {} /\ bare = {} /\ req = [r \in Requests |-> Unasked]
  /\ hurt = {} /\ excused = {} /\ raced = FALSE
  /\ begun = 0 /\ moves = 0
NoSourcing ==
  /\ card = 0 /\ trail = 0 /\ hand = 0 /\ muddled = 0 /\ grabs = 0 /\ drops = 0
NoQuestions ==
  /\ fields = 0 /\ page = 0 /\ answers = 0 /\ under = 0 /\ saves = 0 /\ visits = 0

Open ==
  \/ part = "intake" /\ Init /\ NoSourcing /\ NoQuestions
  \/ part = "sourcing" /\ NoIntake /\ Sourcing!Init /\ NoQuestions
  \/ part = "questions" /\ NoIntake /\ NoSourcing /\ Asking!Init
Work ==
  \/ part = "intake" /\ Next /\ UNCHANGED <<part, sourcing, asking>>
  \/ part = "sourcing" /\ Sourcing!Next /\ UNCHANGED <<part, intakeVars, asking>>
  \/ part = "questions" /\ Asking!Next /\ UNCHANGED <<part, intakeVars, sourcing>>
Desk == Open /\ [][Work]_<<part, intakeVars, sourcing, asking>>

Interchangeable ==
  Permutations(Requests) \cup Permutations(Emails) \cup Permutations(Rows)

(* The properties of Pipeline and FormRules, stated there.                  *)
HistoryIsTrue == part = "sourcing" => Sourcing!HistoryIsTrue

(* A saved form keeps what it promises: every question can come to be shown *)
(* and what was accepted is accepted again as it is (fieldSchemaProblems,   *)
(* validateSubmissionValues, prefillValues).                                *)
FormsHold ==
  part = "questions" => Asking!ResavesAsItIs /\ Asking!EveryQuestionReachable
=============================================================================
