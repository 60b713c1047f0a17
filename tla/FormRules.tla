------------------------------ MODULE FormRules ------------------------------
(***************************************************************************)
(* The questions of a form: which of them a submitter is shown, which      *)
(* answers are accepted and which are kept, while an organizer changes the *)
(* questions under an open page.                                           *)
(*                                                                         *)
(* An answer is the set of values a condition compares with: nothing, one  *)
(* choice, or several.  Conditions point at questions by their place.      *)
(***************************************************************************)
EXTENDS Naturals, FiniteSets

CONSTANTS
  Questions,   \* 1..n, in schema order
  Choices,
  Retired,     \* a choice that no question offers any more
  Designs,     \* field lists an organizer may try to save
  MaxSaves,    \* bound: schemas saved after the first
  MaxVisits    \* bound: pages opened

VARIABLES
  fields,      \* forms.fields: the stored schema
  page,        \* the submitter's page: the schema it was rendered from and
               \* its controls
  answers,     \* submissions.answers, once there are any
  under,       \* history: the schema they were validated against
  saves, visits

formVars == <<fields, page, answers, under, saves, visits>>

Types == {"text", "select", "multiselect", "checkbox"}
Ops == {"eq", "neq", "in"}
Values == Choices \cup {Retired}
Answers == [Questions -> SUBSET Values]
Field == [type : Types, required : BOOLEAN, options : SUBSET Choices,
          on : Questions \cup {0},   \* showIf.fieldId; 0 is no condition
          op : Ops, expects : SUBSET Values]
Page == [open : BOOLEAN, fields : [Questions -> Field], values : Answers,
         errors : SUBSET Questions]

TypeOK ==
  /\ fields \in [Questions -> Field] /\ under \in [Questions -> Field]
  /\ page \in Page
  /\ answers \in {<<>>} \cup {<<a>> : a \in Answers}
  /\ saves \in Nat /\ visits \in Nat

----------------------------------------------------------------------------
(* Visibility *)

ConditionHolds(f, v) ==
  CASE f.op = "eq" -> f.expects # {} /\ f.expects \subseteq v[f.on]
    [] f.op = "neq" -> f.expects \cap v[f.on] = {}
    [] f.op = "in" -> f.expects \cap v[f.on] # {}

Parents(s, qs) == {s[q].on : q \in qs} \ {0}
(* The questions a question hangs on; a cycle is walked once. *)
Lineage(s, q) ==
  LET up[n \in 0..Cardinality(Questions)] ==
        IF n = 0 THEN {q} ELSE LET below == up[n - 1] IN below \cup Parents(s, below)
  IN up[Cardinality(Questions)]
(* Mutant: only its own condition is asked *)
VisibleAlone(s, q, v) == s[q].on = 0 \/ ConditionHolds(s[q], v)
IsFieldVisible(s, q, v) ==
  \A p \in Lineage(s, q) : s[p].on = 0 \/ ConditionHolds(s[p], v)

VisibleFields(s, v) == {q \in Questions : IsFieldVisible(s, q, v)}
PruneHiddenValues(s, v) ==
  [q \in Questions |-> IF q \in VisibleFields(s, v) THEN v[q] ELSE {}]

----------------------------------------------------------------------------
(* Validation *)

TakesOptions(f) == f.type \in {"select", "multiselect"}
CheckField(f, answer) ==
  /\ f.required => answer # {}
  /\ TakesOptions(f) => answer \subseteq f.options
Errors(s, v) == {q \in VisibleFields(s, v) : ~CheckField(s[q], v[q])}
(* What a draft is validated against. *)
OptionalFields(s) == [q \in Questions |-> [s[q] EXCEPT !.required = FALSE]]

(* Mutant: a condition may hang on any question *)
ProblemsOfAnyOrder(s) ==
  {q \in Questions : s[q].on # 0 /\ TakesOptions(s[s[q].on])
                       /\ ~(s[q].expects \subseteq s[s[q].on].options)}
(* fieldSchemaProblems: what an organizer has to mend before a schema is    *)
(* saved.  A condition hangs on an earlier question and on a choice that is *)
(* still offered, and a question of choices has some.                      *)
FieldSchemaProblems(s) ==
  {q \in Questions :
     \/ TakesOptions(s[q]) /\ s[q].options = {}
     \/ /\ s[q].on # 0
        /\ \/ s[q].on >= q
           \/ s[q].expects = {}
           \/ TakesOptions(s[s[q].on]) /\ ~(s[q].expects \subseteq s[s[q].on].options)}
Sound(s) == FieldSchemaProblems(s) = {}

----------------------------------------------------------------------------
Blank == [q \in Questions |-> {}]
Init ==
  /\ fields \in {s \in Designs : Sound(s)} /\ under = fields
  /\ page = [open |-> FALSE, fields |-> fields, values |-> Blank, errors |-> {}]
  /\ answers = <<>> /\ saves = 0 /\ visits = 0

SaveForm(s) ==
  /\ saves < MaxSaves /\ saves' = saves + 1
  /\ Sound(s) /\ fields' = s
  /\ UNCHANGED <<page, answers, under, visits>>

(* emptyValues for a new proposal, prefillValues for one that is there. *)
Prefill == IF answers = <<>> THEN Blank ELSE answers[1]
Visit ==
  /\ ~page.open /\ visits < MaxVisits /\ visits' = visits + 1
  /\ page' = [open |-> TRUE, fields |-> fields, values |-> Prefill, errors |-> {}]
  /\ UNCHANGED <<fields, answers, under, saves>>

Offered(f) ==
  CASE f.type = "select" -> {{}} \cup {{c} : c \in f.options}
    [] f.type = "multiselect" -> SUBSET f.options
    [] OTHER -> {{}} \cup {{c} : c \in Choices}
Answer(q, answer) ==
  /\ page.open /\ q \in VisibleFields(page.fields, page.values)
  /\ answer \in Offered(page.fields[q]) \ {page.values[q]}
  /\ page' = [page EXCEPT !.values[q] = answer]
  /\ UNCHANGED <<fields, answers, under, saves, visits>>

(* validateSubmissionValues, against the questions of the moment. *)
Keep(s) ==
  /\ page.open
  /\ IF Errors(s, page.values) = {}
     THEN /\ answers' = <<PruneHiddenValues(fields, page.values)>>
          /\ under' = s /\ page' = [page EXCEPT !.open = FALSE]
     ELSE page' = [page EXCEPT !.errors = Errors(s, page.values)] /\ UNCHANGED <<answers, under>>
  /\ UNCHANGED <<fields, saves, visits>>
Submit == Keep(fields)
SaveDraft == Keep(OptionalFields(fields))

Next ==
  \/ \E s \in Designs : SaveForm(s)
  \/ Visit
  \/ \E q \in Questions, answer \in SUBSET Choices : Answer(q, answer)
  \/ Submit \/ SaveDraft

Spec == Init /\ [][Next]_formVars

----------------------------------------------------------------------------
(* Properties *)

(* Reopened and sent again as it is, under the questions it was accepted by,*)
(* a proposal is accepted again and nothing of it changes: it answers only  *)
(* questions that its own answers show, and nothing that was typed before a *)
(* condition flipped is reviewed (validateSubmissionValues, prefillValues). *)
ResavesAsItIs ==
  answers # <<>> =>
    /\ Errors(under, answers[1]) = {}
    /\ PruneHiddenValues(under, answers[1]) = answers[1]

(* Every question of a saved form can come to be shown by answering the ones*)
(* before it, none of them hidden at the time, with choices that are offered*)
(* (fieldSchemaProblems).                                                   *)
Reveals(q, v) ==
  /\ \A p \in Questions :
       v[p] # {} => p < q /\ v[p] \in Offered(fields[p]) /\ IsFieldVisible(fields, p, v)
  /\ IsFieldVisible(fields, q, v)
EveryQuestionReachable ==
  \A q \in Questions : \E v \in [Questions -> SUBSET Choices] : Reveals(q, v)

=============================================================================
