-------------------------- MODULE MCDecisionChanges --------------------------
(* Module Decision where proposals change after their acceptance: reversals *)
(* of one speaker's proposals overlapping (the constants of the run), or    *)
(* one proposal of two speakers edited and decided, one request at a time   *)
(* or two overlapping, and failing anywhere.                                *)
EXTENDS MCDecision

CONSTANT Team  \* the speakers an edit chooses from

VARIABLE setting

Reversals == {"maybe", "denied"}

Editing == INSTANCE Decision WITH
  Submissions <- {Original}, Speakers <- Team, Verdicts <- {"approved", "denied"},
  EditTeams <- (SUBSET Team) \ {{}}, Serial <- TRUE, MayFail <- TRUE

Overlapping == INSTANCE Decision WITH
  Submissions <- {Original}, Speakers <- Team, Verdicts <- {"approved", "denied"},
  EditTeams <- (SUBSET Team) \ {{}}, Serial <- FALSE, MayFail <- TRUE
(* Bound: one of the requests is never made. *)
OneAbstains == \E r \in Requests : req'[r].pc = "idle"

Settle ==
  \/ setting = "reversals" /\ Init
  \/ setting = "edits" /\ Editing!Init
  \/ setting = "overlapping" /\ Overlapping!Init
Change ==
  /\ \/ setting = "reversals" /\ Next
     \/ setting = "edits" /\ Editing!Next
     \/ setting = "overlapping" /\ Overlapping!Next /\ OneAbstains
  /\ UNCHANGED setting
Settings == Settle /\ [][Change]_<<vars, setting>>

Symmetry == Permutations(Requests) \cup Permutations(Submissions)

(* Everyone an edit adds to an accepted proposal is onboarded (syncSpeakers  *)
(* in src/domain/submissions.ts), and reversals that overlap leave nobody   *)
(* with onboarding to do that nothing they speak at asks for                *)
(* (withdrawOnboarding in src/domain/review.ts).                            *)
ChangesTakeHold ==
  /\ setting = "edits" => Editing!EditConverges
  /\ setting = "reversals" => LastReversalWithdraws

(* The property ConvertedOnce of Decision, while decisions and edits of one *)
(* proposal overlap and fail: no second session once there is one           *)
(* (recordDecision, getBySubmission).                                       *)
NeverReconverted == setting = "overlapping" => Overlapping!ConvertedOnce
============================================================================
