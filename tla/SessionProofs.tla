---------------------------- MODULE SessionProofs ----------------------------
(***************************************************************************)
(* Theorems about what follows an acceptance: proposals that change after  *)
(* it (module MCDecisionChanges), and, overlapping and broken off as they  *)
(* may be, the edits of a session's text (module SessionContent) and the   *)
(* uploads of its speaker (module Uploads).                                *)
(***************************************************************************)
EXTENDS DecisionProofs, MCDecisionChanges, MCSessions, Sequences

----------------------------------------------------------------------------
(* Proposals that change after their acceptance *)

(* What is proved of Decision, of the one proposal that is edited           *)
Edits == INSTANCE DecisionProofs WITH
  Submissions <- {Original}, Speakers <- Team, Verdicts <- {"approved", "denied"},
  EditTeams <- (SUBSET Team) \ {{}}, Serial <- TRUE, MayFail <- TRUE

(* The edits' steps are Decision's. *)
LEMMA SameNext == Editing!Next <=> Edits!Next
<1>1. ASSUME NEW r, NEW s, NEW d PROVE Editing!Decide(r, s, d) <=> Edits!Decide(r, s, d)
  BY DEF Editing!Decide, Edits!Decide, Editing!MayBegin, Edits!MayBegin, Editing!At,
         Edits!At, Editing!InFlight, Edits!InFlight, Editing!Set, Edits!Set, Editing!Idle,
         Edits!Idle, Editing!db, Edits!db
<1>2. ASSUME NEW r, NEW s, NEW team PROVE Editing!Edit(r, s, team) <=> Edits!Edit(r, s, team)
  BY DEF Editing!Edit, Edits!Edit, Editing!MayBegin, Edits!MayBegin, Editing!At, Edits!At,
         Editing!InFlight, Edits!InFlight, Editing!Set, Edits!Set, Editing!Idle, Edits!Idle,
         Editing!db, Edits!db
<1>3. ASSUME NEW r PROVE Editing!WriteStatus(r) <=> Edits!WriteStatus(r)
  BY DEF Editing!WriteStatus, Edits!WriteStatus, Editing!At, Edits!At, Editing!Goto,
         Edits!Goto, Editing!Set, Edits!Set
<1>4. ASSUME NEW r PROVE Editing!ReadSpeakers(r) <=> Edits!ReadSpeakers(r)
  BY DEF Editing!ReadSpeakers, Edits!ReadSpeakers, Editing!At, Edits!At, Editing!Set,
         Edits!Set, Editing!Gathered, Edits!Gathered, Editing!db, Edits!db
<1>5. ASSUME NEW r PROVE Editing!ReadSession(r) <=> Edits!ReadSession(r)
  BY DEF Editing!ReadSession, Edits!ReadSession, Editing!At, Edits!At, Editing!Set,
         Edits!Set, Editing!Gathered, Edits!Gathered, Editing!FindsSession,
         Edits!FindsSession, Editing!Fresh, Edits!Fresh, Editing!StatusOf, Edits!StatusOf,
         Editing!Creators, Edits!Creators, Editing!db, Edits!db
<1>6. ASSUME NEW r PROVE Editing!ReadHeld(r) <=> Edits!ReadHeld(r)
  BY DEF Editing!ReadHeld, Edits!ReadHeld, Editing!At, Edits!At, Editing!Set, Edits!Set,
         Editing!MissingOf, Edits!MissingOf, Editing!Pairs, Edits!Pairs, Editing!NoRow,
         Edits!NoRow, Editing!AfterTasks, Edits!AfterTasks, Editing!db, Edits!db
<1>7. ASSUME NEW r PROVE Editing!CreateSession(r) <=> Edits!CreateSession(r)
  BY DEF Editing!CreateSession, Edits!CreateSession, Editing!At, Edits!At, Editing!Set,
         Edits!Set, Editing!AfterSession, Edits!AfterSession, Editing!AfterTasks,
         Edits!AfterTasks
<1>8. ASSUME NEW r PROVE Editing!RepairSession(r) <=> Edits!RepairSession(r)
  BY DEF Editing!RepairSession, Edits!RepairSession, Editing!At, Edits!At, Editing!Goto,
         Edits!Goto, Editing!Set, Edits!Set, Editing!AfterSession, Edits!AfterSession,
         Editing!AfterTasks, Edits!AfterTasks
<1>9. ASSUME NEW r PROVE Editing!ClearRoster(r) <=> Edits!ClearRoster(r)
  BY DEF Editing!ClearRoster, Edits!ClearRoster, Editing!At, Edits!At, Editing!Goto,
         Edits!Goto, Editing!Set, Edits!Set
<1>10. ASSUME NEW r PROVE Editing!FillRoster(r) <=> Edits!FillRoster(r)
  BY DEF Editing!FillRoster, Edits!FillRoster, Editing!At, Edits!At, Editing!Set, Edits!Set,
         Editing!AfterFill, Edits!AfterFill, Editing!AfterTasks, Edits!AfterTasks
<1>11. ASSUME NEW r PROVE Editing!CreateTask(r) <=> Edits!CreateTask(r)
  BY DEF Editing!CreateTask, Edits!CreateTask, Editing!At, Edits!At, Editing!Set, Edits!Set,
         Editing!AfterTasks, Edits!AfterTasks, Editing!NoRow, Edits!NoRow, Editing!End,
         Edits!End, Editing!Idle, Edits!Idle
<1>12. ASSUME NEW r PROVE Editing!FindSession(r) <=> Edits!FindSession(r)
  BY DEF Editing!FindSession, Edits!FindSession, Editing!At, Edits!At, Editing!Set,
         Edits!Set, Editing!FindsSession, Edits!FindsSession, Editing!Fresh, Edits!Fresh,
         Editing!StatusOf, Edits!StatusOf, Editing!Creators, Edits!Creators,
         Editing!CancelsSession, Edits!CancelsSession, Editing!Decisions, Edits!Decisions,
         Editing!db, Edits!db
<1>13. ASSUME NEW r PROVE Editing!CancelSession(r) <=> Edits!CancelSession(r)
  BY DEF Editing!CancelSession, Edits!CancelSession, Editing!At, Edits!At, Editing!Goto,
         Edits!Goto, Editing!Set, Edits!Set
<1>14. ASSUME NEW r PROVE Editing!ReadReversed(r) <=> Edits!ReadReversed(r)
  BY DEF Editing!ReadReversed, Edits!ReadReversed, Editing!At, Edits!At, Editing!Set,
         Edits!Set, Editing!db, Edits!db
<1>15. ASSUME NEW r PROVE Editing!SurveyTasks(r) <=> Edits!SurveyTasks(r)
  BY DEF Editing!SurveyTasks, Edits!SurveyTasks, Editing!At, Edits!At, Editing!Set,
         Edits!Set, Editing!Surveyed, Edits!Surveyed, Editing!PendingOf, Edits!PendingOf,
         Editing!Doomed, Edits!Doomed, Editing!Creators, Edits!Creators,
         Editing!AfterDoomed, Edits!AfterDoomed, Editing!db, Edits!db
<1>16. ASSUME NEW r PROVE Editing!SurveySessions(r) <=> Edits!SurveySessions(r)
  BY DEF Editing!SurveySessions, Edits!SurveySessions, Editing!At, Edits!At, Editing!Set,
         Edits!Set, Editing!Surveyed, Edits!Surveyed, Editing!BookedElsewhere,
         Edits!BookedElsewhere, Editing!SessionKeys, Edits!SessionKeys, Editing!Creators,
         Edits!Creators, Editing!AfterDoomed, Edits!AfterDoomed, Editing!db, Edits!db
<1>17. ASSUME NEW r PROVE Editing!Withdraw(r) <=> Edits!Withdraw(r)
  BY DEF Editing!Withdraw, Edits!Withdraw, Editing!At, Edits!At, Editing!Set, Edits!Set,
         Editing!NoRow, Edits!NoRow, Editing!AfterDoomed, Edits!AfterDoomed
<1>18. ASSUME NEW r PROVE Editing!Mail(r) <=> Edits!Mail(r)
  BY DEF Editing!Mail, Edits!Mail, Editing!At, Edits!At, Editing!End, Edits!End,
         Editing!Set, Edits!Set, Editing!Idle, Edits!Idle, Editing!db, Edits!db
<1>19. ASSUME NEW r PROVE Editing!EditReadSession(r) <=> Edits!EditReadSession(r)
  BY DEF Editing!EditReadSession, Edits!EditReadSession, Editing!At, Edits!At, Editing!Set,
         Edits!Set, Editing!FindsSession, Edits!FindsSession, Editing!Fresh, Edits!Fresh,
         Editing!StatusOf, Edits!StatusOf, Editing!Creators, Edits!Creators, Editing!db,
         Edits!db
<1>20. ASSUME NEW r PROVE Editing!EditReadLinks(r) <=> Edits!EditReadLinks(r)
  BY DEF Editing!EditReadLinks, Edits!EditReadLinks, Editing!At, Edits!At, Editing!Set,
         Edits!Set, Editing!Unlinked, Edits!Unlinked, Editing!db, Edits!db
<1>21. ASSUME NEW r PROVE Editing!EditDrop(r) <=> Edits!EditDrop(r)
  BY DEF Editing!EditDrop, Edits!EditDrop, Editing!At, Edits!At, Editing!Set, Edits!Set,
         Editing!Unlinked, Edits!Unlinked
<1>22. ASSUME NEW r PROVE Editing!EditAdd(r) <=> Edits!EditAdd(r)
  BY DEF Editing!EditAdd, Edits!EditAdd, Editing!At, Edits!At, Editing!Set, Edits!Set,
         Editing!Linked, Edits!Linked
<1>23. ASSUME NEW r PROVE Editing!Fail(r) <=> Edits!Fail(r)
  BY DEF Editing!Fail, Edits!Fail, Editing!End, Edits!End, Editing!Set, Edits!Set,
         Editing!Idle, Edits!Idle, Editing!InFlight, Edits!InFlight, Editing!db, Edits!db
<1>24. ASSUME NEW x PROVE Editing!Complete(x) <=> Edits!Complete(x)
  BY DEF Editing!Complete, Edits!Complete, Editing!InFlight, Edits!InFlight
<1>25. Editing!Pairs = Edits!Pairs
  BY DEF Editing!Pairs, Edits!Pairs
<1> QED BY <1>1, <1>2, <1>3, <1>4, <1>5, <1>6, <1>7, <1>8, <1>9, <1>10, <1>11, <1>12, <1>13, <1>14, <1>15, <1>16, <1>17, <1>18, <1>19, <1>20, <1>21, <1>22, <1>23, <1>24, <1>25 DEF
                                                                                                                                                                                    Editing!Next,
                                                                                                                                                                                    Edits!Next,
                                                                                                                                                                                    Editing!Step,
                                                                                                                                                                                    Edits!Step,
                                                                                                                                                                                    Editing!Convert,
                                                                                                                                                                                    Edits!Convert,
                                                                                                                                                                                    Editing!Reverse,
                                                                                                                                                                                    Edits!Reverse,
                                                                                                                                                                                    Editing!SyncSpeakers,
                                                                                                                                                                                    Edits!SyncSpeakers

LEMMA SameInit == Editing!Init <=> Edits!Init
  BY DEF Editing!Init, Edits!Init, Editing!SessionKeys, Edits!SessionKeys, Editing!Creators,
         Edits!Creators, Editing!Pairs, Edits!Pairs, Editing!NoRow, Edits!NoRow,
         Editing!Idle, Edits!Idle

LEMMA EditsOK == Edits!ConstantsOK
  BY ConstantsOK DEF ConstantsOK, Edits!ConstantsOK, Edits!Decisions

(* Everyone an edit adds to an accepted proposal is onboarded, whatever     *)
(* failed before, as long as requests run one at a time (syncSpeakers in    *)
(* src/domain/submissions.ts); and reversals that overlap leave nobody with *)
(* onboarding to do that nothing they speak at asks for (withdrawOnboarding *)
(* in src/domain/review.ts).                                                *)
THEOREM ChangesAlwaysTakeHold ==
  ASSUME "approved" \notin Verdicts, EditTeams = {}, ~MayFail
  PROVE  Settings => []ChangesTakeHold
<1> USE DEF OnlyReversals
<1> DEFINE Holds == /\ setting = "edits" => Edits!IInv /\ Edits!VInv
                    /\ setting = "reversals" => IInv /\ RInv
<1>1. Settle => Holds
  <2>1. Edits!Init => Edits!IInv /\ Edits!VInv
    BY EditsOK, Edits!InitInv, Edits!InitKeeps
  <2> QED BY <2>1, SameInit, InitInv, InitReversals DEF Settle
<1>2. Holds /\ [Change]_<<vars, setting>> => Holds'
  <2> SUFFICES ASSUME Holds, [Change]_<<vars, setting>> PROVE Holds'
    OBVIOUS
  <2>1. ASSUME setting' = "edits" PROVE (Edits!IInv /\ Edits!VInv)'
    <3>1. Edits!IInv /\ Edits!VInv /\ [Edits!Next]_(Edits!vars)
      BY <2>1, SameNext DEF Change, Edits!vars, vars
    <3> QED BY <3>1, EditsOK, Edits!NextInv, Edits!NextKeeps
  <2>2. ASSUME setting' = "reversals" PROVE (IInv /\ RInv)'
    <3>1. IInv /\ RInv /\ [Next]_vars
      BY <2>2 DEF Change
    <3> QED BY <3>1, NextInv, NextReversals
  <2> QED BY <2>1, <2>2
<1>3. Holds => ChangesTakeHold
  <2>1. Edits!VInv => Editing!EditConverges
    BY DEF Edits!VInv, Edits!EditConverges, Editing!EditConverges, Edits!Done, Editing!Done,
           Edits!Onboarded, Editing!Onboarded, Edits!Fresh, Editing!Fresh, Edits!Creators,
           Editing!Creators, Edits!NoRow, Editing!NoRow
  <2>2. RInv => LastReversalWithdraws
    BY DEF RInv, Owed, Withdraws, LastReversalWithdraws, InFlight
  <2> QED BY <2>1, <2>2 DEF ChangesTakeHold
<1> HIDE DEF Holds
<1> QED BY <1>1, <1>2, <1>3, PTL DEF Settings

----------------------------------------------------------------------------
(* A session's text *)

(* The revision a request is about to append, and what tells of a text      *)
Pending(r) == edit[r].revision[1]
Appends(r) == edit[r].pc = "append"
Tells(x) ==
  \/ \E i \in 1..Len(revisions) : x \in {revisions[i].prior, revisions[i].new}
  \/ \E r \in Editors : Appends(r) /\ x \in {Pending(r).prior, Pending(r).new}

(* A request that writes has read a text the session has had: it replaces   *)
(* that one, and says so, or writes it again.                               *)
Planned(e, texts) ==
  /\ e.pc = "append" => e.revision # <<>> /\ {e.revision[1].prior, e.revision[1].new} \subseteq texts
  /\ e.pc = "write" /\ e.revision = <<>> => e.patch.abstract \subseteq texts
  /\ e.pc = "write" /\ e.revision # <<>> =>
       e.revision[1].prior \in texts /\ e.patch.abstract = {e.revision[1].new}

(* So once a second text is there, every text is told of.                   *)
Told == losses = 0 => had = {talk.abstract} \/ \A x \in had : Tells(x)

(* One request after the other, what it read is what it replaces.           *)
Latest(e) ==
  /\ e.pc = "write" /\ e.revision = <<>> => e.patch.abstract \subseteq {talk.abstract}
  /\ e.pc = "write" /\ e.revision # <<>> => e.revision[1].prior = talk.abstract
  /\ e.pc = "append" => e.revision[1].new = talk.abstract
Restorable(x) ==
  \/ \E i \in 1..Len(revisions) : revisions[i].prior = x
  \/ \E r \in Editors : Appends(r) /\ Pending(r).prior = x
Chained ==
  ~torn =>
    /\ \A r, o \in Editors : edit[r].pc # "idle" /\ edit[o].pc # "idle" => r = o
    /\ \A r \in Editors : Latest(edit[r])
    /\ \A x \in had \ {talk.abstract} : Restorable(x)
    /\ (\A r \in Editors : ~Appends(r)) /\ revisions # <<>> =>
         revisions[Len(revisions)].new = talk.abstract

ContentInv ==
  /\ Content!TypeOK /\ talk.abstract \in had /\ Told /\ Chained
  /\ \A r \in Editors : Planned(edit[r], had)

LEMMA NoEditType == Content!NoEdit \in Content!Edit /\ Content!NoEdit.pc = "idle"
  BY DEF Content!NoEdit, Content!Edit, Content!Nothing, Content!Patch

LEMMA ContentInit == Content!Init => ContentInv
<1> SUFFICES ASSUME Content!Init PROVE ContentInv
  OBVIOUS
<1>1. \A r \in Editors : edit[r].pc = "idle"
  BY NoEditType DEF Content!Init
<1>2. talk.abstract \in Content!Texts /\ <<>> \in Seq(Content!Revision)
  BY DEF Content!Init, Content!Talk
<1>3. Content!TypeOK
  BY <1>2, NoEditType DEF Content!Init, Content!TypeOK
<1>4. Told /\ Chained
  BY <1>1 DEF Content!Init, Told, Chained, Latest, Appends
<1>5. \A r \in Editors : Planned(edit[r], had)
  BY <1>1 DEF Planned
<1> QED BY <1>3, <1>4, <1>5 DEF ContentInv, Content!Init

LEMMA EditFields ==
  ASSUME ContentInv, NEW r \in Editors
  PROVE  /\ edit[r] \in Content!Edit /\ edit[r].patch \in Content!Patch
         /\ edit[r].revision = <<>> \/ \E x \in Content!Revision : edit[r].revision = <<x>>
         /\ talk \in Content!Talk /\ talk.abstract \in Content!Texts
         /\ torn \in BOOLEAN /\ losses \in Nat /\ edits \in Nat
         /\ had \subseteq Content!Texts /\ revisions \in Seq(Content!Revision)
  BY DEF ContentInv, Content!TypeOK, Content!Edit, Content!Talk

(* A step of a request that touches neither the session nor its history     *)
LEMMA EditSteps ==
  ASSUME ContentInv, NEW r \in Editors, NEW e \in Content!Edit, Content!Set(r, e),
         UNCHANGED <<talk, revisions, had>>, torn' \in BOOLEAN, edits' \in Nat, losses' \in Nat,
         losses' = 0 => losses = 0,
         Appends(r) => losses' # 0 /\ torn',
         ~torn' => ~torn /\ (edit[r].pc = "idle" => \A o \in Editors : edit[o].pc = "idle"),
         e.pc # "append", Planned(e, had), ~torn' => Latest(e)
  PROVE  ContentInv'
<1>1. /\ edit' \in [Editors -> Content!Edit] /\ edit'[r] = e
      /\ \A o \in Editors \ {r} : edit'[o] = edit[o]
  BY DEF Content!Set, ContentInv, Content!TypeOK
<1>2. Content!TypeOK' /\ talk'.abstract \in had'
  BY <1>1 DEF ContentInv, Content!TypeOK
<1>3. \A o \in Editors : Planned(edit[o], had)'
  BY <1>1 DEF ContentInv, Planned
<1>4. ASSUME NEW o \in Editors, ~Appends(r), Appends(o)
      PROVE  Appends(o)' /\ Pending(o)' = Pending(o)
  BY <1>1, <1>4 DEF Appends, Pending
<1>5. Told'
  <2> SUFFICES ASSUME losses' = 0, had # {talk.abstract}, NEW x \in had
               PROVE  Tells(x)'
    BY DEF Told
  <2>1. Tells(x) /\ ~Appends(r)
    BY DEF ContentInv, Told
  <2> QED BY <1>4, <2>1 DEF Tells
<1>6. Chained'
  <2> SUFFICES ASSUME ~torn' PROVE Chained'
    BY DEF Chained
  <2>1. ~torn /\ ~Appends(r)
    OBVIOUS
  <2>2. \A o, q \in Editors : edit'[o].pc # "idle" /\ edit'[q].pc # "idle" => o = q
    BY <1>1, <2>1 DEF ContentInv, Chained
  <2>3. \A o \in Editors : Latest(edit[o])'
    BY <1>1, <2>1 DEF ContentInv, Chained, Latest
  <2>4. \A x \in had \ {talk.abstract} : Restorable(x)'
    BY <1>4, <2>1 DEF ContentInv, Chained, Restorable
  <2>5. (\A o \in Editors : ~Appends(o)') => \A o \in Editors : ~Appends(o)
    BY <1>4, <2>1
  <2> QED BY <2>1, <2>2, <2>3, <2>4, <2>5 DEF ContentInv, Chained
<1> QED BY <1>2, <1>3, <1>5, <1>6 DEF ContentInv

LEMMA BeginEdit ==
  ASSUME ContentInv, NEW r \in Editors, NEW pc \in {"restore", "read", "speak"},
         NEW patch \in Content!Patch, Content!Begin(r, pc, patch)
  PROVE  ContentInv'
<1> DEFINE e == [Content!NoEdit EXCEPT !.pc = pc, !.patch = patch]
<1>1. e \in Content!Edit /\ e.pc = pc
  BY DEF Content!NoEdit, Content!Edit, Content!Nothing
<1>2. /\ edit[r].pc = "idle" /\ Content!Set(r, e) /\ UNCHANGED <<talk, revisions, had, losses>>
      /\ torn' = (torn \/ Content!Busy # {}) /\ edits' = edits + 1
  BY DEF Content!Begin, Content!At
<1> HIDE DEF e
<1>3. torn' \in BOOLEAN /\ (~torn' => ~torn /\ \A o \in Editors : edit[o].pc = "idle")
  BY <1>2 DEF Content!Busy, Content!At
<1>4. Planned(e, had) /\ Latest(e)
  BY <1>1 DEF Planned, Latest
<1>5. edits' \in Nat /\ losses' \in Nat
  BY <1>2, EditFields
<1> QED BY <1>1, <1>2, <1>3, <1>4, <1>5, EditSteps DEF Appends

(* What a plan says of the text it is about to replace *)
LEMMA RevisionIs ==
  ASSUME ContentInv, NEW patch \in Content!Patch
  PROVE  /\ \/ Content!RevisionFor(patch) = <<>> /\ patch.abstract \subseteq {talk.abstract}
            \/ \E y \in Content!Texts :
                 /\ patch.abstract = {y}
                 /\ Content!RevisionFor(patch) = <<[prior |-> talk.abstract, new |-> y]>>
<1>1. CASE patch.abstract = {}
  BY <1>1 DEF Content!RevisionFor
<1>2. CASE patch.abstract # {}
  <2>1. PICK y \in Content!Texts : patch.abstract = {y}
    BY <1>2 DEF Content!Patch
  <2>2. (CHOOSE x \in patch.abstract : TRUE) = y
    BY <2>1
  <2> QED BY <1>2, <2>1, <2>2 DEF Content!RevisionFor, Content!PlanAbstractRevision
<1> QED BY <1>1, <1>2

LEMMA ReadEdit ==
  ASSUME ContentInv, NEW r \in Editors,
         Content!Read(r) \/ Content!SyncSessionAbstract(r) \/ Content!PlanAbstractRestore(r)
  PROVE  ContentInv'
<1> DEFINE p == edit[r].patch
           x == Content!RevisionFor(p)
           write == [edit[r] EXCEPT !.pc = "write", !.revision = x]
           read == [edit[r] EXCEPT !.pc = "read", !.patch = Content!Rest(p)]
<1>1. /\ edit[r].pc \notin {"idle", "append"} /\ UNCHANGED <<talk, revisions, had, torn, edits, losses>>
      /\ Content!Set(r, write) \/ Content!Set(r, read) \/ Content!Set(r, Content!NoEdit)
  BY DEF Content!Read, Content!SyncSessionAbstract, Content!PlanAbstractRestore, Content!At,
         Content!Close, Content!history, Content!SpokenRevision
<1>2. \/ x = <<>> /\ p.abstract \subseteq {talk.abstract}
      \/ \E y \in Content!Texts : p.abstract = {y} /\ x = <<[prior |-> talk.abstract, new |-> y]>>
  BY EditFields, RevisionIs
<1>3. x \in {<<>>} \cup {<<z>> : z \in Content!Revision}
  BY <1>2, EditFields DEF Content!Revision
<1>4. write \in Content!Edit /\ write.pc = "write" /\ write.patch = p /\ write.revision = x
  BY <1>3, EditFields DEF Content!Edit
<1>5. read \in Content!Edit /\ read.pc = "read"
  BY EditFields DEF Content!Edit, Content!Rest, Content!Patch, Content!Talk
<1> HIDE DEF p, x, write, read
<1>6. Planned(write, had) /\ Latest(write)
  BY <1>2, <1>4 DEF ContentInv, Planned, Latest
<1>7. /\ Planned(read, had) /\ Latest(read)
      /\ Planned(Content!NoEdit, had) /\ Latest(Content!NoEdit)
  BY <1>5, NoEditType DEF Planned, Latest
<1>8. torn' \in BOOLEAN /\ edits' \in Nat /\ losses' \in Nat /\ (~torn' => ~torn)
  BY <1>1, EditFields
<1> QED BY <1>1, <1>4, <1>5, <1>6, <1>7, <1>8, NoEditType, EditSteps DEF Appends

LEMMA WriteEdit == ASSUME ContentInv, NEW r \in Editors, Content!Write(r) PROVE ContentInv'
<1> DEFINE p == edit[r].patch
           x == edit[r].revision
           y == Content!Or(p.abstract, talk.abstract)
           e == IF x = <<>> THEN Content!NoEdit ELSE [edit[r] EXCEPT !.pc = "append"]
<1>1. /\ edit[r].pc = "write" /\ Content!Set(r, e)
      /\ talk' = [title |-> Content!Or(p.title, talk.title), abstract |-> y,
                  status |-> Content!Or(p.status, talk.status)]
      /\ had' = had \cup {y} /\ UNCHANGED <<revisions, torn, edits, losses>>
  BY DEF Content!Write, Content!At, Content!Close
<1>2. talk'.abstract = y
  BY <1>1
<1>3. p.abstract = {} \/ \E z \in Content!Texts : p.abstract = {z}
  BY EditFields DEF Content!Patch
<1>4. y \in p.abstract \/ (p.abstract = {} /\ y = talk.abstract)
  BY <1>3 DEF Content!Or
<1>5. talk' \in Content!Talk
  <2>1. p.title = {} \/ \E z \in Titles : p.title = {z}
    BY EditFields DEF Content!Patch
  <2>2. p.status = {} \/ \E z \in ContentStatuses : p.status = {z}
    BY EditFields DEF Content!Patch
  <2>3. Content!Or(p.title, talk.title) \in Titles
    BY <2>1, EditFields DEF Content!Or, Content!Talk
  <2>4. Content!Or(p.status, talk.status) \in ContentStatuses
    BY <2>2, EditFields DEF Content!Or, Content!Talk
  <2>5. y \in Content!Texts
    BY <1>3, <1>4, EditFields
  <2> QED BY <1>1, <2>3, <2>4, <2>5 DEF Content!Talk
<1>6. e \in Content!Edit /\ (e.pc = "idle" \/ (e.pc = "append" /\ e.revision = x /\ x # <<>>))
  BY EditFields, NoEditType DEF Content!Edit
<1>7. Planned(edit[r], had)
  BY DEF ContentInv
<1>8. x = <<>> => y \in had
  BY <1>1, <1>4, <1>7 DEF Planned, ContentInv
<1>9. x # <<>> => x[1].prior \in had /\ y = x[1].new
  BY <1>1, <1>4, <1>7 DEF Planned
<1> HIDE DEF p, x, y, e
<1>10. /\ edit' \in [Editors -> Content!Edit] /\ edit'[r] = e
       /\ \A o \in Editors \ {r} : edit'[o] = edit[o]
  BY <1>1, <1>6 DEF Content!Set, ContentInv, Content!TypeOK
<1>11. Content!TypeOK' /\ talk'.abstract \in had'
  BY <1>1, <1>2, <1>5, <1>10 DEF ContentInv, Content!TypeOK, Content!Talk
<1>12. ASSUME NEW o \in Editors
       PROVE  Planned(edit[o], had)'
  <2>1. CASE o = r
    BY <1>1, <1>6, <1>9, <1>10, <2>1 DEF Planned
  <2>2. CASE o # r
    BY <1>1, <1>10, <2>2 DEF ContentInv, Planned
  <2> QED BY <2>1, <2>2
<1>13. ASSUME NEW o \in Editors, Appends(o)
       PROVE  Appends(o)' /\ Pending(o)' = Pending(o)
  BY <1>1, <1>10, <1>13 DEF Appends, Pending
<1>14. x # <<>> => Appends(r)' /\ Pending(r)' = x[1]
  BY <1>6, <1>10, NoEditType DEF Appends, Pending, e
<1>15. Told'
  <2> SUFFICES ASSUME losses = 0, had' # {talk'.abstract}, NEW z \in had' PROVE Tells(z)'
    BY <1>1 DEF Told
  <2>1. CASE x = <<>>
    <3>1. had' = had
      BY <1>1, <1>8, <2>1
    <3>2. had # {talk.abstract}
      BY <1>2, <1>8, <2>1, <3>1
    <3>3. Tells(z)
      BY <3>1, <3>2 DEF ContentInv, Told
    <3> QED BY <1>1, <1>13, <3>3 DEF Tells
  <2>2. CASE x # <<>>
    <3>1. CASE z \in {x[1].prior, x[1].new}
      BY <1>14, <2>2, <3>1 DEF Tells
    <3>2. CASE z \notin {x[1].prior, x[1].new}
      <4>1. z \in had /\ had # {talk.abstract}
        BY <1>1, <1>9, <2>2, <3>2
      <4>2. Tells(z)
        BY <4>1 DEF ContentInv, Told
      <4> QED BY <1>1, <1>13, <4>2 DEF Tells
    <3> QED BY <3>1, <3>2
  <2> QED BY <2>1, <2>2
<1>16. Chained'
  <2> SUFFICES ASSUME ~torn PROVE Chained'
    BY <1>1 DEF Chained
  <2>1. \A o \in Editors : edit[o].pc # "idle" => o = r
    BY <1>1 DEF ContentInv, Chained
  <2>2. \A o, q \in Editors : edit'[o].pc # "idle" /\ edit'[q].pc # "idle" => o = q
    BY <1>10, <2>1
  <2>3. Latest(edit[r])
    BY DEF ContentInv, Chained
  <2>4. x = <<>> => y = talk.abstract
    BY <1>1, <1>4, <2>3 DEF Latest, x, p
  <2>5. x # <<>> => x[1].prior = talk.abstract
    BY <1>1, <2>3 DEF Latest, x
  <2>6. \A o \in Editors : Latest(edit[o])'
    BY <1>2, <1>6, <1>9, <1>10, <2>1 DEF Latest
  <2>7. ASSUME NEW z \in had' \ {talk'.abstract}
        PROVE  Restorable(z)'
    <3>1. CASE z = talk.abstract
      <4>1. x # <<>>
        BY <1>2, <2>4, <2>7, <3>1
      <4> QED BY <1>14, <2>5, <3>1, <4>1 DEF Restorable
    <3>2. CASE z # talk.abstract
      <4>1. z \in had
        BY <1>1, <1>2, <2>7
      <4>2. Restorable(z)
        BY <3>2, <4>1 DEF ContentInv, Chained
      <4> QED BY <1>1, <1>13, <4>2 DEF Restorable
    <3> QED BY <3>1, <3>2
  <2>8. ASSUME \A o \in Editors : ~Appends(o)', revisions' # <<>>
        PROVE  revisions'[Len(revisions')].new = talk'.abstract
    <3>1. x = <<>> /\ \A o \in Editors : ~Appends(o)
      BY <1>13, <1>14, <2>8
    <3> QED BY <1>1, <1>2, <2>4, <2>8, <3>1 DEF ContentInv, Chained
  <2> QED BY <2>2, <2>6, <2>7, <2>8 DEF Chained
<1> QED BY <1>11, <1>12, <1>15, <1>16 DEF ContentInv

LEMMA AppendEdit == ASSUME ContentInv, NEW r \in Editors, Content!AppendRevision(r) PROVE ContentInv'
<1> DEFINE n == Len(revisions)
<1>1. /\ edit[r].pc = "append" /\ Content!Set(r, Content!NoEdit)
      /\ revisions' = revisions \o edit[r].revision
      /\ UNCHANGED <<talk, had, torn, edits, losses>>
  BY DEF Content!AppendRevision, Content!At, Content!Close, Content!history
<1>2. PICK x \in Content!Revision : edit[r].revision = <<x>>
  BY <1>1, EditFields DEF ContentInv, Planned
<1>3. Pending(r) = x /\ Appends(r)
  BY <1>1, <1>2 DEF Pending, Appends
<1>4. n \in Nat /\ revisions \in Seq(Content!Revision)
  BY EditFields
<1>5. /\ revisions' \in Seq(Content!Revision) /\ Len(revisions') = n + 1 /\ revisions'[n + 1] = x
      /\ \A i \in 1..n : revisions'[i] = revisions[i]
  BY <1>1, <1>2, <1>4
<1> HIDE DEF n
<1>6. /\ edit' \in [Editors -> Content!Edit] /\ edit'[r].pc = "idle"
      /\ \A o \in Editors \ {r} : edit'[o] = edit[o]
  BY <1>1, NoEditType DEF Content!Set, ContentInv, Content!TypeOK
<1>7. Content!TypeOK' /\ talk'.abstract \in had'
  BY <1>1, <1>5, <1>6 DEF ContentInv, Content!TypeOK
<1>8. \A o \in Editors : Planned(edit[o], had)'
  BY <1>1, <1>6 DEF ContentInv, Planned
<1>9. 1..Len(revisions') = 1..n \cup {n + 1} /\ Len(revisions) = n
  BY <1>4, <1>5 DEF n
<1>10. ASSUME NEW o \in Editors, Appends(o), o # r
       PROVE  Appends(o)' /\ Pending(o)' = Pending(o)
  BY <1>6, <1>10 DEF Appends, Pending
<1>11. Told'
  <2>1. ASSUME NEW z, Tells(z) PROVE Tells(z)'
    <3>1. CASE \E i \in 1..n : z \in {revisions[i].prior, revisions[i].new}
      BY <1>5, <1>9, <3>1 DEF Tells
    <3>2. CASE z \in {x.prior, x.new}
      BY <1>5, <1>9, <3>2 DEF Tells
    <3>3. ASSUME NEW o \in Editors, Appends(o), o # r, z \in {Pending(o).prior, Pending(o).new}
          PROVE  Tells(z)'
      BY <1>10, <3>3 DEF Tells
    <3> QED BY <1>3, <1>9, <2>1, <3>1, <3>2, <3>3 DEF Tells
  <2> QED BY <1>1, <2>1 DEF ContentInv, Told
<1>12. Chained'
  <2> SUFFICES ASSUME ~torn PROVE Chained'
    BY <1>1 DEF Chained
  <2>1. \A o \in Editors : edit[o].pc # "idle" => o = r
    BY <1>1 DEF ContentInv, Chained
  <2>2. \A o \in Editors : edit'[o].pc = "idle"
    BY <1>6, <2>1
  <2>3. Latest(edit[r]) /\ x.new = talk.abstract
    BY <1>1, <1>2 DEF ContentInv, Chained, Latest
  <2>4. ASSUME NEW z \in had \ {talk.abstract}
        PROVE  Restorable(z)'
    <3>1. Restorable(z)
      BY <2>4 DEF ContentInv, Chained
    <3>2. CASE \E i \in 1..n : revisions[i].prior = z
      BY <1>5, <1>9, <3>2 DEF Restorable
    <3>3. CASE x.prior = z
      BY <1>5, <1>9, <3>3 DEF Restorable
    <3> QED BY <1>3, <1>9, <2>1, <3>1, <3>2, <3>3 DEF Restorable, Appends
  <2> QED BY <1>1, <1>5, <2>2, <2>3, <2>4 DEF Chained, Latest
<1> QED BY <1>7, <1>8, <1>11, <1>12 DEF ContentInv

LEMMA LoseEdit == ASSUME ContentInv, NEW r \in Editors, Content!Lose(r) PROVE ContentInv'
<1>1. /\ edit[r].pc # "idle" /\ losses' = losses + 1 /\ torn' = TRUE
      /\ Content!Set(r, Content!NoEdit) /\ UNCHANGED <<talk, revisions, had, edits>>
  BY DEF Content!Lose, Content!Busy, Content!At, Content!Close
<1>2. losses' \in Nat /\ losses' # 0 /\ edits' \in Nat
  BY <1>1, EditFields
<1>3. Planned(Content!NoEdit, had)
  BY NoEditType DEF Planned
<1> QED BY <1>1, <1>2, <1>3, NoEditType, EditSteps

LEMMA ContentNext ==
  ASSUME ContentInv, [Content!Next]_Content!contentVars
  PROVE  ContentInv'
<1>1. CASE UNCHANGED Content!contentVars
  BY <1>1 DEF Content!contentVars, ContentInv, Content!TypeOK, Planned, Told, Tells, Chained,
              Latest, Restorable, Appends, Pending
<1>2. ASSUME NEW r \in Editors, NEW patch \in Content!Patch,
             Content!UpdateSessionContent(r, patch) \/ Content!UpdateSession(r, patch)
      PROVE  ContentInv'
  BY <1>2, BeginEdit DEF Content!UpdateSessionContent, Content!UpdateSession
<1>3. ASSUME NEW r \in Editors, NEW y \in Content!Texts,
             \/ Content!Begin(r, "restore", [Content!Nothing EXCEPT !.abstract = {y}])
             \/ Content!Begin(r, "speak", [Content!Nothing EXCEPT !.abstract = {y}])
      PROVE  ContentInv'
  <2>1. [Content!Nothing EXCEPT !.abstract = {y}] \in Content!Patch
    BY DEF Content!Nothing, Content!Patch
  <2> QED BY <1>3, <2>1, BeginEdit
<1>4. ASSUME NEW r \in Editors, NEW i \in 1..Len(revisions), Content!RestoreAbstractRevision(r, i)
      PROVE  ContentInv'
  <2>1. revisions \in Seq(Content!Revision)
    BY EditFields
  <2>2. revisions[i] \in Content!Revision
    BY <2>1
  <2>3. revisions[i].prior \in Content!Texts
    BY <2>2 DEF Content!Revision
  <2> QED BY <1>3, <1>4, <2>3 DEF Content!RestoreAbstractRevision
<1>5. ASSUME NEW r \in Editors, NEW y \in Content!Texts, Content!SpeakerEdits(r, y) PROVE ContentInv'
  BY <1>3, <1>5 DEF Content!SpeakerEdits
<1> QED BY <1>1, <1>2, <1>4, <1>5, ReadEdit, WriteEdit, AppendEdit, LoseEdit DEF Content!Next

(* However edits of a session's text overlap, no text it has had is         *)
(* forgotten by its history unless a request broke off; and while edits     *)
(* come one after the other, each earlier text can be restored and the      *)
(* newest revision leads to the current one, however often something was    *)
(* restored in between (planAbstractRevision and planAbstractRestore in     *)
(* src/domain/session-content.ts, updateSession).                         *)
THEOREM VersionsAlwaysRestorable == Sessions => []VersionsRestorable
<1> DEFINE Kept == part = "content" => ContentInv
<1>1. Open => Kept
  BY ContentInit DEF Open
<1>2. Kept /\ [Work]_<<part, vars, editing, handing>> => Kept'
  <2> SUFFICES ASSUME Kept, [Work]_<<part, vars, editing, handing>>, part' = "content"
               PROVE  ContentInv'
    OBVIOUS
  <2>1. part' = part
    BY DEF Work
  <2>2. [Content!Next]_Content!contentVars
    BY <2>1 DEF Work, Content!contentVars, editing
  <2> QED BY <2>1, <2>2, ContentNext
<1>3. ContentInv => Content!VersionsRestorable
  <2> SUFFICES ASSUME ContentInv, Content!Busy = {} PROVE Content!VersionsRestorable
    BY DEF Content!VersionsRestorable
  <2>1. \A r \in Editors : ~Appends(r)
    BY DEF Content!Busy, Content!At, Appends
  <2>2. ASSUME losses = 0, NEW x \in had \ {talk.abstract}
        PROVE  Tells(x)
    BY <2>2 DEF ContentInv, Told
  <2> QED BY <2>1, <2>2 DEF ContentInv, Chained, Restorable, Tells, Content!VersionsRestorable
<1>4. Kept => VersionsRestorable
  BY <1>3 DEF VersionsRestorable
<1> HIDE DEF Kept
<1> QED BY <1>1, <1>2, <1>4, PTL DEF Sessions

----------------------------------------------------------------------------
(* A speaker's files *)

MaybeFile == Handed!Files \cup {None}
Delivering == {"list", "backfill", "insert", "deliver"}
Supplying == {"write", "record"}

(* What a request is about: what it brings, and what it has read            *)
Brings(q) ==
  /\ q = [pc |-> q.pc, file |-> q.file, seen |-> q.seen] /\ q.file \in MaybeFile
  /\ q.pc \in {"idle", "done"} \cup Delivering \cup Supplying
  /\ q.pc \in Delivering => q.file \in Handed!Files /\ q.seen.file \in MaybeFile
                            /\ q.seen.since \in Requests \cup {"long ago", None}
  /\ q.pc = "backfill" => q.seen.file # None
  /\ q.pc = "record" => q.file \in Handed!Files

(* Until its first row, an assignment has the file it always had, and       *)
(* whoever is to write that row has seen it; then there is a row for each.  *)
TaskKept ==
  /\ versions = <<>> =>
       /\ stood = {assignment.file} \ {None}
       /\ \A r \in Requests : sent[r].pc \in Delivering =>
            sent[r].seen.file = assignment.file /\ sent[r].pc # "deliver"
            /\ (sent[r].pc = "insert" => sent[r].seen.file = None)
  /\ versions # <<>> => stood \cup ({assignment.file} \ {None}) \subseteq Handed!In(versions)
  /\ \A r \in Requests : sent[r].pc = "deliver" => sent[r].file \in Handed!In(versions)

(* A headshot kept under the profile has its row, or is about to, or lost   *)
(* it; so has one that is in the form, or was read and may be written again.*)
Tracked(f) ==
  f # None /\ f.scope = "profile" =>
    \/ f \in Handed!In(portraits) \cup lost
    \/ \E r \in Requests : sent[r].pc = "record" /\ sent[r].file = f
ShotKept ==
  /\ Tracked(headshot) /\ Tracked(form)
  /\ \A r \in Requests : sent[r].pc = "write" => Tracked(sent[r].seen)

FileInv ==
  /\ sent = [r \in Requests |-> sent[r]] /\ \A r \in Requests : Brings(sent[r])
  /\ assignment.file \in MaybeFile /\ assignment.since \in Requests \cup {"long ago", None}
  /\ versions \in Seq(Handed!Files) /\ portraits \in Seq(Handed!Files)
  /\ headshot \in MaybeFile /\ form \in MaybeFile /\ stood \cup lost \subseteq Handed!Files
  /\ TaskKept /\ ShotKept

LEMMA FileTypes ==
  /\ \A r \in Requests : /\ Handed!File("task", r) \in Handed!Files
                          /\ Handed!File("profile", r) \in Handed!Files
                          /\ Handed!File("form", r) \in Handed!Files
  /\ Handed!Older \cup Handed!OlderPortraits \subseteq Handed!Files
  BY DEF Handed!Files, Handed!Uploads

LEMMA InEmpty == Handed!In(<<>>) = {}
  BY DEF Handed!In

LEMMA InOne == ASSUME NEW f PROVE Handed!In(<<f>>) = {f}
<1>1. Len(<<f>>) = 1 /\ 1..1 = {1} /\ <<f>>[1] = f
  OBVIOUS
<1> QED BY <1>1 DEF Handed!In

LEMMA InAppend ==
  ASSUME NEW files \in Seq(Handed!Files), NEW f \in Handed!Files
  PROVE  /\ Append(files, f) \in Seq(Handed!Files) /\ Append(files, f) # <<>>
         /\ Handed!In(Append(files, f)) = Handed!In(files) \cup {f}
<1>1. /\ Append(files, f) \in Seq(Handed!Files) /\ Len(files) \in Nat
      /\ Len(Append(files, f)) = Len(files) + 1 /\ Append(files, f)[Len(files) + 1] = f
      /\ \A i \in 1..Len(files) : Append(files, f)[i] = files[i]
  OBVIOUS
<1>2. 1..(Len(files) + 1) = 1..Len(files) \cup {Len(files) + 1}
  BY <1>1
<1> QED BY <1>1, <1>2 DEF Handed!In

LEMMA FilesInit == Handed!Init => FileInv
<1> SUFFICES ASSUME Handed!Init PROVE FileInv
  OBVIOUS
<1>1. /\ sent = [r \in Requests |-> Handed!Idle]
      /\ assignment \in {[file |-> None, since |-> None]}
                        \cup {[file |-> f, since |-> "long ago"] : f \in Handed!Older}
      /\ stood = {assignment.file} \ {None} /\ form = None
      /\ headshot \in Handed!OlderPortraits \cup {None}
  BY DEF Handed!Init
<1>2. \A r \in Requests :
        sent[r].pc = "idle" /\ sent[r].file = None
        /\ sent[r] = [pc |-> sent[r].pc, file |-> sent[r].file, seen |-> sent[r].seen]
  BY <1>1 DEF Handed!Idle
<1>3. assignment.file \in MaybeFile /\ assignment.since \in Requests \cup {"long ago", None}
  <2>1. CASE assignment = [file |-> None, since |-> None]
    BY <2>1 DEF MaybeFile
  <2>2. ASSUME NEW f \in Handed!Older, assignment = [file |-> f, since |-> "long ago"]
        PROVE  f \in MaybeFile /\ assignment.file = f /\ assignment.since = "long ago"
    BY <2>2, FileTypes DEF MaybeFile
  <2> QED BY <1>1, <2>1, <2>2
<1>4. versions = <<>> \/ (versions = <<assignment.file>> /\ assignment.file \in Handed!Files)
  BY <1>3 DEF Handed!Init, Handed!HasKey, MaybeFile
<1>5. portraits = <<>> \/ (portraits = <<headshot>> /\ headshot \in Handed!Files)
  BY FileTypes DEF Handed!Init, Handed!OlderPortraits
<1>6. Handed!In(portraits) \cup lost = {headshot} \ {None} \/ headshot \in Handed!In(portraits)
  BY <1>5, InOne, InEmpty DEF Handed!Init
<1>7. versions \in Seq(Handed!Files) /\ portraits \in Seq(Handed!Files)
  <2>1. <<>> \in Seq(Handed!Files) /\ \A f \in Handed!Files : <<f>> \in Seq(Handed!Files)
    OBVIOUS
  <2> QED BY <1>4, <1>5, <2>1
<1>8. headshot \in MaybeFile /\ form \in MaybeFile /\ stood \cup lost \subseteq Handed!Files
  BY <1>1, <1>3, FileTypes DEF Handed!Init, MaybeFile
<1>9. TaskKept
  BY <1>1, <1>2, <1>4, InOne DEF TaskKept, Delivering
<1>10. ShotKept
  BY <1>1, <1>2, <1>6 DEF ShotKept, Tracked
<1>11. \A r \in Requests : Brings(sent[r])
  BY <1>2 DEF Brings, Delivering, Supplying, MaybeFile
<1> QED BY <1>1, <1>3, <1>7, <1>8, <1>9, <1>10, <1>11 DEF FileInv

LEMMA GotoIs ==
  ASSUME NEW q, Brings(q), NEW pc
  PROVE  [q EXCEPT !.pc = pc] = [pc |-> pc, file |-> q.file, seen |-> q.seen]
<1>1. q = [pc |-> q.pc, file |-> q.file, seen |-> q.seen]
  BY DEF Brings
<1> QED BY <1>1

(* A request moves on                                                       *)
LEMMA SetIs ==
  ASSUME FileInv, NEW r \in Requests, NEW q, Handed!Set(r, q)
  PROVE  /\ sent' = [o \in Requests |-> sent'[o]] /\ sent'[r] = q
         /\ \A o \in Requests \ {r} : sent'[o] = sent[o]
         /\ Brings(q) => \A o \in Requests : Brings(sent[o])'
<1>1. /\ sent' = [o \in Requests |-> sent'[o]] /\ sent'[r] = q
      /\ \A o \in Requests \ {r} : sent'[o] = sent[o]
  BY DEF FileInv, Handed!Set
<1>2. ASSUME Brings(q), NEW o \in Requests PROVE Brings(sent[o])'
  BY <1>1, <1>2 DEF FileInv, Brings, Delivering, Supplying, MaybeFile
<1> QED BY <1>1, <1>2

(* and what was tracked still is, if what it would have recorded is.        *)
LEMMA TrackedStays ==
  ASSUME FileInv, NEW r \in Requests, NEW q, Handed!Set(r, q), NEW f, Tracked(f),
         Handed!In(portraits) \cup lost \subseteq Handed!In(portraits') \cup lost',
         sent[r].pc = "record" => sent[r].file \in Handed!In(portraits') \cup lost'
  PROVE  Tracked(f)'
<1>1. \A o \in Requests \ {r} : sent'[o] = sent[o]
  BY SetIs
<1> QED BY <1>1 DEF Tracked

LEMMA ShotStays ==
  ASSUME FileInv, NEW r \in Requests, NEW q, Handed!Set(r, q), UNCHANGED <<headshot, form>>,
         q.pc = "write" => Tracked(q.seen),
         Handed!In(portraits) \cup lost \subseteq Handed!In(portraits') \cup lost',
         sent[r].pc = "record" => sent[r].file \in Handed!In(portraits') \cup lost'
  PROVE  ShotKept'
<1>1. /\ sent'[r] = q /\ \A o \in Requests \ {r} : sent'[o] = sent[o]
  BY SetIs
<1>2. Tracked(headshot)' /\ Tracked(form)'
  <2>1. Tracked(headshot) /\ Tracked(form)
    BY DEF FileInv, ShotKept
  <2>2. ASSUME NEW f, Tracked(f) PROVE Tracked(f)'
    BY <2>2, TrackedStays
  <2> QED BY <2>1, <2>2 DEF Tracked
<1>3. ASSUME NEW o \in Requests, sent'[o].pc = "write"
      PROVE  Tracked(sent[o].seen)'
  <2>1. Tracked(sent'[o].seen)
    BY <1>1, <1>3 DEF FileInv, ShotKept
  <2>2. ASSUME NEW f, Tracked(f) PROVE Tracked(f)'
    BY <2>2, TrackedStays
  <2> QED BY <2>1, <2>2 DEF Tracked
<1> QED BY <1>2, <1>3 DEF ShotKept

(* A request reads, or ends *)
LEMMA QuietFile ==
  ASSUME FileInv, NEW r \in Requests, NEW q, Handed!Set(r, q), Brings(q),
         UNCHANGED <<assignment, versions, stood, headshot, portraits, form>>,
         lost \subseteq lost', lost' \subseteq Handed!Files,
         sent[r].pc = "record" => sent[r].file \in lost',
         q.pc = "write" => Tracked(q.seen), q.pc # "deliver",
         versions = <<>> /\ q.pc \in Delivering =>
           q.seen.file = assignment.file /\ (q.pc = "insert" => q.seen.file = None)
  PROVE  FileInv'
<1>1. /\ sent' = [o \in Requests |-> sent'[o]] /\ sent'[r] = q
      /\ \A o \in Requests \ {r} : sent'[o] = sent[o]
      /\ \A o \in Requests : Brings(sent[o])'
  BY SetIs
<1>2. TaskKept'
  <2>1. ASSUME versions = <<>>
        PROVE  /\ stood = {assignment.file} \ {None}
               /\ \A o \in Requests : sent'[o].pc \in Delivering =>
                    sent'[o].seen.file = assignment.file /\ sent'[o].pc # "deliver"
                    /\ (sent'[o].pc = "insert" => sent'[o].seen.file = None)
    BY <1>1, <2>1 DEF FileInv, TaskKept
  <2>2. versions # <<>> => stood \cup ({assignment.file} \ {None}) \subseteq Handed!In(versions)
    BY DEF FileInv, TaskKept
  <2>3. \A o \in Requests : sent'[o].pc = "deliver" => sent'[o].file \in Handed!In(versions)
    BY <1>1 DEF FileInv, TaskKept
  <2> QED BY <2>1, <2>2, <2>3 DEF TaskKept
<1>3. ShotKept'
  BY ShotStays
<1> QED BY <1>1, <1>2, <1>3 DEF FileInv, MaybeFile

LEMMA UploadKeeps ==
  ASSUME FileInv, NEW r \in Requests, Handed!CompleteFileTask(r) PROVE FileInv'
<1> DEFINE q == [pc |-> "list", file |-> Handed!File("task", r), seen |-> assignment]
<1>1. /\ Handed!Set(r, q) /\ sent[r].pc = "idle"
      /\ UNCHANGED <<assignment, versions, stood, headshot, portraits, form, lost>>
  BY DEF Handed!CompleteFileTask, Handed!theTask, Handed!theProfile, Handed!At
<1>2. Brings(q)
  BY FileTypes DEF FileInv, Brings, Delivering, Supplying, MaybeFile
<1>3. q.pc = "list" /\ q.seen = assignment
  OBVIOUS
<1> HIDE DEF q
<1> QED BY <1>1, <1>2, <1>3, QuietFile DEF FileInv

LEMMA ListKeeps ==
  ASSUME FileInv, NEW r \in Requests, Handed!ListVersions(r) PROVE FileInv'
<1> DEFINE next == Handed!AfterList(sent[r], versions)
           q == [pc |-> next, file |-> sent[r].file, seen |-> sent[r].seen]
<1>1. /\ Handed!Set(r, [sent[r] EXCEPT !.pc = next]) /\ sent[r].pc = "list"
      /\ UNCHANGED <<assignment, versions, stood, headshot, portraits, form, lost>>
  BY DEF Handed!ListVersions, Handed!theTask, Handed!theProfile, Handed!At, Handed!Goto
<1>2. /\ next \in {"backfill", "insert"} /\ (next = "backfill" => sent[r].seen.file # None)
      /\ versions = <<>> /\ next = "insert" => sent[r].seen.file = None
  BY DEF Handed!AfterList
<1>3. /\ Brings(sent[r])
      /\ versions = <<>> => sent[r].seen.file = assignment.file
  BY <1>1 DEF FileInv, TaskKept, Delivering
<1>4. Handed!Set(r, q)
  BY <1>1, <1>3, GotoIs
<1>5. /\ q.pc = next /\ q.file = sent[r].file /\ q.seen = sent[r].seen
      /\ q = [pc |-> q.pc, file |-> q.file, seen |-> q.seen]
  OBVIOUS
<1> HIDE DEF next, q
<1>6. Brings(q)
  BY <1>1, <1>2, <1>3, <1>5 DEF Brings, Delivering, Supplying
<1> QED BY <1>1, <1>2, <1>3, <1>4, <1>5, <1>6, QuietFile DEF FileInv

(* A row is written: from now on there is one for all the assignment had.   *)
LEMMA InsertKeeps ==
  ASSUME FileInv, NEW r \in Requests, NEW f, NEW label \in {"backfill", "insert"}, NEW next,
         Handed!InsertVersion(r, label, f, next),
         \/ label = "backfill" /\ f = sent[r].seen.file /\ next = "insert"
         \/ label = "insert" /\ f = sent[r].file /\ next = "deliver"
  PROVE  FileInv'
<1> DEFINE q == [pc |-> next, file |-> sent[r].file, seen |-> sent[r].seen]
<1>1. /\ Handed!Set(r, [sent[r] EXCEPT !.pc = next]) /\ sent[r].pc = label
      /\ versions' = Append(versions, f)
      /\ UNCHANGED <<assignment, stood, headshot, portraits, form, lost>>
  BY DEF Handed!InsertVersion, Handed!theProfile, Handed!At, Handed!Goto
<1>2. Brings(sent[r])
  BY DEF FileInv
<1>3. f \in Handed!Files
  BY <1>1, <1>2 DEF Brings, Delivering, MaybeFile
<1>4. Handed!Set(r, q)
  BY <1>1, <1>2, GotoIs
<1>5. /\ q.pc = next /\ q.file = sent[r].file /\ q.seen = sent[r].seen
      /\ q = [pc |-> q.pc, file |-> q.file, seen |-> q.seen]
  OBVIOUS
<1> HIDE DEF q
<1>6. Brings(q)
  BY <1>1, <1>2, <1>5 DEF Brings, Delivering, Supplying
<1>7. /\ sent' = [o \in Requests |-> sent'[o]] /\ sent'[r] = q
      /\ \A o \in Requests \ {r} : sent'[o] = sent[o]
      /\ \A o \in Requests : Brings(sent[o])'
  BY <1>4, <1>6, SetIs
<1>8. /\ versions' \in Seq(Handed!Files) /\ versions' # <<>>
      /\ Handed!In(versions') = Handed!In(versions) \cup {f}
  BY <1>1, <1>3, InAppend DEF FileInv
<1>9. TaskKept'
  <2>1. stood \cup ({assignment.file} \ {None}) \subseteq Handed!In(versions')
    <3>1. CASE versions # <<>>
      BY <1>8, <3>1 DEF FileInv, TaskKept
    <3>2. CASE versions = <<>>
      <4>1. /\ stood = {assignment.file} \ {None} /\ sent[r].seen.file = assignment.file
            /\ label = "insert" => assignment.file = None
        BY <1>1, <3>2 DEF FileInv, TaskKept, Delivering
      <4> QED BY <1>8, <4>1
    <3> QED BY <3>1, <3>2
  <2>2. ASSUME NEW o \in Requests, sent'[o].pc = "deliver"
        PROVE  sent'[o].file \in Handed!In(versions')
    <3>1. CASE o = r
      BY <1>5, <1>7, <1>8, <2>2, <3>1
    <3>2. CASE o # r
      BY <1>7, <1>8, <2>2, <3>2 DEF FileInv, TaskKept
    <3> QED BY <3>1, <3>2
  <2> QED BY <1>1, <1>8, <2>1, <2>2 DEF TaskKept
<1>10. ShotKept'
  <2>1. /\ q.pc # "write" /\ sent[r].pc # "record" /\ UNCHANGED <<headshot, form, portraits, lost>>
    BY <1>1, <1>5
  <2> QED BY <1>4, <2>1, ShotStays
<1> QED BY <1>1, <1>7, <1>8, <1>9, <1>10 DEF FileInv, MaybeFile

LEMMA DeliverKeeps == ASSUME FileInv, NEW r \in Requests, Handed!Deliver(r) PROVE FileInv'
<1> DEFINE q == [pc |-> "done", file |-> sent[r].file, seen |-> sent[r].seen]
           since == IF sent[r].seen.since = None THEN r ELSE sent[r].seen.since
<1>1. /\ Handed!Set(r, [sent[r] EXCEPT !.pc = "done"]) /\ sent[r].pc = "deliver"
      /\ assignment' = [file |-> sent[r].file, since |-> since]
      /\ stood' = stood \cup {sent[r].file}
      /\ UNCHANGED <<versions, headshot, portraits, form, lost>>
  BY DEF Handed!Deliver, Handed!theProfile, Handed!At, Handed!Goto
<1>2. /\ Brings(sent[r]) /\ sent[r].file \in Handed!In(versions) /\ versions # <<>>
      /\ sent[r].file \in Handed!Files /\ sent[r].seen.since \in Requests \cup {"long ago", None}
  <2>1. Brings(sent[r]) /\ sent[r].file \in Handed!In(versions) /\ versions # <<>>
    BY <1>1 DEF FileInv, TaskKept, Delivering
  <2> QED BY <1>1, <2>1 DEF Brings, Delivering
<1>3. Handed!Set(r, q)
  BY <1>1, <1>2, GotoIs
<1>4. /\ q.pc = "done" /\ q.file = sent[r].file
      /\ q = [pc |-> q.pc, file |-> q.file, seen |-> q.seen]
  OBVIOUS
<1>5. assignment'.file = sent[r].file /\ assignment'.since \in Requests \cup {"long ago", None}
  BY <1>1, <1>2
<1> HIDE DEF q, since
<1>6. Brings(q)
  BY <1>2, <1>4 DEF Brings, Delivering, Supplying
<1>7. /\ sent' = [o \in Requests |-> sent'[o]] /\ sent'[r] = q
      /\ \A o \in Requests \ {r} : sent'[o] = sent[o]
      /\ \A o \in Requests : Brings(sent[o])'
  BY <1>3, <1>6, SetIs
<1>8. TaskKept'
  <2>1. stood' \cup ({assignment'.file} \ {None}) \subseteq Handed!In(versions)
    BY <1>1, <1>2, <1>5 DEF FileInv, TaskKept
  <2>2. \A o \in Requests : sent'[o].pc = "deliver" => sent'[o].file \in Handed!In(versions)
    BY <1>4, <1>7 DEF FileInv, TaskKept
  <2> QED BY <1>1, <1>2, <2>1, <2>2 DEF TaskKept
<1>9. ShotKept'
  <2>1. q.pc # "write" /\ sent[r].pc # "record" /\ UNCHANGED <<headshot, form, portraits, lost>>
    BY <1>1, <1>4
  <2> QED BY <1>3, <2>1, ShotStays
<1>10. /\ assignment'.file \in MaybeFile /\ stood' \cup lost' \subseteq Handed!Files
       /\ versions' \in Seq(Handed!Files) /\ portraits' \in Seq(Handed!Files)
       /\ headshot' \in MaybeFile /\ form' \in MaybeFile
  BY <1>1, <1>2, <1>5 DEF FileInv, MaybeFile
<1> QED BY <1>5, <1>7, <1>8, <1>9, <1>10 DEF FileInv, MaybeFile

LEMMA OpenKeeps == ASSUME FileInv, Handed!OpenProfile PROVE FileInv'
<1>1. /\ UNCHANGED <<assignment, versions, stood, headshot, portraits, lost, sent>>
      /\ form' = headshot \/ form' = None
  BY DEF Handed!OpenProfile, Handed!theTask, Handed!theProfile
<1>2. TaskKept'
  BY <1>1 DEF FileInv, TaskKept
<1>3. ShotKept'
  <2>1. Tracked(headshot)' /\ \A r \in Requests : sent'[r].pc = "write" => Tracked(sent[r].seen)'
    BY <1>1 DEF FileInv, ShotKept, Tracked
  <2>2. Tracked(form)'
    BY <1>1, <2>1 DEF Tracked
  <2> QED BY <2>1, <2>2 DEF ShotKept
<1>4. \A r \in Requests : Brings(sent[r])'
  BY <1>1 DEF FileInv
<1>5. form' \in MaybeFile
  BY <1>1 DEF FileInv, MaybeFile
<1> QED BY <1>1, <1>2, <1>3, <1>4, <1>5 DEF FileInv, MaybeFile

(* A headshot, or none, is on its way to the account *)
LEMMA SupplyKeeps ==
  ASSUME FileInv, NEW r \in Requests,
         \/ \E f \in MaybeFile : Handed!SaveProfile(r, f)
         \/ Handed!SupplyHeadshot(r) \/ Handed!Propose(r)
  PROVE  FileInv'
<1> DEFINE Sends(q) ==
      \/ q = [pc |-> "done", file |-> None, seen |-> None]
      \/ \E g \in MaybeFile, seen \in {headshot, None} :
           q = [pc |-> "write", file |-> g, seen |-> seen]
<1>1. PICK q :
        /\ Handed!Set(r, q) /\ sent[r].pc = "idle" /\ Sends(q)
        /\ UNCHANGED <<assignment, versions, stood, headshot, portraits, form, lost>>
  <2>1. [Handed!Idle EXCEPT !.pc = "done"] = [pc |-> "done", file |-> None, seen |-> None]
    BY DEF Handed!Idle
  <2>2. ASSUME NEW f \in MaybeFile, Handed!SaveProfile(r, f)
        PROVE  \E q : Handed!Set(r, q) /\ Sends(q)
    <3> DEFINE next == Handed!NextHeadshot(f, headshot)
    <3>1. next \in MaybeFile
      BY DEF FileInv, Handed!NextHeadshot, MaybeFile
    <3>2. \/ Handed!Set(r, [Handed!Idle EXCEPT !.pc = "done"])
          \/ Handed!Set(r, [pc |-> "write", file |-> next, seen |-> headshot])
      BY <2>2 DEF Handed!SaveProfile
    <3> HIDE DEF next
    <3> QED BY <2>1, <3>1, <3>2
  <2>3. ASSUME Handed!SupplyHeadshot(r)
        PROVE  \E q : Handed!Set(r, q) /\ Sends(q)
    <3>1. Handed!File("profile", r) \in MaybeFile
      BY FileTypes DEF MaybeFile
    <3> QED BY <2>3, <3>1 DEF Handed!SupplyHeadshot
  <2>4. ASSUME Handed!Propose(r)
        PROVE  \E q : Handed!Set(r, q) /\ Sends(q)
    <3>1. Handed!File("form", r) \in MaybeFile
      BY FileTypes DEF MaybeFile
    <3>2. \/ Handed!Set(r, [Handed!Idle EXCEPT !.pc = "done"])
          \/ Handed!Set(r, [pc |-> "write", file |-> Handed!File("form", r), seen |-> headshot])
      BY <2>4 DEF Handed!Propose
    <3> QED BY <2>1, <3>1, <3>2
  <2>5. /\ sent[r].pc = "idle"
        /\ UNCHANGED <<assignment, versions, stood, headshot, portraits, form, lost>>
    BY DEF Handed!SaveProfile, Handed!SupplyHeadshot, Handed!Propose, Handed!theTask,
           Handed!theProfile, Handed!At
  <2> QED BY <2>2, <2>3, <2>4, <2>5
<1>2. Brings(q) /\ q.pc \in {"done", "write"} /\ (q.pc = "write" => q.seen \in {headshot, None})
  <2>1. CASE q = [pc |-> "done", file |-> None, seen |-> None]
    BY <2>1 DEF Brings, Delivering, Supplying, MaybeFile
  <2>2. ASSUME NEW g \in MaybeFile, NEW seen \in {headshot, None},
               q = [pc |-> "write", file |-> g, seen |-> seen]
        PROVE  Brings(q) /\ q.pc = "write" /\ q.seen \in {headshot, None}
    BY <2>2 DEF Brings, Delivering, Supplying, MaybeFile
  <2> QED BY <1>1, <2>1, <2>2
<1>3. q.pc = "write" => Tracked(q.seen)
  BY <1>2 DEF FileInv, ShotKept, Tracked
<1> QED BY <1>1, <1>2, <1>3, QuietFile DEF FileInv, Delivering

LEMMA UpdateKeeps == ASSUME FileInv, NEW r \in Requests, Handed!UpdateUser(r) PROVE FileInv'
<1> DEFINE next == IF Handed!Tracks(sent[r]) THEN "record" ELSE "done"
           q == [pc |-> next, file |-> sent[r].file, seen |-> sent[r].seen]
<1>1. /\ Handed!Set(r, [sent[r] EXCEPT !.pc = next]) /\ sent[r].pc = "write"
      /\ headshot' = sent[r].file
      /\ UNCHANGED <<assignment, versions, stood, portraits, form, lost>>
  BY DEF Handed!UpdateUser, Handed!theTask, Handed!At, Handed!Goto
<1>2. Brings(sent[r]) /\ Tracked(sent[r].seen) /\ Tracked(form)
  BY <1>1 DEF FileInv, ShotKept
<1>3. Handed!Set(r, q)
  BY <1>1, <1>2, GotoIs
<1>4. /\ q.pc = next /\ q.file = sent[r].file
      /\ q = [pc |-> q.pc, file |-> q.file, seen |-> q.seen]
  OBVIOUS
<1>5. /\ next \in {"record", "done"}
      /\ next = "record" => sent[r].file # None
      /\ next = "done" => sent[r].file = sent[r].seen \/ sent[r].file = None
                          \/ sent[r].file.scope # "profile"
  BY DEF Handed!Tracks
<1> HIDE DEF next, q
<1>6. Brings(q)
  BY <1>2, <1>4, <1>5 DEF Brings, Delivering, Supplying, MaybeFile
<1>7. /\ sent' = [o \in Requests |-> sent'[o]] /\ sent'[r] = q
      /\ \A o \in Requests \ {r} : sent'[o] = sent[o]
      /\ \A o \in Requests : Brings(sent[o])'
  BY <1>3, <1>6, SetIs
<1>8. TaskKept'
  <2>1. \A o \in Requests : sent'[o].pc \in Delivering => o # r
    BY <1>4, <1>5, <1>7 DEF Delivering
  <2> QED BY <1>1, <1>7, <2>1 DEF FileInv, TaskKept, Delivering
<1>9. ShotKept'
  <2>1. ASSUME NEW f, Tracked(f) PROVE Tracked(f)'
    BY <1>1, <1>3, <2>1, TrackedStays
  <2>2. Tracked(form)'
    BY <1>1, <1>2, <2>1 DEF Tracked
  <2>3. Tracked(headshot)'
    <3>1. CASE next = "record"
      BY <1>1, <1>4, <1>7, <3>1 DEF Tracked
    <3>2. CASE next = "done"
      BY <1>1, <1>2, <1>5, <2>1, <3>2 DEF Tracked
    <3> QED BY <1>5, <3>1, <3>2
  <2>4. ASSUME NEW o \in Requests, sent'[o].pc = "write"
        PROVE  Tracked(sent[o].seen)'
    <3>1. o # r /\ sent'[o] = sent[o]
      BY <1>4, <1>5, <1>7, <2>4
    <3>2. Tracked(sent[o].seen)
      BY <2>4, <3>1 DEF FileInv, ShotKept
    <3> QED BY <2>1, <3>1, <3>2 DEF Tracked
  <2> QED BY <2>2, <2>3, <2>4 DEF ShotKept
<1>10. headshot' \in MaybeFile
  BY <1>1, <1>2 DEF Brings
<1> QED BY <1>1, <1>7, <1>8, <1>9, <1>10 DEF FileInv, MaybeFile

LEMMA RecordKeeps == ASSUME FileInv, NEW r \in Requests, Handed!RecordPortrait(r) PROVE FileInv'
<1> DEFINE q == [pc |-> "done", file |-> sent[r].file, seen |-> sent[r].seen]
<1>1. /\ Handed!Set(r, [sent[r] EXCEPT !.pc = "done"]) /\ sent[r].pc = "record"
      /\ portraits' = Append(portraits, sent[r].file)
      /\ UNCHANGED <<assignment, versions, stood, headshot, form, lost>>
  BY DEF Handed!RecordPortrait, Handed!theTask, Handed!At, Handed!Goto
<1>2. Brings(sent[r]) /\ sent[r].file \in Handed!Files
  BY <1>1 DEF FileInv, Brings
<1>3. Handed!Set(r, q)
  BY <1>1, <1>2, GotoIs
<1>4. /\ q.pc = "done" /\ q.file = sent[r].file
      /\ q = [pc |-> q.pc, file |-> q.file, seen |-> q.seen]
  OBVIOUS
<1> HIDE DEF q
<1>5. Brings(q)
  BY <1>2, <1>4 DEF Brings, Delivering, Supplying
<1>6. /\ sent' = [o \in Requests |-> sent'[o]] /\ sent'[r] = q
      /\ \A o \in Requests \ {r} : sent'[o] = sent[o]
      /\ \A o \in Requests : Brings(sent[o])'
  BY <1>3, <1>5, SetIs
<1>7. /\ portraits' \in Seq(Handed!Files)
      /\ Handed!In(portraits') = Handed!In(portraits) \cup {sent[r].file}
  BY <1>1, <1>2, InAppend DEF FileInv
<1>8. TaskKept'
  <2>1. \A o \in Requests : sent'[o].pc \in Delivering => o # r
    BY <1>4, <1>6 DEF Delivering
  <2> QED BY <1>1, <1>6, <2>1 DEF FileInv, TaskKept, Delivering
<1>9. ShotKept'
  BY <1>1, <1>3, <1>4, <1>7, ShotStays
<1> QED BY <1>1, <1>6, <1>7, <1>8, <1>9 DEF FileInv, MaybeFile

LEMMA BreakKeeps == ASSUME FileInv, NEW r \in Requests, Handed!BreakOff(r) PROVE FileInv'
<1> DEFINE q == [pc |-> "done", file |-> sent[r].file, seen |-> sent[r].seen]
<1>1. /\ Handed!Set(r, [sent[r] EXCEPT !.pc = "done"])
      /\ lost' = IF sent[r].pc = "record" THEN lost \cup {sent[r].file} ELSE lost
      /\ UNCHANGED <<assignment, versions, stood, headshot, portraits, form>>
  BY DEF Handed!BreakOff, Handed!theTask, Handed!At, Handed!Goto
<1>2. Brings(sent[r]) /\ (sent[r].pc = "record" => sent[r].file \in Handed!Files)
  BY DEF FileInv, Brings
<1>3. Handed!Set(r, q)
  BY <1>1, <1>2, GotoIs
<1>4. /\ q.pc = "done" /\ q.file = sent[r].file
      /\ q = [pc |-> q.pc, file |-> q.file, seen |-> q.seen]
  OBVIOUS
<1> HIDE DEF q
<1>5. Brings(q)
  BY <1>2, <1>4 DEF Brings, Delivering, Supplying
<1>6. /\ lost \subseteq lost' /\ lost' \subseteq Handed!Files
      /\ sent[r].pc = "record" => sent[r].file \in lost'
  BY <1>1, <1>2 DEF FileInv
<1> QED BY <1>1, <1>3, <1>4, <1>5, <1>6, QuietFile DEF Delivering

LEMMA FilesNext == ASSUME FileInv, [Handed!Next]_Handed!uploadVars PROVE FileInv'
<1>1. CASE UNCHANGED Handed!uploadVars
  BY <1>1 DEF Handed!uploadVars, FileInv, TaskKept, ShotKept, Tracked
<1>2. ASSUME NEW r \in Requests, Handed!Backfill(r) \/ Handed!RecordFileVersion(r) PROVE FileInv'
  BY <1>2, InsertKeeps DEF Handed!Backfill, Handed!RecordFileVersion
<1> QED BY <1>1, <1>2, OpenKeeps, UploadKeeps, ListKeeps, DeliverKeeps, SupplyKeeps, UpdateKeeps,
        RecordKeeps, BreakKeeps DEF Handed!Next, Handed!TaskNext, Handed!HeadshotNext, MaybeFile

(* However a speaker's uploads overlap and break off, every file their task *)
(* has had is in its history, which opens with the one it has now, and the  *)
(* library has the headshot that renders, if it was uploaded under the      *)
(* profile and its request did not break off (recordFileVersion,            *)
(* completeFileTask and saveProfile in src/app/portal/actions.ts).          *)
THEOREM FilesAlwaysKept == Sessions => []FilesKept
<1> DEFINE Kept == part \in {"files", "headshot"} => FileInv
<1>1. Open => Kept
  BY FilesInit DEF Open
<1>2. Kept /\ [Work]_<<part, vars, editing, handing>> => Kept'
  <2> SUFFICES ASSUME Kept, [Work]_<<part, vars, editing, handing>>, part' \in {"files", "headshot"}
               PROVE  FileInv'
    OBVIOUS
  <2>1. part' = part
    BY DEF Work
  <2>2. [Handed!Next]_Handed!uploadVars
    BY <2>1 DEF Work, Handed!Next, Handed!uploadVars, handing
  <2> QED BY <2>1, <2>2, FilesNext
<1>3. FileInv => Handed!FilesKept
  <2> SUFFICES ASSUME FileInv PROVE Handed!FilesKept
    OBVIOUS
  <2>1. /\ stood \subseteq Handed!History(assignment.file, versions).all
        /\ assignment.file # None =>
             Handed!History(assignment.file, versions).first = {assignment.file}
    <3>1. CASE versions = <<>>
      BY <3>1 DEF FileInv, TaskKept, Handed!History
    <3>2. CASE versions # <<>>
      BY <3>2 DEF FileInv, TaskKept, Handed!History
    <3> QED BY <3>1, <3>2
  <2>2. ASSUME headshot # None, headshot.scope = "profile", headshot \notin lost,
               \A r \in Requests : sent[r].pc # "record"
        PROVE  Handed!Library(portraits, headshot).first = {headshot}
    <3>1. headshot \in Handed!In(portraits)
      BY <2>2 DEF FileInv, ShotKept, Tracked
    <3>2. portraits # <<>>
      BY <3>1, InEmpty
    <3> QED BY <3>1, <3>2 DEF Handed!Library, Handed!History
  <2> QED BY <2>1, <2>2 DEF Handed!FilesKept
<1>4. Kept => FilesKept
  BY <1>3 DEF FilesKept
<1> HIDE DEF Kept
<1> QED BY <1>1, <1>2, <1>4, PTL DEF Sessions
=============================================================================
