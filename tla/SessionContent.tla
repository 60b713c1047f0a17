--------------------------- MODULE SessionContent ---------------------------
(***************************************************************************)
(* What one session says of itself, and the history of its abstract:       *)
(* organizers save its content from the agenda or patch it over the API,   *)
(* put an earlier abstract back, and its speaker edits the proposal it came*)
(* from.  Each writes the session first and appends the revision after,    *)
(* and compares with an abstract read before both.                         *)
(*                                                                         *)
(* Abstracts are in their stored form, None is none; a title stands for the*)
(* title and the track.                                                    *)
(***************************************************************************)
EXTENDS Naturals, FiniteSets, Sequences

CONSTANTS
  Abstracts, Titles, ContentStatuses, None,
  Editors,     \* requests under way at once, reused once they have ended
  MaxEdits,    \* bound: requests begun
  MaxLosses    \* bound: requests that break off

VARIABLES
  talk,       \* the session's content
  revisions,  \* session_revisions, in the order of their insertion
  edit,       \* the requests' own state
  had,       \* history: the abstracts the session has had
  torn,       \* history: two requests overlapped, or one broke off
  edits, losses

contentVars == <<talk, revisions, edit, had, torn, edits, losses>>

Texts == Abstracts \cup {None}
Talk == [title : Titles, abstract : Texts, status : ContentStatuses]
Revision == [prior : Texts, new : Texts]
(* What a request writes; a field it leaves alone is a set of no value.     *)
Patch == [title : {{}} \cup {{t} : t \in Titles},
          abstract : {{}} \cup {{x} : x \in Texts},
          status : {{}} \cup {{s} : s \in ContentStatuses}]
Edit == [pc : {"idle", "restore", "read", "speak", "write", "append"},
         patch : Patch,
         revision : {<<>>} \cup {<<x>> : x \in Revision}]
Nothing == [title |-> {}, abstract |-> {}, status |-> {}]
NoEdit == [pc |-> "idle", patch |-> Nothing, revision |-> <<>>]

TypeOK ==
  /\ talk \in Talk /\ revisions \in Seq(Revision)
  /\ edit \in [Editors -> Edit]
  /\ had \subseteq Texts /\ torn \in BOOLEAN /\ edits \in Nat /\ losses \in Nat

Init ==
  /\ talk \in Talk /\ had = {talk.abstract}
  /\ revisions = <<>> /\ edit = [r \in Editors |-> NoEdit]
  /\ torn = FALSE /\ edits = 0 /\ losses = 0

At(r, label) == edit[r].pc = label
Busy == {r \in Editors : ~At(r, "idle")}
Set(r, e) == edit' = [edit EXCEPT ![r] = e]
Close(r) == Set(r, NoEdit)
history == <<had, torn, edits, losses>>

Begin(r, pc, patch) ==
  /\ At(r, "idle") /\ edits < MaxEdits /\ edits' = edits + 1
  /\ Set(r, [NoEdit EXCEPT !.pc = pc, !.patch = patch])
  /\ torn' = (torn \/ Busy # {}) /\ UNCHANGED <<talk, revisions, had, losses>>
(* The agenda's dialog sends title and abstract, the API what it likes.     *)
UpdateSessionContent(r, patch) ==
  patch.title # {} /\ patch.abstract # {} /\ Begin(r, "read", patch)
UpdateSession(r, patch) == patch # Nothing /\ Begin(r, "read", patch)
RestoreAbstractRevision(r, i) ==
  Begin(r, "restore", [Nothing EXCEPT !.abstract = {revisions[i].prior}])
(* Its session is not cancelled. *)
SpeakerEdits(r, x) == Begin(r, "speak", [Nothing EXCEPT !.abstract = {x}])

(* Mutant: the first text a session gets is not taken for a change *)
PlanAfterFirst(prior, next) ==
  IF prior \in {next, None} THEN <<>> ELSE <<[prior |-> prior, new |-> next]>>
PlanAbstractRevision(prior, next) ==
  IF prior = next THEN <<>> ELSE <<[prior |-> prior, new |-> next]>>
RevisionFor(patch) ==
  IF patch.abstract = {} THEN <<>>
  ELSE PlanAbstractRevision(talk.abstract, CHOOSE x \in patch.abstract : TRUE)

(* All else is written back as it was read. *)
Rest(patch) == [patch EXCEPT !.title = {talk.title}, !.status = {talk.status}]
PlanAbstractRestore(r) ==
  LET e == edit[r] IN
  /\ At(r, "restore")
  /\ IF RevisionFor(e.patch) = <<>> THEN Close(r)
     ELSE Set(r, [e EXCEPT !.pc = "read", !.patch = Rest(e.patch)])
  /\ UNCHANGED <<talk, revisions, history>>

(* requireEventSession in updateSession *)
Read(r) ==
  /\ At(r, "read")
  /\ Set(r, [edit[r] EXCEPT !.pc = "write", !.revision = RevisionFor(edit[r].patch)])
  /\ UNCHANGED <<talk, revisions, history>>
SpokenRevision(patch) == RevisionFor(patch)
SyncSessionAbstract(r) ==
  LET e == edit[r] IN
  /\ At(r, "speak")
  /\ IF RevisionFor(e.patch) = <<>> THEN Close(r)
     ELSE Set(r, [e EXCEPT !.pc = "write", !.revision = SpokenRevision(e.patch)])
  /\ UNCHANGED <<talk, revisions, history>>

Or(new, old) == IF new = {} THEN old ELSE CHOOSE x \in new : TRUE
Write(r) ==
  LET p == edit[r].patch IN
  /\ At(r, "write")
  /\ talk' = [title |-> Or(p.title, talk.title), abstract |-> Or(p.abstract, talk.abstract),
              status |-> Or(p.status, talk.status)]
  /\ had' = had \cup {talk'.abstract}
  /\ IF edit[r].revision = <<>> THEN Close(r) ELSE Set(r, [edit[r] EXCEPT !.pc = "append"])
  /\ UNCHANGED <<revisions, torn, edits, losses>>
AppendRevision(r) ==
  /\ At(r, "append") /\ revisions' = revisions \o edit[r].revision
  /\ Close(r) /\ UNCHANGED <<talk, history>>

Lose(r) ==
  /\ r \in Busy /\ losses < MaxLosses /\ losses' = losses + 1
  /\ torn' = TRUE /\ Close(r) /\ UNCHANGED <<talk, revisions, had, edits>>

Next ==
  \E r \in Editors :
    \/ \E patch \in Patch : UpdateSessionContent(r, patch) \/ UpdateSession(r, patch)
    \/ \E i \in 1..Len(revisions) : RestoreAbstractRevision(r, i)
    \/ \E x \in Texts : SpeakerEdits(r, x)
    \/ PlanAbstractRestore(r) \/ Read(r) \/ SyncSessionAbstract(r)
    \/ Write(r) \/ AppendRevision(r) \/ Lose(r)

Spec == Init /\ [][Next]_contentVars

----------------------------------------------------------------------------
(* Properties *)

(* While edits neither overlap nor break off, every abstract the session    *)
(* has had can be restored, and the newest revision leads to the current    *)
(* one, however often something was restored in between.  However edits     *)
(* overlap, none is forgotten: the history knows it as somebody's old or    *)
(* new text, as long as no request breaks off between the session and its   *)
(* revision (planAbstractRevision, planAbstractRestore,                     *)
(* syncSessionAbstract, updateSession).                                     *)
VersionsRestorable ==
  Busy = {} =>
    /\ ~torn => \A x \in had \ {talk.abstract} : \E i \in 1..Len(revisions) : revisions[i].prior = x
    /\ ~torn /\ revisions # <<>> => revisions[Len(revisions)].new = talk.abstract
    /\ losses = 0 =>
         \A x \in had \ {talk.abstract} :
           \E i \in 1..Len(revisions) : x \in {revisions[i].prior, revisions[i].new}
=============================================================================
