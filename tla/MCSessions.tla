----------------------------- MODULE MCSessions -----------------------------
(* From proposal to session on small instances: decided one request at a    *)
(* time, or its text edited, or its speaker's files handed in.              *)
EXTENDS MCDecision

CONSTANTS Abstracts, Titles, ContentStatuses, Editors, MaxEdits, MaxLosses

VARIABLES
  part,
  talk, revisions, edit, had, torn, edits, losses,
  assignment, versions, headshot, portraits, form, sent, stood, lost

Content == INSTANCE SessionContent
Handed == INSTANCE Uploads WITH Uploaders <- Requests, req <- sent, torn <- lost

editing == <<talk, revisions, edit, had, torn, edits, losses>>
handing == <<assignment, versions, headshot, portraits, form, sent, stood, lost>>

(* The parts that do not run are nowhere; proposals wait for a decision.    *)
NoDecisions ==
  /\ Init /\ links = [s \in Submissions |-> Speakers]
  /\ status = [s \in Submissions |-> "submitted"]
NoContent ==
  /\ talk = 0 /\ revisions = 0 /\ edit = 0 /\ had = 0 /\ torn = 0
  /\ edits = 0 /\ losses = 0
NoFiles ==
  /\ assignment = 0 /\ versions = 0 /\ headshot = 0 /\ portraits = 0
  /\ form = 0 /\ sent = 0 /\ stood = 0 /\ lost = 0

Open ==
  \/ part = "decisions" /\ Init /\ NoContent /\ NoFiles
  \/ part = "content" /\ NoDecisions /\ Content!Init /\ NoFiles
  \/ part = "files" /\ NoDecisions /\ NoContent /\ Handed!Init /\ headshot = None
  \/ part = "headshot" /\ NoDecisions /\ NoContent /\ Handed!Init /\ assignment.file = None
Work ==
  \/ part = "decisions" /\ Next /\ UNCHANGED <<part, editing, handing>>
  \/ part = "content" /\ Content!Next /\ UNCHANGED <<part, vars, handing>>
  \/ part = "files" /\ Handed!TaskNext /\ UNCHANGED <<part, vars, editing>>
  \/ part = "headshot" /\ Handed!HeadshotNext /\ UNCHANGED <<part, vars, editing>>
Sessions == Open /\ [][Work]_<<part, vars, editing, handing>>

(* What a text replaced stays to be found again (planAbstractRevision in    *)
(* src/domain/session-content.ts, updateSession in src/domain/admin-api.ts).*)
VersionsRestorable == part = "content" => Content!VersionsRestorable
(* So does what a file replaced, and the headshot that renders              *)
(* (recordFileVersion in src/app/portal/actions.ts, saveProfile).           *)
FilesKept == part \in {"files", "headshot"} => Handed!FilesKept
=============================================================================
