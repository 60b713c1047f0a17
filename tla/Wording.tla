------------------------------ MODULE Wording ------------------------------
(***************************************************************************)
(* What the event's mail says.  Every template has built-in copy, which an *)
(* organizer overrides by a row of email_templates; rows have no unique    *)
(* key, so one is looked for before it is written.  Copy names the fields  *)
(* it wants filled in, the editor offers those its send path can fill, and *)
(* the send paths fill them.  A composed message is checked the same way,  *)
(* the confirmation copy of a form is not.                                 *)
(***************************************************************************)
EXTENDS Naturals, Sequences, SequencesExt

CONSTANTS
  Editors,   \* requests that save or reset the wording
  Sends,
  MaxEdits   \* bound: wordings typed

VARIABLES
  channel,   \* the template, or composer, this is about
  field,     \* a field the organizer uses besides those any message has
  rows,      \* the override rows of the template, oldest first
  edit,
  send,
  latest,    \* history: the wording written last; 0 is the built-in copy
  overlapped,\* history: two edits were under way at once
  typed

wordingVars == <<channel, field, rows, edit, send, latest, overlapped, typed>>

----------------------------------------------------------------------------
(* The fields every message has, and what the event and the person give.    *)
EventFields == {"eventName", "eventDates", "eventLocation", "eventTimezone",
                "eventUrl", "organizerName", "organizerEmail", "portalUrl"}
SpeakerFields == {"speakerName", "speakerFirstName"}
Common == EventFields \cup SpeakerFields
SessionFields == {"sessionTitle", "sessionWhen", "sessionRoom", "sessionDuration"}
Decisions == {"submission_accepted", "submission_waitlisted", "submission_declined"}
DraftChannels == {"draft_saved", "draft_reminder"}
Templates ==
  Decisions \cup DraftChannels \cup
  {"submission_confirmation", "change_request", "task_assigned", "task_digest",
   "round_reminder", "calendar_invite", "portal_invite"}
Composers == {"manual", "directory"}
MergeFields ==
  Common \cup SessionFields \cup
  {"submissionTitle", "submissionUrl", "resumeUrl", "decisionNote", "changeRequest",
   "changeDueDate", "taskTitle", "taskInstructions", "taskDueDate", "outstandingTasks",
   "assignedTasks", "directToSession", "roundName", "pendingScorecards", "roundQueueUrl"}

(* TEMPLATE_MERGE_FIELDS, MANUAL_MERGE_FIELDS and ORG_MERGE_FIELDS.         *)
DraftFields == {"submissionTitle", "changeDueDate", "resumeUrl", "directToSession"}
Offered(c) ==
  CASE c = "directory" -> SpeakerFields \cup {"organizerName", "organizerEmail", "portalUrl"}
    [] c = "submission_confirmation" -> Common \cup {"submissionTitle", "changeDueDate"}
    [] c \in DraftChannels -> Common \cup DraftFields
    [] c = "submission_accepted" ->
         Common \cup SessionFields \cup {"submissionTitle", "decisionNote", "outstandingTasks"}
    [] c \in {"submission_waitlisted", "submission_declined"} ->
         Common \cup SessionFields \cup {"submissionTitle", "decisionNote"}
    [] c = "change_request" ->
         Common \cup {"submissionTitle", "submissionUrl", "changeRequest", "changeDueDate"}
    [] c = "task_assigned" -> Common \cup {"assignedTasks"}
    [] c \in {"task_digest", "portal_invite", "manual"} -> Common \cup {"outstandingTasks"}
    [] c = "round_reminder" -> Common \cup {"roundName", "pendingScorecards", "roundQueueUrl"}
    [] c = "calendar_invite" -> Common \cup SessionFields

(* The fields the built-in copy names outside a section of their own, which *)
(* is left out where the field is empty, besides those any message has.     *)
BuiltIn(c) ==
  CASE c \in {"submission_confirmation"} \cup Decisions -> {"submissionTitle"}
    [] c \in DraftChannels -> {"submissionTitle", "resumeUrl"}
    [] c = "change_request" -> {"submissionTitle", "changeRequest"}
    [] c \in {"task_assigned", "task_digest", "portal_invite"} -> {}
    [] c = "round_reminder" -> {"roundName", "pendingScorecards", "roundQueueUrl"}
    [] c = "calendar_invite" -> {"sessionTitle", "sessionWhen"}

(* What the send paths fill in.                                             *)
ConfirmationGives == {"submissionTitle", "changeDueDate"}
DraftGives == {"submissionTitle", "resumeUrl", "changeDueDate", "directToSession"}
DecisionGives == {"submissionTitle", "decisionNote", "outstandingTasks"} \cup SessionFields
ChangeRequestGives == {"submissionTitle", "submissionUrl", "changeRequest", "changeDueDate"}
AssignmentGives == {"assignedTasks"}
DigestGives == {"outstandingTasks"}
RoundGives == {"roundName", "pendingScorecards", "roundQueueUrl"}
PortalGives == {"outstandingTasks"}
ManualGives == {"outstandingTasks"}
DirectoryGives == SpeakerFields \cup {"organizerName", "organizerEmail", "portalUrl"}
Given(c) ==
  IF c = "directory" THEN DirectoryGives
  ELSE Common \cup
    CASE c = "submission_confirmation" -> ConfirmationGives
      [] c \in DraftChannels -> DraftGives
      [] c \in Decisions -> DecisionGives
      [] c = "change_request" -> ChangeRequestGives
      [] c = "task_assigned" -> AssignmentGives
      [] c = "task_digest" -> DigestGives
      [] c = "round_reminder" -> RoundGives
      [] c = "calendar_invite" -> SessionFields
      [] c = "portal_invite" -> PortalGives
      [] c = "manual" -> ManualGives

(* Of those, the ones a message may have no value for: an event without     *)
(* dates or a place, a form that never closes or has closed, a session      *)
(* without a slot or a room, or none, a speaker who owes nothing.           *)
MayLack(c) ==
  IF c = "directory" THEN {}
  ELSE {"eventDates", "eventLocation"} \cup
    CASE c = "submission_confirmation" -> {"changeDueDate"}
      [] c \in DraftChannels -> {"changeDueDate", "directToSession"}
      [] c \in Decisions -> {"decisionNote", "outstandingTasks"} \cup SessionFields
      [] c = "change_request" -> {"submissionUrl", "changeDueDate"}
      [] c = "calendar_invite" -> {"sessionRoom"}
      [] c \in {"portal_invite", "manual"} -> {"outstandingTasks"}
      [] c \in {"task_assigned", "task_digest", "round_reminder"} -> {}

----------------------------------------------------------------------------
Row == [id : Nat, text : Nat]
Edit == [pc : {"idle", "find", "write"}, reset : BOOLEAN, text : Nat, found : Nat]
Send == [pc : {"idle", "read", "sent"}, own : BOOLEAN, text : Nat, meant : Nat]
Resting == [pc |-> "idle", reset |-> FALSE, text |-> 0, found |-> 0]
Unsent == [pc |-> "idle", own |-> FALSE, text |-> 0, meant |-> 0]

TypeOK ==
  /\ channel \in Templates \cup Composers /\ field \in MergeFields
  /\ rows \in Seq(Row) /\ edit \in [Editors -> Edit] /\ send \in [Sends -> Send]
  /\ latest \in Nat /\ overlapped \in BOOLEAN /\ typed \in Nat

Init ==
  /\ channel \in Templates \cup Composers
  /\ field \in (MergeFields \ Common) \cup {"eventName", "eventLocation"}
  /\ rows = <<>>
  /\ edit = [e \in Editors |-> Resting] /\ send = [s \in Sends |-> Unsent]
  /\ latest = 0 /\ overlapped = FALSE /\ typed = 0

At(e, label) == edit[e].pc = label
SetEdit(e, q) == edit' = [edit EXCEPT ![e] = q]
Uses(text) == IF text = 0 THEN BuiltIn(channel) ELSE {field}
There(id) == \E i \in DOMAIN rows : rows[i].id = id
about == <<channel, field>>

----------------------------------------------------------------------------
(* saveTemplateOverride and resetTemplateOverride.  Copy that names a field *)
(* its message has no value for is refused.                                 *)
(* Mutant: any merge field there is passes the check *)
PassesAsField == field \in MergeFields
Passes == field \in Offered(channel)

Save(e) ==
  /\ channel \in Templates /\ At(e, "idle")
  /\ typed < MaxEdits /\ Passes
  /\ typed' = typed + 1
  /\ SetEdit(e, [Resting EXCEPT !.pc = "find", !.text = typed + 1])
  /\ UNCHANGED <<about, rows, send, latest, overlapped>>
Reset(e) ==
  /\ channel \in Templates /\ At(e, "idle") /\ typed \in 1..(MaxEdits - 1)
  /\ typed' = typed + 1
  /\ SetEdit(e, [Resting EXCEPT !.pc = "find", !.reset = TRUE])
  /\ UNCHANGED <<about, rows, send, latest, overlapped>>

(* findOverride takes the first row of the template.                        *)
(* Mutant: a save does not look for the row there is *)
FoundOnReset(e) == IF rows = <<>> \/ ~edit[e].reset THEN 0 ELSE Head(rows).id
Found(e) == IF rows = <<>> THEN 0 ELSE Head(rows).id
FindOverride(e) ==
  /\ At(e, "find")
  /\ SetEdit(e, IF edit[e].reset /\ Found(e) = 0 THEN Resting
                ELSE [edit[e] EXCEPT !.pc = "write", !.found = Found(e)])
  /\ overlapped' = (overlapped \/ \E o \in Editors \ {e} : At(o, "write"))
  /\ UNCHANGED <<about, rows, send, latest, typed>>

(* A row is made, or the one that was found changed, whatever it says now:  *)
(* deleted meanwhile, it cannot be, and the organizer is told.  Of the row  *)
(* to delete nothing is said.  A row has the number of its first wording    *)
(* for an id.                                                               *)
Create(e) ==
  /\ At(e, "write") /\ edit[e].found = 0
  /\ rows' = Append(rows, [id |-> edit[e].text, text |-> edit[e].text])
  /\ latest' = edit[e].text
  /\ SetEdit(e, Resting)
  /\ UNCHANGED <<about, send, overlapped, typed>>
Update(e) ==
  LET q == edit[e] IN
  /\ At(e, "write") /\ q.found # 0 /\ ~q.reset
  /\ rows' = [i \in DOMAIN rows |->
                IF rows[i].id = q.found THEN [rows[i] EXCEPT !.text = q.text] ELSE rows[i]]
  /\ latest' = IF There(q.found) THEN q.text ELSE latest
  /\ SetEdit(e, Resting)
  /\ UNCHANGED <<about, send, overlapped, typed>>
Delete(e) ==
  /\ At(e, "write") /\ edit[e].reset
  /\ IF There(edit[e].found)
     THEN \E i \in DOMAIN rows : rows[i].id = edit[e].found /\ rows' = RemoveAt(rows, i)
     ELSE UNCHANGED rows
  /\ latest' = 0
  /\ SetEdit(e, Resting)
  /\ UNCHANGED <<about, send, overlapped, typed>>

----------------------------------------------------------------------------
(* resolveCommsTemplate: the last row of the template, else built-in copy.  *)
Resolve == IF rows = <<>> THEN 0 ELSE Last(rows).text

(* A send path reads what it is about, then the overrides; copy it cannot   *)
(* read must not stop it.  A composer's message is its own wording, and so  *)
(* is a confirmation whose form has copy of its own, which no check refuses.*)
(* What went out stays until the next send.                                 *)
Begin(s, own) ==
  /\ send[s].pc # "read"
  /\ channel \in Composers => own /\ Passes
  /\ own => channel \in Composers \cup {"submission_confirmation"}
  /\ send' = [send EXCEPT ![s] = [Unsent EXCEPT !.pc = "read", !.own = own]]
  /\ UNCHANGED <<about, rows, edit, latest, overlapped, typed>>
EventTemplateOverrides(s) ==
  /\ send[s].pc = "read"
  /\ LET text == IF send[s].own THEN 1 ELSE Resolve IN
     send' = [send EXCEPT ![s].pc = "sent", ![s].text = text,
                          ![s].meant = IF send[s].own \/ overlapped THEN text ELSE latest]
  /\ UNCHANGED <<about, rows, edit, latest, overlapped, typed>>
OverridesUnreadable(s) ==
  /\ send[s].pc = "read" /\ ~send[s].own
  /\ send' = [send EXCEPT ![s].pc = "sent", ![s].text = 0, ![s].meant = 0]
  /\ UNCHANGED <<about, rows, edit, latest, overlapped, typed>>

(* The holes in what was sent, where its message had no value for `lacks`.  *)
Blank(s, lacks) == Uses(send[s].text) \ (Given(channel) \ lacks)

Next ==
  \/ \E e \in Editors :
       Save(e) \/ Reset(e) \/ FindOverride(e) \/ Create(e) \/ Update(e) \/ Delete(e)
  \/ \E s \in Sends :
       \/ EventTemplateOverrides(s) \/ OverridesUnreadable(s)
       \/ \E own \in BOOLEAN : Begin(s, own)
Spec == Init /\ [][Next]_wordingVars

----------------------------------------------------------------------------
(* The built-in copy never goes out with a hole, whatever the event, the    *)
(* session, the form or the speaker lacks: what may be empty it names in a  *)
(* section of its own.  Copy the check let through, an override or a        *)
(* composed message, has one only for a field its send path does fill in,   *)
(* where that message has no value for it; a form's own confirmation may    *)
(* have any (the seeds and TEMPLATE_MERGE_FIELDS against the merge data of  *)
(* each send; checkTemplateDraft).                                          *)
NothingLeftBlank ==
  \A s \in Sends : send[s].pc = "sent" =>
    \A lacks \in SUBSET MayLack(channel) :
      /\ send[s].text = 0 => Blank(s, lacks) = {}
      /\ ~(channel = "submission_confirmation" /\ send[s].own) => Blank(s, lacks) \subseteq lacks

(* The wording saved last is what the next mail says, and after a reset it  *)
(* is the built-in copy again, unless two edits were under way at once      *)
(* (saveTemplateOverride, resetTemplateOverride, resolveCommsTemplate).     *)
WordingTakesHold ==
  /\ ~overlapped => Resolve = latest
  /\ \A s \in Sends : send[s].text = send[s].meant
=============================================================================
