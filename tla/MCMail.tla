------------------------------- MODULE MCMail -------------------------------
(* The scheduled and manual mail on small instances: the digests, or the    *)
(* draft reminders, or one session's calendar invitations, or the wording.  *)
EXTENDS Digests, TLC

CONSTANTS
  Jobs, Drafts, MaxMoves,
  Sends, MaxPlaces, MaxSent, MaxFaults,
  Editors, Notices, MaxEdits

VARIABLES
  part,
  draft, form, reminded, nudges, excused, job, faults, moves,
  place, roster, refusing, logged, calendar, send, lost, slips, begun,
  channel, field, rows, edit, notice, latest, overlapped, typed

Nudging == INSTANCE DraftReminders
Inviting == INSTANCE Invitations
Writing == INSTANCE Wording WITH Sends <- Notices, send <- notice

nudging == <<draft, form, reminded, nudges, excused, job, faults, moves>>
inviting == <<place, roster, refusing, logged, calendar, send, lost, slips, begun>>
writing == <<channel, field, rows, edit, notice, latest, overlapped, typed>>

(* The parts that do not run are nowhere. *)
NoDigests ==
  /\ day = 0 /\ owes = {} /\ declined = {} /\ started = {}
  /\ age = [x \in Pairs |-> Week] /\ silent = age
  /\ run = [r \in Runs |-> Idle] /\ ran = {} /\ failures = 0 /\ changes = 0
NoDrafts ==
  /\ draft = 0 /\ form = 0 /\ reminded = 0 /\ nudges = 0 /\ excused = 0
  /\ job = 0 /\ faults = 0 /\ moves = 0
NoInvitations ==
  /\ place = 0 /\ roster = 0 /\ refusing = 0 /\ logged = 0 /\ calendar = 0
  /\ send = 0 /\ lost = 0 /\ slips = 0 /\ begun = 0
NoWording ==
  /\ channel = 0 /\ field = 0 /\ rows = 0 /\ edit = 0
  /\ notice = 0 /\ latest = 0 /\ overlapped = 0 /\ typed = 0

Gather ==
  \/ part = "digests" /\ Init /\ NoDrafts /\ NoInvitations /\ NoWording
  \/ part = "drafts" /\ NoDigests /\ Nudging!Init /\ NoInvitations /\ NoWording
  \/ part = "invitations" /\ NoDigests /\ NoDrafts /\ Inviting!Init /\ NoWording
  \/ part = "wording" /\ NoDigests /\ NoDrafts /\ NoInvitations /\ Writing!Init
Work ==
  \/ part = "digests" /\ Next /\ UNCHANGED <<part, nudging, inviting, writing>>
  \/ part = "drafts" /\ Nudging!Next /\ UNCHANGED <<part, vars, inviting, writing>>
  \/ part = "invitations" /\ Inviting!Next /\ UNCHANGED <<part, vars, nudging, writing>>
  \/ part = "wording" /\ Writing!Next /\ UNCHANGED <<part, vars, nudging, inviting>>
all == <<part, vars, nudging, inviting, writing>>
Mail == Gather /\ [][Work]_all

(* The fairness of FairSpec in Digests; every part else may stop. *)
FairMail ==
  /\ Mail
  /\ WF_all(part = "digests" /\ Tick /\ UNCHANGED <<part, nudging, inviting, writing>>)
  /\ \A r \in Runs :
       WF_all(part = "digests" /\ Step(r) /\ UNCHANGED <<part, nudging, inviting, writing>>)
  /\ \A r \in CronRuns :
       SF_all(part = "digests" /\ Cron(r) /\ InWindow /\ UNCHANGED <<part, nudging, inviting, writing>>)

(* Nobody is chased for what was done, declined or over before the run      *)
(* began, and no deadline is announced that is none, by the digests and by  *)
(* the draft reminders, and nobody is reminded twice of one draft unless    *)
(* runs overlapped or a row was lost (sendTaskDigests, remindAboutDrafts).  *)
NobodyMailedInVain ==
  /\ part = "digests" => NobodyChasedInVain
  /\ part = "drafts" =>
       Nudging!SubmittersAreSpared /\ Nudging!DeadlinesAreReal /\ Nudging!NudgedOnce

(* The property of Invitations, stated there.                               *)
UpdatesLand == part = "invitations" => Inviting!UpdatesLand

(* What was let through leaves no hole but where its message has no value,  *)
(* and the wording saved last goes out (checkTemplateDraft, the merge data  *)
(* of the sends; saveTemplateOverride, resolveCommsTemplate).               *)
WordingHolds ==
  part = "wording" => Writing!NothingLeftBlank /\ Writing!WordingTakesHold
=============================================================================
