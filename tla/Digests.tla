------------------------------ MODULE Digests ------------------------------
(***************************************************************************)
(* The task digest: one mail per speaker and event, listing what is still  *)
(* open.  The cron sends it in the one tick a week that covers Monday 07:00*)
(* UTC, an organizer's button at any time.  Neither keeps a flag: who was  *)
(* mailed lately is read from email_log, whose row is written after the    *)
(* mail has left, so runs that overlap and rows that are lost matter.  The *)
(* button is behind a dialog that names a number: the page that has it was *)
(* read at some time before, and stays open as long as it likes.           *)
(*                                                                         *)
(* Time is counted in days, and a week has Week of them.  A Worker         *)
(* invocation lives less than a day: the clock stands while a run is under *)
(* way, though not while a page is open.                                   *)
(***************************************************************************)
EXTENDS Naturals, FiniteSets

CONSTANTS
  CronRuns,     \* runs of the schedule (runReminderJob)
  ButtonRuns,   \* runs of the organizer's button (runTaskDigestJob)
  Events, Speakers,
  None,
  Week,          \* days between two digest windows
  CronSilence,   \* TASK_DIGEST_COOLDOWN_DAYS
  ManualSilence, \* MANUAL_TASK_DIGEST_COOLDOWN_HOURS, in days
  MaxFailures,   \* bound: mails that bounce, rows lost, workers stopped
  MaxChanges     \* bound: changes of mind and of the checklists

ASSUME DigestConstants ==
  /\ CronRuns \cap ButtonRuns = {}
  /\ None \notin Events \cup Speakers
  /\ {Week, CronSilence, ManualSilence, MaxFailures, MaxChanges} \subseteq Nat
  /\ 0 < ManualSilence /\ ManualSilence <= CronSilence /\ CronSilence < Week

VARIABLES
  day,       \* the day of the week; the digest window is on day 0
  owes,      \* <<event, speaker>> with an assignment that is not completed
  declined,  \* <<event, speaker>> whose confirmation says declined
  started,   \* events whose first day has come
  age,       \* days since the last digest email_log has as sent, at most Week
  silent,    \* history: days since a digest really arrived, at most Week
  run,       \* the runs' own state
  ran,       \* bound: runs that have begun today, each at most once a day
  failures, changes

vars == <<day, owes, declined, started, age, silent, run, ran, failures, changes>>
world == <<day, owes, declined, started, changes>>

Pairs == Events \X Speakers
Runs == CronRuns \cup ButtonRuns
Days == 0..Week

Run ==
  [pc : {"idle", "page", "dialog",
         "drafts", "event", "read", "speaker", "send", "record", "refused"},
   unread : SUBSET Events,      \* events still to come
   event : Events \cup {None},  \* the one it is at, or its page is about
   open : SUBSET Speakers,      \* whose assignments it read as incomplete
   last : [Speakers -> Days],   \* lastDigestTimes
   out : SUBSET Speakers,       \* who had declined when it read that
   rest : SUBSET Speakers,      \* the speakers it has yet to decide about
   mail : Speakers \cup {None}, \* the one it is mailing
   promised : SUBSET Speakers,  \* what the button's dialog counted
   quiet : SUBSET Pairs,        \* history: of whom nothing changed since the page
   missed : SUBSET Speakers,    \* history: whom another run mailed after it read the log
   clear : SUBSET Pairs,        \* history: who has owed nothing since it began
   away : SUBSET Pairs]         \* history: who has been declined since then

TypeOK ==
  /\ day \in 0..(Week - 1)
  /\ owes \subseteq Pairs /\ declined \subseteq Pairs /\ started \subseteq Events
  /\ age \in [Pairs -> Days] /\ silent \in [Pairs -> Days]
  /\ run \in [Runs -> Run] /\ ran \subseteq Runs
  /\ failures \in 0..MaxFailures /\ changes \in 0..MaxChanges

Idle ==
  [pc |-> "idle", unread |-> {}, event |-> None, open |-> {},
   last |-> [p \in Speakers |-> Week], out |-> {}, rest |-> {}, mail |-> None,
   promised |-> {}, quiet |-> {}, missed |-> {}, clear |-> {}, away |-> {}]

Init ==
  /\ day \in 0..(Week - 1)
  /\ owes \in SUBSET Pairs
  /\ declined = {} /\ started = {}
  /\ age = [x \in Pairs |-> Week] /\ silent = age
  /\ run = [r \in Runs |-> Idle] /\ ran = {}
  /\ failures = 0 /\ changes = 0

At(r, label) == run[r].pc = label
Set(r, q) == run' = [run EXCEPT ![r] = q]
InFlight == {r \in Runs : run[r].pc \notin {"idle", "page", "dialog"}}
Due(x) == x \in owes /\ x \notin declined /\ x[1] \notin started

(* A pair about which a page reads tomorrow what it reads today             *)
Steady(x) ==
  /\ x \in owes' <=> x \in owes
  /\ x \in declined' <=> x \in declined
  /\ x[1] \in started' <=> x[1] \in started
  /\ age'[x] >= ManualSilence <=> age[x] >= ManualSilence
(* A run, or a page, that has yet to read while something else happens      *)
Beside(q) ==
  [q EXCEPT !.quiet = {x \in @ :
     q.pc \in {"page", "dialog", "event", "read"} => Steady(x)}]

----------------------------------------------------------------------------
(* The world *)

Older(f) == [x \in Pairs |-> IF f[x] < Week THEN f[x] + 1 ELSE Week]
Tick ==
  /\ InFlight = {}
  /\ day' = (day + 1) % Week
  /\ age' = Older(age) /\ silent' = Older(silent)
  /\ ran' = {}
  /\ UNCHANGED <<owes, declined, started, failures, changes>>
  /\ run' = [r \in Runs |-> Beside(run[r])]

Changed ==
  /\ changes < MaxChanges /\ changes' = changes + 1
  /\ UNCHANGED <<day, age, silent, ran, failures>>
  /\ run' = [r \in Runs |->
               [Beside(run[r]) EXCEPT !.clear = @ \ owes', !.away = @ \cap declined']]

Complete(x) ==
  /\ x \in owes /\ owes' = owes \ {x}
  /\ UNCHANGED <<declined, started>> /\ Changed
Hand(x) ==
  /\ x \notin owes /\ owes' = owes \cup {x}
  /\ UNCHANGED <<declined, started>> /\ Changed
Answer(x) ==
  /\ declined' = IF x \in declined THEN declined \ {x} ELSE declined \cup {x}
  /\ UNCHANGED <<owes, started>> /\ Changed
(* An event comes between two days: no run sees both sides of it. *)
Start(e) ==
  /\ InFlight = {} /\ e \notin started /\ started' = started \cup {e}
  /\ UNCHANGED <<owes, declined>> /\ Changed

----------------------------------------------------------------------------
(* A run *)

(* The page of the button: whose tasks are open, then the log and the       *)
(* confirmations, and with them the number the dialog will name.            *)
PageReadsWork(r, e) ==
  /\ r \in ButtonRuns /\ run[r].pc \in {"idle", "dialog"}
  /\ Set(r, [Idle EXCEPT !.pc = "page", !.event = e,
                         !.open = {p \in Speakers : <<e, p>> \in owes},
                         !.quiet = {e} \X Speakers])
  /\ UNCHANGED <<world, ran, age, silent, failures>>

(* Mutant: the dialog counts with the cron's silence *)
PreviewWeekly(e, open) ==
  {p \in open : <<e, p>> \notin declined /\ e \notin started /\ age[<<e, p>>] >= CronSilence}
(* Whom a press of the button would reach *)
PreviewTaskDigest(e, open) ==
  {p \in open : <<e, p>> \notin declined /\ e \notin started /\ age[<<e, p>>] >= ManualSilence}
PageReadsRecipients(r) ==
  /\ At(r, "page")
  /\ Set(r, [run[r] EXCEPT !.pc = "dialog", !.open = {},
                           !.promised = PreviewTaskDigest(run[r].event, run[r].open)])
  /\ UNCHANGED <<world, ran, age, silent, failures>>

Begin(r, q) ==
  /\ r \notin ran /\ ran' = ran \cup {r}
  /\ Set(r, [q EXCEPT !.clear = Pairs \ owes, !.away = declined])
  /\ UNCHANGED <<world, age, silent, failures>>
Cron(r) ==
  /\ r \in CronRuns /\ At(r, "idle")
  /\ Begin(r, [Idle EXCEPT !.pc = "drafts", !.unread = Events])
(* The button is pressed, however old the page *)
Button(r) ==
  /\ At(r, "dialog")
  /\ Begin(r, [run[r] EXCEPT !.pc = "event", !.unread = {run[r].event}, !.event = None])

(* Mutant: Monday counted as in a week that begins with day 1 on Sunday *)
InWindowOfNoDay == day = Week
InWindow == day = 0

(* The draft reminders come first, and what they throw ends the run (Stop). *)
DraftsDone(r) ==
  /\ At(r, "drafts")
  /\ Set(r, IF InWindow THEN [run[r] EXCEPT !.pc = "event"] ELSE Idle)
  /\ UNCHANGED <<world, ran, age, silent, failures>>

ReadAssignments(r, e) ==
  /\ At(r, "event") /\ e \in run[r].unread
  /\ Set(r, [run[r] EXCEPT !.pc = "read", !.unread = @ \ {e}, !.event = e,
                           !.open = {p \in Speakers : <<e, p>> \in owes},
                           !.rest = Speakers])
  /\ UNCHANGED <<world, ran, age, silent, failures>>

PastReading == {"speaker", "send", "record", "refused"}
Mailing(r) == <<run[r].event, run[r].mail>>
Logged(e) == [p \in Speakers |-> age[<<e, p>>]]
(* The log and the confirmations are asked for together. *)
ReadRecipients(r) ==
  /\ At(r, "read")
  /\ Set(r, [run[r] EXCEPT !.pc = "speaker", !.last = Logged(run[r].event),
                           !.out = {p \in Speakers : <<run[r].event, p>> \in declined},
                           !.missed = {p \in Speakers : \E o \in Runs :
                                         At(o, "record") /\ Mailing(o) = <<run[r].event, p>>}])
  /\ UNCHANGED <<world, ran, age, silent, failures>>

(* Mutant: the button owes no silence *)
SilenceIfCron(r) == IF r \in CronRuns THEN CronSilence ELSE 0
SilenceOf(r) == IF r \in CronRuns THEN CronSilence ELSE ManualSilence

Cooling(r, p) == run[r].last[p] < SilenceOf(r)

(* Mutant: a speaker who has declined is still chased *)
ToMailAnyway(r, p) ==
  p \in run[r].open /\ run[r].event \notin started /\ ~Cooling(r, p)
ToMail(r, p) ==
  /\ p \notin run[r].out
  /\ p \in run[r].open /\ run[r].event \notin started /\ ~Cooling(r, p)

Decide(r, p) ==
  /\ At(r, "speaker") /\ p \in run[r].rest
  /\ Set(r, IF ToMail(r, p)
            THEN [run[r] EXCEPT !.pc = "send", !.rest = @ \ {p}, !.mail = p]
            ELSE [run[r] EXCEPT !.rest = @ \ {p}])
  /\ UNCHANGED <<world, ran, age, silent, failures>>

(* Its mail reaches the speaker behind the back of the runs that have read  *)
(* the log of its event.                                                    *)
Deliver(r) ==
  /\ At(r, "send")
  /\ silent' = [silent EXCEPT ![Mailing(r)] = 0]
  /\ run' = [o \in Runs |->
               IF o = r THEN [run[r] EXCEPT !.pc = "record"]
               ELSE IF run[o].event = run[r].event /\ run[o].pc \in PastReading
                    THEN [run[o] EXCEPT !.missed = @ \cup {run[r].mail}] ELSE run[o]]
  /\ UNCHANGED <<world, ran, age, failures>>

(* The transport refuses the mail. *)
Bounce(r) ==
  /\ At(r, "send") /\ failures < MaxFailures /\ failures' = failures + 1
  /\ Set(r, [run[r] EXCEPT !.pc = "refused"])
  /\ UNCHANGED <<world, ran, age, silent>>

Record(r) ==
  /\ At(r, "record")
  /\ age' = [age EXCEPT ![Mailing(r)] = 0]
  /\ UNCHANGED <<world, ran, silent, failures>>
  /\ run' = [o \in Runs |->
               IF o = r THEN [run[r] EXCEPT !.pc = "speaker", !.mail = None]
               ELSE Beside(run[o])]

(* A mail that was refused is logged as failed: nobody is silenced by it.   *)
RecordFailure(r) ==
  /\ At(r, "refused")
  /\ Set(r, [run[r] EXCEPT !.pc = "speaker", !.mail = None])
  /\ UNCHANGED <<world, ran, age, silent, failures>>

(* The row of a mail that has left is lost: a warning, and the run goes on. *)
LoseRow(r) ==
  /\ At(r, "record") /\ failures < MaxFailures /\ failures' = failures + 1
  /\ Set(r, [run[r] EXCEPT !.pc = "speaker", !.mail = None])
  /\ UNCHANGED <<world, ran, age, silent>>

NextEvent(r) ==
  /\ At(r, "speaker") /\ run[r].rest = {} /\ run[r].unread # {}
  /\ Set(r, [run[r] EXCEPT !.pc = "event", !.event = None])
  /\ UNCHANGED <<world, ran, age, silent, failures>>

Finish(r) ==
  /\ At(r, "speaker") /\ run[r].rest = {} /\ run[r].unread = {}
  /\ Set(r, Idle)
  /\ UNCHANGED <<world, ran, age, silent, failures>>

(* The worker stops, or a read throws. *)
Stop(r) ==
  /\ r \in InFlight /\ failures < MaxFailures /\ failures' = failures + 1
  /\ Set(r, Idle)
  /\ UNCHANGED <<world, ran, age, silent>>

Step(r) ==
  \/ DraftsDone(r)
  \/ \E e \in Events : ReadAssignments(r, e)
  \/ ReadRecipients(r)
  \/ \E p \in Speakers : Decide(r, p)
  \/ Deliver(r) \/ Record(r) \/ RecordFailure(r)
  \/ NextEvent(r) \/ Finish(r)

Next ==
  \/ Tick
  \/ \E x \in Pairs : Complete(x) \/ Hand(x) \/ Answer(x)
  \/ \E e \in Events : Start(e)
  \/ \E r \in CronRuns : Cron(r)
  \/ \E r \in ButtonRuns, e \in Events : PageReadsWork(r, e)
  \/ \E r \in ButtonRuns : PageReadsRecipients(r) \/ Button(r)
  \/ \E r \in Runs : Step(r) \/ Bounce(r) \/ LoseRow(r) \/ Stop(r)

Spec == Init /\ [][Next]_vars

(* Days pass, a run under way goes on, and although a single tick of the    *)
(* cron may be missed, the window's never is for ever.                      *)
FairSpec ==
  /\ Spec
  /\ WF_vars(Tick)
  /\ \A r \in Runs : WF_vars(Step(r))
  /\ \A r \in CronRuns : SF_vars(Cron(r) /\ InWindow)

----------------------------------------------------------------------------
(* Properties *)

(* Two digests of one event reach a speaker in less than the silence owed   *)
(* only where the log could not know: another run mailed this speaker after *)
(* this one had read the log, or with the row yet to be written, or the row *)
(* of the earlier mail is lost (decideTaskDigest, lastDigestTimes).         *)
DigestsApart ==
  \A r \in Runs : At(r, "send") =>
    LET x == Mailing(r) IN
    \/ silent[x] >= (IF r \in CronRuns THEN CronSilence ELSE ManualSilence)
    \/ run[r].mail \in run[r].missed
    \/ age[x] # silent[x]

(* Nobody is chased who, from before the run began, owed nothing or had     *)
(* declined, or whose event is under way (sendTaskDigests).                 *)
NobodyChasedInVain ==
  \A r \in Runs : At(r, "send") =>
    /\ Mailing(r) \notin run[r].clear \cup run[r].away
    /\ run[r].event \notin started

(* The dialog before the button names exactly those the button then mails,  *)
(* but for whom something has changed since the page was read: work done or *)
(* handed out, an answer, a digest, or a day gone by                        *)
(* (previewTaskDigestCount).                                                *)
PreviewIsKept ==
  \A r \in ButtonRuns : At(r, "speaker") =>
    \A p \in run[r].rest :
      <<run[r].event, p>> \in run[r].quiet => (ToMail(r, p) <=> p \in run[r].promised)

(* Whoever keeps owing something keeps being reminded, however often an     *)
(* organizer pressed the button in between (isTaskDigestWindow and the      *)
(* silences): six days let the next Monday through.                         *)
KeepsReminding ==
  \A x \in Pairs : <>[]Due(x) => []<>(silent[x] = 0)

(* What a comment of the code says, and two runs at once break:             *)

(* src/src/domain/comms.ts on the manual cooldown: pressing the button      *)
(* twice, or two admins pressing it at once, must not mail a speaker twice  *)
(* in a day; and on the job: runs on overlapping schedules never            *)
(* double-send.                                                             *)
NeverDoubleSends ==
  \A r \in Runs : At(r, "send") =>
    silent[Mailing(r)] >= (IF r \in CronRuns THEN CronSilence ELSE ManualSilence)
============================================================================
