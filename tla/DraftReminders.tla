--------------------------- MODULE DraftReminders ---------------------------
(***************************************************************************)
(* The one mail a draft gets before its form closes.  The cron's run lists *)
(* the drafts once, reads their forms and which of them the log says were  *)
(* reminded, and then mails one after the other.  Each mail reads its draft *)
(* again, but only for the link back into it, which outlives the draft; a  *)
(* form with a draft is not deleted.                                       *)
(***************************************************************************)
EXTENDS Naturals, FiniteSets

CONSTANTS
  Jobs,        \* runs of the schedule
  Drafts,      \* proposals saved as drafts on one form
  None,
  MaxFaults,   \* bound: bounces, lost rows, stopped workers
  MaxMoves     \* bound: how often the form's window is moved

VARIABLES
  draft,     \* submissions.status of each: "draft", "submitted", "gone"
  form,      \* where the form stands in its window
  reminded,  \* drafts with a draft_reminder logged as sent
  nudges,    \* history: reminders that reached each draft's speaker, up to 2
  excused,   \* history: drafts mailed in an overlap, or whose row was lost
  job,       \* the runs' own state
  faults, moves

draftVars == <<draft, form, reminded, nudges, excused, job, faults, moves>>

(* "hidden" is unpublished or not yet open, "early" undated or more than    *)
(* DRAFT_REMINDER_WINDOW_HOURS before the close.                            *)
Phases == {"hidden", "early", "closing", "closed"}
Job ==
  [pc : {"idle", "form", "log", "draft", "send", "record"},
   listed : SUBSET Drafts,      \* the drafts it has yet to decide about
   phase : Phases,              \* the form as it read it
   known : SUBSET Drafts,       \* those the log said were reminded
   mail : Drafts \cup {None},
   alone : BOOLEAN,             \* history: no other run has been under way
   ended : SUBSET Drafts,       \* history: not drafts when it began
   hopeless : BOOLEAN]          \* history: the form was never about to close

TypeOK ==
  /\ draft \in [Drafts -> {"draft", "submitted"}]
  /\ form \in Phases
  /\ reminded \subseteq Drafts /\ excused \subseteq Drafts /\ nudges \in [Drafts -> 0..2]
  /\ job \in [Jobs -> Job]
  /\ faults \in 0..MaxFaults /\ moves \in 0..MaxMoves

Rest == [pc |-> "idle", listed |-> {}, phase |-> "hidden", known |-> {},
         mail |-> None, alone |-> TRUE, ended |-> {}, hopeless |-> TRUE]

Init ==
  /\ draft = [d \in Drafts |-> "draft"]
  /\ form \in Phases
  /\ reminded = {} /\ excused = {} /\ nudges = [d \in Drafts |-> 0]
  /\ job = [j \in Jobs |-> Rest]
  /\ faults = 0 /\ moves = 0

At(j, label) == job[j].pc = label
Set(j, q) == job' = [job EXCEPT ![j] = q]
Running == {j \in Jobs : ~At(j, "idle")}

----------------------------------------------------------------------------
(* The world: speakers submit their drafts, organizers and time move *)
(* the form's window.                                                      *)
Submit(d) ==
  /\ draft[d] = "draft" /\ draft' = [draft EXCEPT ![d] = "submitted"]
  /\ UNCHANGED <<form, reminded, nudges, excused, job, faults, moves>>

Move(phase) ==
  /\ phase # form /\ moves < MaxMoves
  /\ form' = phase /\ moves' = moves + 1
  /\ job' = [j \in Jobs |-> [job[j] EXCEPT !.hopeless =
                @ /\ (At(j, "idle") \/ phase # "closing")]]
  /\ UNCHANGED <<draft, reminded, nudges, excused, faults>>

----------------------------------------------------------------------------
(* A run *)

Excuse(j, so) == excused' = IF so THEN excused \cup {job[j].mail} ELSE excused

ListDrafts == {d \in Drafts : draft[d] = "draft"}

Begin(j) ==
  /\ At(j, "idle") /\ ListDrafts # {}
  /\ job' = [k \in Jobs |->
       IF k = j
       THEN [Rest EXCEPT !.pc = "form", !.listed = ListDrafts,
                         !.alone = (Running = {}),
                         !.ended = {d \in Drafts : draft[d] # "draft"},
                         !.hopeless = (form # "closing")]
       ELSE [job[k] EXCEPT !.alone = @ /\ At(k, "idle")]]
  /\ UNCHANGED <<draft, form, reminded, nudges, excused, faults, moves>>

ReadForm(j) ==
  /\ At(j, "form")
  /\ Set(j, [job[j] EXCEPT !.pc = "log", !.phase = form])
  /\ UNCHANGED <<draft, form, reminded, nudges, excused, faults, moves>>

Reminded(j) == reminded \cap job[j].listed
ReadLog(j) ==
  /\ At(j, "log")
  /\ Set(j, [job[j] EXCEPT !.pc = "draft", !.known = Reminded(j)])
  /\ UNCHANGED <<draft, form, reminded, nudges, excused, faults, moves>>

DueReminder(q, d) == q.phase = "closing" /\ d \notin q.known

Decide(j, d) ==
  /\ At(j, "draft") /\ d \in job[j].listed
  /\ Set(j, IF DueReminder(job[j], d)
            THEN [job[j] EXCEPT !.pc = "send", !.listed = @ \ {d}, !.mail = d]
            ELSE [job[j] EXCEPT !.listed = @ \ {d}])
  /\ UNCHANGED <<draft, form, reminded, nudges, excused, faults, moves>>

Deliver(j) ==
  /\ At(j, "send")
  /\ nudges' = [nudges EXCEPT ![job[j].mail] = IF @ < 2 THEN @ + 1 ELSE @]
  /\ Set(j, [job[j] EXCEPT !.pc = "record"]) /\ Excuse(j, ~job[j].alone)
  /\ UNCHANGED <<draft, form, reminded, faults, moves>>

Fault == faults < MaxFaults /\ faults' = faults + 1

(* The mail is refused: its row says failed, and the draft is tried again.  *)
Bounce(j) ==
  /\ At(j, "send") /\ Fault
  /\ Set(j, [job[j] EXCEPT !.pc = "draft", !.mail = None])
  /\ UNCHANGED <<draft, form, reminded, nudges, excused, moves>>

Record(j) ==
  /\ At(j, "record")
  /\ reminded' = reminded \cup {job[j].mail}
  /\ Set(j, [job[j] EXCEPT !.pc = "draft", !.mail = None])
  /\ UNCHANGED <<draft, form, nudges, excused, faults, moves>>

LoseRow(j) ==
  /\ At(j, "record") /\ Fault /\ Excuse(j, TRUE)
  /\ Set(j, [job[j] EXCEPT !.pc = "draft", !.mail = None])
  /\ UNCHANGED <<draft, form, reminded, nudges, moves>>

Finish(j) ==
  /\ At(j, "draft") /\ job[j].listed = {}
  /\ Set(j, Rest)
  /\ UNCHANGED <<draft, form, reminded, nudges, excused, faults, moves>>

Stop(j) ==
  /\ j \in Running /\ Fault
  /\ Set(j, Rest) /\ Excuse(j, At(j, "record"))
  /\ UNCHANGED <<draft, form, reminded, nudges, moves>>

Next ==
  \/ \E d \in Drafts : Submit(d)
  \/ \E phase \in Phases : Move(phase)
  \/ \E j \in Jobs :
       \/ Begin(j) \/ ReadForm(j) \/ ReadLog(j)
       \/ \E d \in Drafts : Decide(j, d)
       \/ Deliver(j) \/ Bounce(j) \/ Record(j) \/ LoseRow(j)
       \/ Finish(j) \/ Stop(j)

Spec == Init /\ [][Next]_draftVars

----------------------------------------------------------------------------
(* Properties *)

(* A draft's speaker is reminded once, unless runs overlapped or the row of *)
(* the reminder was lost: the log is the only memory (remindAboutDrafts).   *)
NudgedOnce == \A d \in Drafts : nudges[d] = 2 => d \in excused

(* Nobody who had submitted before the run began is told to finish in time  *)
(* (listAllByStatus in remindAboutDrafts).                                  *)
SubmittersAreSpared ==
  \A j \in Jobs : At(j, "send") => job[j].mail \notin job[j].ended

(* No deadline is announced of a form that at no time of the run was open   *)
(* and about to close (decideDraftReminder).                                *)
DeadlinesAreReal ==
  \A j \in Jobs : At(j, "send") => ~job[j].hopeless
============================================================================
