------------------------------- MODULE Tasks -------------------------------
(***************************************************************************)
(* Onboarding tasks of one event: organizers make, change, hand out and    *)
(* delete them, speakers do them, and whoever is given one is told once.   *)
(* One action is one statement; a request breaks off where it likes.       *)
(*                                                                         *)
(* A task made by a request is known by that request.  Of a task only what *)
(* it asks for is kept, of the work done for it what it was done as.       *)
(***************************************************************************)
EXTENDS Naturals, FiniteSets

CONSTANTS
  Requests, \* of organizers
  Original, \* the task there is at first
  Speakers,
  Types,    \* what a task asks for: its type and form
  MaxAnswers, \* bounds how many speakers are confirmed or declined meanwhile
  None

VARIABLES
  task,   \* tasks: what each asks for
  held,   \* task_assignments of each task: one per speaker
  billed, \* speakers with a session
  answer, \* event_speakers.confirmation_status
  portal, \* what each speaker's completion has read
  req

taskVars == <<task, held, billed, answer, portal, req>>
theTasks == <<task, held>>
people == <<billed, answer, portal>>

Ids == Requests \cup {Original}
Holders(t) == {s \in Speakers : held[t][s] # None}
Existing == {t \in Ids : task[t] # None}
Nobody == [s \in Speakers |-> None]

(* rosterSpeakerIds: on a session, holding a task, or a member of the event *)
Roster ==
  {s \in Speakers : s \in billed \/ answer[s] # None \/ \E t \in Existing : s \in Holders(t)}
(* resolveConfirmation: the organizer's answer, else whether there is a session *)
Confirmed == {s \in Speakers : IF answer[s] = None THEN s \in billed ELSE answer[s] = "confirmed"}

Idle == [kind |-> None, pc |-> "idle", task |-> None, type |-> None,
         picks |-> {}, missing |-> {}, made |-> {}, asked |-> {}, whole |-> TRUE]

TypeOK ==
  /\ task \in [Ids -> Types \cup {None}]
  /\ \A t \in Ids, s \in Speakers :
       held[t][s] # None =>
         /\ held[t][s].by \in Requests /\ held[t][s].work \in Types \cup {None}
         /\ held[t][s].told \in 0..2 /\ held[t][s].late \in BOOLEAN
  /\ billed \subseteq Speakers
  /\ answer \in [Speakers -> {"confirmed", "declined", None}]
  /\ \A r \in Requests :
       /\ req[r].pc \in {"idle", "duplicates", "create", "load", "lock", "update", "roster", "holders",
                         "assign", "look", "mail", "done"}
       /\ req[r].missing \cup req[r].made \cup req[r].asked \subseteq Speakers

Init ==
  /\ task \in [Ids -> Types \cup {None}]
  /\ task[Original] # None /\ \A r \in Requests : task[r] = None
  /\ held = [t \in Ids |-> Nobody]
  /\ billed \in SUBSET Speakers /\ answer = Nobody /\ portal = Nobody
  /\ req = [r \in Requests |-> Idle]

----------------------------------------------------------------------------
At(r, label) == req[r].pc = label
(* A request that has ended is known by what is still asked of it. *)
Ended(q) == [Idle EXCEPT !.pc = "done", !.task = q.task, !.asked = q.asked, !.whole = q.whole]
Set(r, q) == req' = [req EXCEPT ![r] = IF q.pc = "done" THEN Ended(q) ELSE q]
Goto(r, label) == Set(r, [req[r] EXCEPT !.pc = label])
(* An exception ends the request; the organizer may be told otherwise.      *)
Fail(r) == Set(r, [req[r] EXCEPT !.pc = "done", !.whole = FALSE])
Starts(r, q) == At(r, "idle") /\ Set(r, q) /\ UNCHANGED <<theTasks, people>>

CreateTask(r, type, picks, again) ==
  Starts(r, [Idle EXCEPT !.kind = "create", !.task = r, !.type = type, !.picks = picks,
                         !.pc = IF again THEN "create" ELSE "duplicates"])
UpdateTask(r, t, type, picks) ==
  Starts(r, [Idle EXCEPT !.kind = "update", !.pc = "load", !.task = t, !.type = type, !.picks = picks])
AssignTaskToConfirmedSpeakers(r, t) ==
  Starts(r, [Idle EXCEPT !.kind = "all", !.pc = "load", !.task = t])
AssignTaskToSpeaker(r, t, s) ==
  Starts(r, [Idle EXCEPT !.kind = "one", !.pc = "roster", !.task = t, !.picks = {s}])

(* findDuplicateTask *)
FindDuplicate(r) ==
  /\ At(r, "duplicates")
  /\ Goto(r, IF \E t \in Existing : task[t] = req[r].type THEN "done" ELSE "create")
  /\ UNCHANGED <<theTasks, people>>

(* Only picked speakers are given the task when it is saved. *)
AfterSave(q) == IF q.picks = {} THEN "done" ELSE "roster"
Create(r) ==
  /\ At(r, "create") /\ Goto(r, AfterSave(req[r]))
  /\ task' = [task EXCEPT ![r] = req[r].type]
  /\ UNCHANGED <<held, people>>

(* What a task asks for is frozen once anyone holds it. *)
Load(r) ==
  LET q == req[r] IN
  /\ At(r, "load")
  /\ IF task[q.task] = None THEN Fail(r)
     ELSE Goto(r, CASE q.kind = "update" -> IF q.type # task[q.task] THEN "lock" ELSE "update"
                    [] q.kind = "all" -> "roster"
                    [] OTHER -> "holders")
  /\ UNCHANGED <<theTasks, people>>
(* Mutant: only finished work freezes it *)
LockFinished(r) ==
  /\ At(r, "lock")
  /\ Goto(r, IF \E s \in Holders(req[r].task) : held[req[r].task][s].work # None THEN "done" ELSE "update")
  /\ UNCHANGED <<theTasks, people>>
Lock(r) ==
  /\ At(r, "lock") /\ Goto(r, IF Holders(req[r].task) # {} THEN "done" ELSE "update")
  /\ UNCHANGED <<theTasks, people>>
Update(r) ==
  LET q == req[r] IN
  /\ At(r, "update")
  /\ IF task[q.task] = None THEN Fail(r) /\ UNCHANGED task
     ELSE Goto(r, AfterSave(q)) /\ task' = [task EXCEPT ![q.task] = q.type]
  /\ UNCHANGED <<held, people>>

----------------------------------------------------------------------------
(* loadSpeakerRoster, and who of it is meant *)
ReadRoster(r) ==
  LET q == req[r]
      meant == IF q.kind = "all" THEN Confirmed ELSE q.picks \cap Roster
  IN  /\ At(r, "roster")
      /\ Set(r, [q EXCEPT !.missing = meant, !.asked = meant,
                          !.pc = IF meant = {} THEN "done"
                                 ELSE IF q.kind = "one" THEN "load" ELSE "holders"])
      /\ UNCHANGED <<theTasks, people>>

(* planAssignToSpeakers *)
Plan(q) == q.missing \ Holders(q.task)
ReadHolders(r) ==
  LET missing == Plan(req[r]) IN
  /\ At(r, "holders")
  /\ Set(r, [req[r] EXCEPT !.missing = missing, !.pc = IF missing = {} THEN "done" ELSE "assign"])
  /\ UNCHANGED <<theTasks, people>>

(* Somebody is about to change what the task asks for, having seen no holder. *)
Changing(t) == \E r \in Requests : At(r, "update") /\ req[r].task = t /\ req[r].type # task[t]

(* One row per task and speaker, of a task there is, else an exception. *)
Assign(r, s) ==
  LET q == req[r] IN
  /\ At(r, "assign") /\ s \in q.missing
  /\ IF task[q.task] = None \/ s \in Holders(q.task) THEN Fail(r) /\ UNCHANGED held
     ELSE /\ held' = [held EXCEPT ![q.task][s] =
                        [by |-> r, work |-> None, told |-> 0, late |-> Changing(q.task)]]
          /\ Set(r, [q EXCEPT !.missing = @ \ {s}, !.made = @ \cup {s},
                              !.pc = IF q.missing = {s} THEN "look" ELSE "assign"])
  /\ UNCHANGED <<task, people>>

(* sendTaskAssignmentNotification reads the new rows and mails their speakers. *)
News(q) == q.made
Look(r) ==
  LET there == News(req[r]) \cap Holders(req[r].task) IN
  /\ At(r, "look")
  /\ Set(r, [req[r] EXCEPT !.made = there, !.pc = IF there = {} THEN "done" ELSE "mail"])
  /\ UNCHANGED <<theTasks, people>>
Mail(r, s) ==
  LET q == req[r] IN
  /\ At(r, "mail") /\ s \in q.made
  /\ held' = IF held[q.task][s] = None THEN held ELSE [held EXCEPT ![q.task][s].told = @ + 1]
  /\ Set(r, [q EXCEPT !.made = @ \ {s}, !.pc = IF q.made = {s} THEN "done" ELSE "mail"])
  /\ UNCHANGED <<task, people>>

BreakOff(r) ==
  /\ req[r].pc \notin {"idle", "done"} /\ Fail(r) /\ UNCHANGED <<theTasks, people>>

(* The assignments go with their task. *)
DeleteTask(t) ==
  /\ task[t] # None
  /\ task' = [task EXCEPT ![t] = None] /\ held' = [held EXCEPT ![t] = Nobody]
  /\ UNCHANGED <<people, req>>

SetConfirmation(s, a) ==
  /\ s \in Roster /\ a # answer[s]
  /\ Cardinality({p \in Speakers : answer[p] # None}) < MaxAnswers
  /\ answer' = [answer EXCEPT ![s] = a]
  /\ UNCHANGED <<theTasks, billed, portal, req>>

(* A speaker's completion reads the assignment and its task, then writes by id. *)
Open(s, t) ==
  /\ portal[s] = None /\ s \in Holders(t) /\ held[t][s].work = None
  /\ portal' = [portal EXCEPT ![s] = [task |-> t, work |-> task[t]]]
  /\ UNCHANGED <<theTasks, billed, answer, req>>
Complete(s) ==
  LET p == portal[s] IN
  /\ p # None /\ portal' = [portal EXCEPT ![s] = None]
  /\ held' = IF held[p.task][s] = None THEN held ELSE [held EXCEPT ![p.task][s].work = p.work]
  /\ UNCHANGED <<task, billed, answer, req>>

Next ==
  \/ \E r \in Requests :
       \/ \E type \in Types, picks \in SUBSET Speakers :
            \/ \E again \in BOOLEAN : CreateTask(r, type, picks, again)
            \/ \E t \in Existing : UpdateTask(r, t, type, picks)
       \/ \E t \in Existing :
            AssignTaskToConfirmedSpeakers(r, t) \/ \E s \in Speakers : AssignTaskToSpeaker(r, t, s)
       \/ FindDuplicate(r) \/ Create(r) \/ Load(r) \/ Lock(r) \/ Update(r)
       \/ ReadRoster(r) \/ ReadHolders(r) \/ Look(r)
       \/ \E s \in Speakers : Assign(r, s) \/ Mail(r, s)
       \/ BreakOff(r)
  \/ \E t \in Ids : DeleteTask(t)
  \/ \E s \in Speakers :
       \/ \E a \in {"confirmed", "declined"} : SetConfirmation(s, a)
       \/ \E t \in Existing : Open(s, t)
       \/ Complete(s)

Spec == Init /\ [][Next]_taskVars

----------------------------------------------------------------------------
(* Properties *)

Holding(t) == {held[t][s] : s \in Holders(t)}

(* Nobody hears twice of a task they were given, and everybody hears of it  *)
(* unless the request that gave it broke off or met another's row           *)
(* (notifyNewAssignments, sendTaskAssignmentNotification).                  *)
AssignedAreTold ==
  \A t \in Ids : \A row \in Holding(t) :
    /\ row.told <= 1
    /\ At(row.by, "done") /\ req[row.by].whole => row.told = 1

(* Work that was filed is work of the kind its task asks for: a task is not *)
(* turned into another while it is held, unless it was given to somebody    *)
(* between the look at its holders and the change (updateTask).             *)
WorkFitsTask ==
  \A t \in Ids : \A row \in Holding(t) : row.work # None /\ ~row.late => row.work = task[t]

(* Who was meant when the roster was read holds the task when the request   *)
(* has ended, unless it failed or the task is gone (planAssignToSpeakers).  *)
MeantAreGiven ==
  \A r \in Requests :
    LET q == req[r] IN At(r, "done") /\ q.whole /\ task[q.task] # None => q.asked \subseteq Holders(q.task)
=============================================================================
