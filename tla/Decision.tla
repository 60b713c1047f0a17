------------------------------ MODULE Decision ------------------------------
(***************************************************************************)
(* Recording an organizer's decision on a proposal, and everything the     *)
(* decision implies: the session a proposal is converted into, its roster, *)
(* the onboarding tasks its speakers are handed, and the taking back of    *)
(* all of it when an acceptance is reversed.  A speaker's edit of a        *)
(* converted proposal and the completion of a task are here too, because   *)
(* they touch the same rows.                                               *)
(*                                                                         *)
(* D1 offers no transaction across tables: a request is a sequence of      *)
(* single statements, each atomic, with every other request's statements   *)
(* in between.  Each action below is one statement (or one group of reads  *)
(* of one table), and what a request has read so far is its own record.    *)
(***************************************************************************)
EXTENDS FiniteSets, Naturals

CONSTANTS
  Requests,     \* requests: each runs at most once
  Submissions,  \* proposals of one event, all past the draft stage
  Speakers,     \* user ids
  Tasks,        \* the event's tasks with autoAssignOnAccept
  Original,     \* the creator of a row older than every request
  None,         \* "no row" in a read
  Verdicts,     \* the decisions organizers may record here
  EditTeams,    \* the speaker sets a speaker's edit may leave
  Serial,       \* TRUE: a request starts only when none is running
  MayFail       \* TRUE: a request may stop between any two statements

Decisions == {"approved", "maybe", "denied"}

ASSUME ConstantsOK ==
  /\ Original \notin Requests
  /\ None \notin Requests \cup {Original}
  /\ Verdicts \subseteq Decisions
  /\ EditTeams \subseteq (SUBSET Speakers) \ {{}}
  /\ Tasks # {}
  /\ Serial \in BOOLEAN /\ MayFail \in BOOLEAN

VARIABLES
  status,   \* submissions.status
  links,    \* submission_speakers
  session,  \* sessions: <<submission, creator>> to its status, "none" for no row
  roster,   \* session_speakers of each session
  held,     \* task_assignments: <<task, speaker>> to its row
  req,      \* the requests' own state
  last      \* history: the request that began last on each submission

vars == <<status, links, session, roster, held, req, last>>
db == <<status, links, session, roster, held>>

(* A row is known by the request that created it, so a row deleted and     *)
(* created again is a different row, as it is with generated ids.          *)
Creators == Requests \cup {Original}
SessionKeys == Submissions \X Creators
Pairs == Tasks \X Speakers
NoRow == [by |-> None, st |-> "none"]
Row == [by : Creators, st : {"pending", "completed"}]
Doomed == Tasks \X Speakers \X Creators
Survey == Speakers \X {"tasks", "sessions"}

InFlight == {r \in Requests : req[r].pc \notin {"idle", "done", "failed"}}

Fresh(s) == {c \in Creators : session[<<s, c>>] # "none"}
Live(p) == {k \in SessionKeys : session[k] = "confirmed" /\ p \in roster[k]}

Labels ==
  {"idle", "write", "gather", "held", "session", "clear", "fill", "tasks",
   "find", "cancel", "people", "survey", "withdraw", "relink", "drop", "add",
   "mail", "done", "failed"}

Request ==
  [pc : Labels,                               \* the statement it runs next
   sub : Submissions \cup {None},
   kind : Decisions \cup {"edit", "none"},
   was : {"submitted", "none"} \cup Decisions, \* the status it was planned on
   got : SUBSET {"speakers", "session"},      \* which reads have come back
   found : Creators \cup {None},              \* the session it found...
   seen : {"none", "confirmed", "cancelled"}, \* ... and the status it had
   people : SUBSET Speakers,                  \* everyone on the proposal
   todo : SUBSET Survey,                      \* per-speaker reads to come
   rest : SUBSET Speakers,                    \* links to drop, then to add
   missing : SUBSET Pairs,                    \* task rows to create
   doomed : SUBSET Doomed,                    \* task rows to delete
   booked : SUBSET Speakers]                  \* those with another session

TypeOK ==
  /\ status \in [Submissions -> {"submitted"} \cup Decisions]
  /\ links \in [Submissions -> SUBSET Speakers]
  /\ session \in [SessionKeys -> {"none", "confirmed", "cancelled"}]
  /\ roster \in [SessionKeys -> SUBSET Speakers]
  /\ held \in [Pairs -> Row \cup {NoRow}]
  /\ last \in [Submissions -> Requests \cup {None}]
  /\ req \in [Requests -> Request]

Idle ==
  [pc |-> "idle", sub |-> None, kind |-> "none", was |-> "none", got |-> {},
   found |-> None, seen |-> "none", people |-> {}, todo |-> {}, rest |-> {},
   missing |-> {}, doomed |-> {}, booked |-> {}]

(* Some proposals arrive here already accepted: converted, with every       *)
(* speaker on the roster and holding every task.                            *)
Init ==
  /\ links \in [Submissions -> (SUBSET Speakers) \ {{}}]
  /\ \E accepted \in SUBSET Submissions :
       /\ status = [s \in Submissions |->
                      IF s \in accepted THEN "approved" ELSE "submitted"]
       /\ session = [k \in SessionKeys |->
                       IF k[1] \in accepted /\ k[2] = Original
                       THEN "confirmed" ELSE "none"]
       /\ roster = [k \in SessionKeys |->
                      IF k[1] \in accepted /\ k[2] = Original
                      THEN links[k[1]] ELSE {}]
       /\ held = [x \in Pairs |->
                    IF \E s \in accepted : x[2] \in links[s]
                    THEN [by |-> Original, st |-> "pending"] ELSE NoRow]
  /\ req = [r \in Requests |-> Idle]
  /\ last = [s \in Submissions |-> None]

----------------------------------------------------------------------------
(* Steps of a request *)

At(r, label) == req[r].pc = label
Set(r, rec) == req' = [req EXCEPT ![r] = rec]
Goto(r, label) == Set(r, [req[r] EXCEPT !.pc = label])
(* What a request read dies with it; what it was asked and found is kept     *)
(* for the properties.                                                      *)
End(r, label) ==
  Set(r, [Idle EXCEPT !.pc = label, !.sub = req[r].sub, !.kind = req[r].kind,
                      !.was = req[r].was, !.seen = req[r].seen])

MayBegin(r) == At(r, "idle") /\ (Serial => InFlight = {})

(* getById and planDecision: canDecide, and what the change implies is      *)
(* fixed by the status read now.                                            *)
Decide(r, s, d) ==
  /\ MayBegin(r)
  /\ Set(r, [Idle EXCEPT !.pc = "write", !.sub = s, !.kind = d, !.was = status[s]])
  /\ last' = [last EXCEPT ![s] = r]
  /\ UNCHANGED db

CancelsSession(q) == q.was = "approved" /\ q.kind \in Decisions \ {"approved"}

(* submissions.update: by id, whatever the status is by now *)
WriteStatus(r) ==
  /\ At(r, "write")
  /\ status' = [status EXCEPT ![req[r].sub] = req[r].kind]
  /\ Goto(r, IF req[r].kind = "approved" THEN "gather" ELSE "find")
  /\ UNCHANGED <<links, session, roster, held, last>>

(* Mutant: a lookup that leaves cancelled sessions out *)
FindsConfirmed(r, c) ==
  LET standing == {e \in Fresh(req[r].sub) : session[<<req[r].sub, e>>] = "confirmed"}
  IN IF standing = {} THEN c = None ELSE c \in standing

(* getBySubmission is a findFirst: any one of the submission's sessions *)
FindsSession(r, c) ==
  IF Fresh(req[r].sub) = {} THEN c = None ELSE c \in Fresh(req[r].sub)
StatusOf(r, c) == IF c = None THEN "none" ELSE session[<<req[r].sub, c>>]

(* The four reads run concurrently: the tasks do not change, the tracks do  *)
(* not matter here, the other two happen in either order.                   *)
Gathered(q) ==
  IF q.got # {"speakers", "session"} THEN q
  ELSE [q EXCEPT !.pc = IF q.people = {} THEN "session" ELSE "held",
                 !.todo = q.people \X {"tasks"}]

ReadSpeakers(r) ==
  /\ At(r, "gather") /\ "speakers" \notin req[r].got
  /\ Set(r, Gathered([req[r] EXCEPT !.got = @ \cup {"speakers"},
                                    !.people = links[req[r].sub]]))
  /\ UNCHANGED <<db, last>>

ReadSession(r) ==
  /\ At(r, "gather") /\ "session" \notin req[r].got
  /\ \E c \in Creators \cup {None} :
       /\ FindsSession(r, c)
       /\ Set(r, Gathered([req[r] EXCEPT !.got = @ \cup {"session"},
                                         !.found = c, !.seen = StatusOf(r, c)]))
  /\ UNCHANGED <<db, last>>

AfterTasks(missing) == IF missing = {} THEN "mail" ELSE "tasks"

(* taskAssignments.listBySpeaker, a statement per speaker; the plan holds   *)
(* only the pairs not held.  An edit creates its rows at once.              *)
MissingOf(p) == {x \in Pairs : x[2] = p /\ held[x] = NoRow}
ReadHeld(r) ==
  /\ At(r, "held")
  /\ \E x \in req[r].todo :
       LET missing == req[r].missing \cup MissingOf(x[1])
           todo == req[r].todo \ {x}
       IN Set(r, [req[r] EXCEPT
                    !.missing = missing,
                    !.todo = todo,
                    !.pc = IF todo # {} THEN "held"
                           ELSE IF req[r].kind = "edit" THEN AfterTasks(missing)
                           ELSE "session"])
  /\ UNCHANGED <<db, last>>

AfterSession(q) == IF q.people = {} THEN AfterTasks(q.missing) ELSE "clear"

(* sessions.create, or the repair of a session that is not confirmed: which *)
(* of the two was settled when the session was read.                        *)
CreateSession(r) ==
  /\ At(r, "session") /\ req[r].found = None
  /\ session' = [session EXCEPT ![<<req[r].sub, r>>] = "confirmed"]
  /\ Set(r, [req[r] EXCEPT !.found = r, !.pc = AfterSession(req[r])])
  /\ UNCHANGED <<status, links, roster, held, last>>

(* Mutant: a session that exists is taken to stand *)
KeepSession(r) ==
  /\ At(r, "session") /\ req[r].found # None
  /\ Goto(r, AfterSession(req[r]))
  /\ UNCHANGED <<db, last>>

RepairSession(r) ==
  /\ At(r, "session") /\ req[r].found # None
  /\ session' = IF req[r].seen = "confirmed" THEN session
                ELSE [session EXCEPT ![<<req[r].sub, req[r].found>>] = "confirmed"]
  /\ Goto(r, AfterSession(req[r]))
  /\ UNCHANGED <<status, links, roster, held, last>>

(* sessions.setSpeakers: a DELETE, then an INSERT ... ON CONFLICT DO NOTHING *)
ClearRoster(r) ==
  /\ At(r, "clear")
  /\ roster' = [roster EXCEPT ![<<req[r].sub, req[r].found>>] = {}]
  /\ Goto(r, "fill")
  /\ UNCHANGED <<status, links, session, held, last>>

(* An edit goes on to the tasks only when the proposal it updated was       *)
(* accepted and the session it found was not cancelled.                     *)
AfterFill(q) ==
  IF q.kind # "edit" THEN AfterTasks(q.missing)
  ELSE IF q.was = "approved" /\ q.seen # "cancelled" THEN "held" ELSE "mail"

FillRoster(r) ==
  /\ At(r, "fill")
  /\ roster' = [roster EXCEPT ![<<req[r].sub, req[r].found>>] = @ \cup req[r].people]
  /\ Set(r, [req[r] EXCEPT !.pc = AfterFill(req[r]),
                           !.todo = IF req[r].kind = "edit"
                                    THEN req[r].people \X {"tasks"} ELSE {}])
  /\ UNCHANGED <<status, links, session, held, last>>

(* taskAssignments.create: a plain INSERT, which the unique index on        *)
(* (task, speaker) refuses when the row has appeared meanwhile.             *)
CreateTask(r) ==
  /\ At(r, "tasks")
  /\ \E x \in req[r].missing :
       IF held[x] = NoRow
       THEN /\ held' = [held EXCEPT ![x] = [by |-> r, st |-> "pending"]]
            /\ Set(r, [req[r] EXCEPT !.missing = @ \ {x},
                                     !.pc = AfterTasks(req[r].missing \ {x})])
       ELSE held' = held /\ End(r, "failed")
  /\ UNCHANGED <<status, links, session, roster, last>>

----------------------------------------------------------------------------
(* Standing a session down *)

FindSession(r) ==
  /\ At(r, "find")
  /\ \E c \in Creators \cup {None} :
       /\ FindsSession(r, c)
       /\ Set(r, [req[r] EXCEPT
                    !.found = c, !.seen = StatusOf(r, c),
                    !.pc = IF CancelsSession(req[r]) THEN "cancel" ELSE "mail"])
  /\ UNCHANGED <<db, last>>

CancelSession(r) ==
  /\ At(r, "cancel")
  /\ session' = IF req[r].seen \in {"none", "cancelled"} THEN session
                ELSE [session EXCEPT ![<<req[r].sub, req[r].found>>] = "cancelled"]
  /\ Goto(r, "people")
  /\ UNCHANGED <<status, links, roster, held, last>>

(* withdrawOnboarding: the speakers, then for each of them the assignments  *)
(* and after those the sessions                                             *)
ReadReversed(r) ==
  /\ At(r, "people")
  /\ LET people == links[req[r].sub]
     IN Set(r, [req[r] EXCEPT !.people = people,
                              !.todo = people \X {"tasks", "sessions"},
                              !.pc = IF people = {} THEN "mail" ELSE "survey"])
  /\ UNCHANGED <<db, last>>

(* planReversalCleanup: rows of auto-assigned tasks that are not completed, *)
(* of speakers with no other session that is not cancelled                  *)
PendingOf(p) ==
  {d \in Doomed : d[2] = p /\ held[<<d[1], p>>] = [by |-> d[3], st |-> "pending"]}
(* Mutants: other talks forgotten; cancelled talks counted *)
BookedNowhere(r, p) == FALSE
BookedOnAny(r, p) ==
  \E k \in SessionKeys : /\ k # <<req[r].sub, req[r].found>>
                         /\ session[k] # "none" /\ p \in roster[k]
BookedElsewhere(r, p) ==
  \E k \in SessionKeys : /\ k # <<req[r].sub, req[r].found>>
                         /\ session[k] = "confirmed" /\ p \in roster[k]
AfterDoomed(doomed) == IF doomed = {} THEN "mail" ELSE "withdraw"

Surveyed(q) ==
  IF q.todo # {} THEN q
  ELSE LET plan == {d \in q.doomed : d[2] \notin q.booked}
       IN [q EXCEPT !.doomed = plan, !.pc = AfterDoomed(plan)]

SurveyTasks(r) ==
  /\ At(r, "survey")
  /\ \E p \in Speakers :
       /\ <<p, "tasks">> \in req[r].todo
       /\ Set(r, Surveyed([req[r] EXCEPT !.todo = @ \ {<<p, "tasks">>},
                                         !.doomed = @ \cup PendingOf(p)]))
  /\ UNCHANGED <<db, last>>

SurveySessions(r) ==
  /\ At(r, "survey")
  /\ \E p \in Speakers :
       /\ <<p, "sessions">> \in req[r].todo /\ <<p, "tasks">> \notin req[r].todo
       /\ Set(r, Surveyed([req[r] EXCEPT
                             !.todo = @ \ {<<p, "sessions">>},
                             !.booked = IF BookedElsewhere(r, p)
                                        THEN @ \cup {p} ELSE @]))
  /\ UNCHANGED <<db, last>>

(* taskAssignments.delete: by id, whatever the row says by now *)
Withdraw(r) ==
  /\ At(r, "withdraw")
  /\ \E d \in req[r].doomed :
       LET x == <<d[1], d[2]>> IN
       /\ held' = IF held[x].by = d[3] THEN [held EXCEPT ![x] = NoRow] ELSE held
       /\ Set(r, [req[r] EXCEPT !.doomed = @ \ {d},
                                !.pc = AfterDoomed(req[r].doomed \ {d})])
  /\ UNCHANGED <<status, links, session, roster, last>>

(* The last step: the notice, which reads the session again, if asked for *)
Mail(r) ==
  /\ At(r, "mail")
  /\ End(r, "done")
  /\ UNCHANGED <<db, last>>

----------------------------------------------------------------------------
(* A speaker's edit, the completion of a task, and failures *)

(* saveSubmission on an existing proposal: the answers are written and the  *)
(* row read back; the status is left alone.                                 *)
Edit(r, s, team) ==
  /\ MayBegin(r)
  /\ Set(r, [Idle EXCEPT !.pc = "relink", !.sub = s, !.kind = "edit",
                         !.was = status[s], !.people = team])
  /\ last' = [last EXCEPT ![s] = r]
  /\ UNCHANGED db

EditReadSession(r) ==
  /\ At(r, "relink") /\ "session" \notin req[r].got
  /\ \E c \in Creators \cup {None} :
       /\ FindsSession(r, c)
       /\ Set(r, [req[r] EXCEPT !.got = {"session"}, !.found = c,
                                !.seen = StatusOf(r, c)])
  /\ UNCHANGED <<db, last>>

(* syncSpeakers: the links no longer wanted go one by one, then everyone on *)
(* the talk is upserted one by one, then the roster of the session follows. *)
Unlinked(q) ==
  IF q.rest = {} THEN [q EXCEPT !.pc = "add", !.rest = q.people]
  ELSE [q EXCEPT !.pc = "drop"]
Linked(q) ==
  IF q.rest # {} THEN q
  ELSE [q EXCEPT !.pc = IF q.found = None THEN "mail" ELSE "clear"]

EditReadLinks(r) ==
  /\ At(r, "relink") /\ "session" \in req[r].got
  /\ Set(r, Unlinked([req[r] EXCEPT !.rest = links[req[r].sub] \ req[r].people]))
  /\ UNCHANGED <<db, last>>

EditDrop(r) ==
  /\ At(r, "drop")
  /\ \E p \in req[r].rest :
       /\ links' = [links EXCEPT ![req[r].sub] = @ \ {p}]
       /\ Set(r, Unlinked([req[r] EXCEPT !.rest = @ \ {p}]))
  /\ UNCHANGED <<status, session, roster, held, last>>

EditAdd(r) ==
  /\ At(r, "add")
  /\ \E p \in req[r].rest :
       /\ links' = [links EXCEPT ![req[r].sub] = @ \cup {p}]
       /\ Set(r, Linked([req[r] EXCEPT !.rest = @ \ {p}]))
  /\ UNCHANGED <<status, session, roster, held, last>>

(* The portal's three completions: an update of the row by its id.  It is a  *)
(* request of one statement, so run serially it waits for the others.       *)
Complete(x) ==
  /\ Serial => InFlight = {}
  /\ held[x].st = "pending"
  /\ held' = [held EXCEPT ![x].st = "completed"]
  /\ UNCHANGED <<status, links, session, roster, req, last>>

(* The worker stops, or a statement fails and the exception ends the request *)
Fail(r) ==
  /\ MayFail /\ r \in InFlight
  /\ End(r, "failed")
  /\ UNCHANGED <<db, last>>

Convert(r) ==
  \/ ReadSpeakers(r) \/ ReadSession(r) \/ ReadHeld(r)
  \/ CreateSession(r) \/ RepairSession(r) \/ ClearRoster(r) \/ FillRoster(r)
  \/ CreateTask(r)

Reverse(r) ==
  \/ FindSession(r) \/ CancelSession(r) \/ ReadReversed(r)
  \/ SurveyTasks(r) \/ SurveySessions(r) \/ Withdraw(r)

SyncSpeakers(r) ==
  EditReadSession(r) \/ EditReadLinks(r) \/ EditDrop(r) \/ EditAdd(r)

Step(r) == WriteStatus(r) \/ Convert(r) \/ Reverse(r) \/ SyncSpeakers(r) \/ Mail(r)

Next ==
  \/ \E r \in Requests :
       \/ \E s \in Submissions, d \in Verdicts : Decide(r, s, d)
       \/ \E s \in Submissions, team \in EditTeams : Edit(r, s, team)
       \/ Step(r)
       \/ Fail(r)
  \/ \E x \in Pairs : Complete(x)

Spec == Init /\ [][Next]_vars

----------------------------------------------------------------------------
(* Properties *)

Done(r) == r # None /\ req[r].pc = "done"

(* Everything an acceptance owes: one session, confirmed, with everyone on  *)
(* the proposal on its roster and every one of them holding every task.     *)
Onboarded(s) ==
  /\ \E c \in Creators : /\ Fresh(s) = {c} /\ session[<<s, c>>] = "confirmed"
                         /\ roster[<<s, c>>] = links[s]
  /\ \A t \in Tasks, p \in links[s] : held[<<t, p>>] # NoRow

(* A proposal never grows a second session, however often it is accepted,   *)
(* reversed, edited, or left half converted by a failure                    *)
(* (planAcceptanceConversion in src/domain/review.ts).                      *)
OneSession ==
  \A s \in Submissions : \A c, e \in Fresh(s) : c = e

(* An acceptance that ran to its end, whatever earlier requests on the same *)
(* proposal left unfinished, leaves the proposal fully onboarded; no later  *)
(* decision on another proposal of the same speakers undoes any of it       *)
(* (recordDecision and planReversalCleanup in src/domain/review.ts).        *)
AcceptConverges ==
  \A s \in Submissions :
    Done(last[s]) /\ req[last[s]].kind = "approved" => Onboarded(s)

(* So does a completed edit of an accepted proposal whose session stands:   *)
(* someone added after the acceptance is on the roster and holds the tasks  *)
(* (syncSpeakers in src/domain/submissions.ts).                             *)
EditConverges ==
  \A s \in Submissions :
    /\ Done(last[s]) /\ req[last[s]].kind = "edit"
    /\ req[last[s]].was = "approved" /\ req[last[s]].seen = "confirmed"
    => Onboarded(s)

(* A speaker all of whose proposals were last reversed, each reversal having *)
(* run to its end, owes no unfinished onboarding and is on no session       *)
(* (withdrawOnboarding in src/domain/review.ts).                            *)
Reversed(s) == Done(last[s]) /\ CancelsSession(req[last[s]])
ReversalWithdraws ==
  \A p \in Speakers :
    LET talks == {s \in Submissions : p \in links[s]} IN
    talks # {} /\ (\A s \in talks : Reversed(s)) =>
      /\ Live(p) = {}
      /\ \A t \in Tasks : held[<<t, p>>].st # "pending"

(* A verdict that ran to its end holds in full, whatever failed before it   *)
(* or comes beside it (recordDecision).                                     *)
VerdictsTakeHold == AcceptConverges /\ ReversalWithdraws

(* Reversals running at once, on one proposal or on several of the same     *)
(* speaker: each looks for other sessions only after its own is cancelled,  *)
(* so the last one to look withdraws what nobody owes any more.             *)
LastReversalWithdraws ==
  InFlight = {} =>
    \A t \in Tasks, p \in Speakers : held[<<t, p>>].st = "pending" => Live(p) # {}

(* A proposal converted before any of these requests started is never       *)
(* converted again, whatever decisions, reversals and edits run at once and *)
(* wherever they fail: the one window for a second session is before the    *)
(* first exists (recordDecision and getBySubmission).                       *)
ConvertedOnce ==
  \A s \in Submissions : session[<<s, Original>>] # "none" => Fresh(s) = {Original}

(* One request at a time, with failures between any two statements, every   *)
(* single statement is one atomic, justified change of module Onboarding.   *)
Promise == INSTANCE Onboarding WITH
  sessions <- [s \in Submissions |-> [c \in Creators |-> session[<<s, c>>]]],
  cast <- [s \in Submissions |-> [c \in Creators |-> roster[<<s, c>>]]],
  work <- [x \in Pairs |-> held[x].st]
ImplementsPromise == Promise!Spec

(* What a comment of the code says, and a request that fails breaks: *)

(* src/src/domain/review.ts on recordDecision: a retry after a partial      *)
(* failure converges.  A decision that ran to its end leaves no session     *)
(* standing unless it accepted.                                             *)
RetryConverges ==
  \A s \in Submissions :
    Done(last[s]) /\ req[last[s]].kind \in {"maybe", "denied"} =>
      \A c \in Creators : session[<<s, c>>] # "confirmed"
============================================================================
