# Greenroom in TLA+

Greenroom is a conference CFP, review and speaker-management system: one Next.js application on a
Cloudflare Worker, all of whose state is in one D1 (SQLite) database. Paths below are relative to
the repository; the application itself is under `src/src/`.

D1 gives no transaction across the statements of a request. A server action, an API call or a cron
job is a sequence of `await`ed statements; each statement is atomic, every other request's
statements run in between, and the Worker may stop, or a statement fail, after any of them. The code
answers this with idempotent steps, conditional statements, unique indexes and by reading before it
writes. **These models ask where that is enough.** Everywhere here one action is one statement (or
one group of reads of one table), what a request has read so far is its own record (`req`, `run`,
`page`, `call`, ...). In `Decision`, `Team`, `ReviewRounds` and `AirtableSync` switches choose the
setting: `Serial` (a request starts only when none is running) and `MayFail` (a request may stop
between any two statements); the others always overlap and break off, and their properties say what
an overlap or a broken-off request excuses.

## Inventory

| component (source) | state | operations | hard behaviour | what makes it correct |
|---|---|---|---|---|
| Decisions, conversion, onboarding (`domain/review.ts`, `evaluation.ts`, `task-assign.ts`, `db/repos/d1/sessions.ts`, `task-assignments.ts`) | submission status, submission_speakers, sessions, session_speakers, task_assignments | recordDecision, acceptOnArrival, reversal (withdrawOnboarding), completion of a task | partial failure and retry; two decisions at once; reversal against acceptance and completion | one session per proposal; acceptance converges; reversal takes back exactly what nobody owes |
| Submission edits (`domain/submissions.ts`) | the same rows | saveSubmission, syncSpeakers | speakers added or removed after acceptance | roster and onboarding follow the proposal |
| New submissions and drafts (`domain/submissions.ts`, `forms.ts`, `app/submit`, `app/portal/submissions`) | submissions, users, resume links, forms | submit, save a draft, resume, edit, enter by an organizer | duplicate guard, cap, window, account creation: all read before they write | but for overlaps: no repeat, the cap, nothing sent is taken back; nothing sent waits unreviewed or loses its speaker |
| Form design (`domain/forms.ts`) | fields, conditions, answers | save a form, fill it in, resume | the questions change under an open page | what was accepted is accepted again; every question can be reached |
| Team (`domain/team.ts`, `admin/.../team/actions.ts`, `lib/session.ts`) | users.role, reviewer_tracks, round_assignments | role change, invitation, tracks, sign-in of an owner, sign-up | a check over all admins before a write to one; clean-up after the role write | an admin remains; leaving review work drops routing and open work, never filed work |
| Review rounds (`domain/rounds.ts`, `admin/.../rounds/actions.ts`, `db/repos/d1/review-rounds.ts`) | review_rounds, round_assignments, round_scores | edit and delete a round, assign, unassign, score, recuse, nudge | locks checked before the write they guard; cascades; conditional deletes | a scorecard reads back as entered, is counted fairly, and is lost only when confirmed |
| Reviewers' screens (`submissions/queue.ts`, `rounds/data.ts`, the score pages) | none | list, record, queue, scorecard | several reads while organizers assign, route and blind | blindness; pages agree about what there is to review |
| Reminders (`domain/comms.ts`, `custom-worker.ts`) | email_log (the cooldowns are derived from it) | task digest, draft reminder, by cron and by button | overlapping runs; mail sent and log row lost; a dialog that has grown old | nobody mailed twice in the cooldown by one run after another, nobody in vain, nobody forgotten |
| Wording (`domain/comms-templates.ts`, `communications/actions.ts`) | email_templates | save, reset, send | find, then create | a hole only where a message has no value for a field; the wording saved last goes out |
| Calendar invitations (`domain/comms.ts`, `lib/ics.ts`) | email_log (SEQUENCE derived) | send, update | two sends count the same log rows | an update lands in the calendar |
| Airtable projection (`domain/airtable-sync.ts`) | none of its own; the base outside | read, upsert, reconcile; by cron and by button | a slow run overwrites or deletes with an old projection; partial batches | the owner's rows stay, but for one kept after it was listed; a live row is not deleted; the base converges |
| Agenda (`domain/scheduling.ts`, `agenda/actions.ts`, `domain/admin-api.ts`) | sessions' room and time, session_speakers | place, move, unschedule, recast, suggest | stale boards | a clash somebody made is reported; a suggested slot is free |
| Speaker tasks (`domain/tasks.ts`, `tasks/actions.ts`) | tasks, task_assignments | make, change, hand out, delete, do | look at the holders, then change | who is meant has it and hears of it once; work fits its task |
| Files (`domain/files.ts`, portal and upload actions) | file_versions, the pointers to the current file | deliver, replace, headshots | version, then pointer | nothing handed in is missing from the history |
| Session content (`domain/session-content.ts`, `domain/admin-api.ts`) | session text, revisions | edit, patch, restore, sign off | session first, revision after | every text there was can be found |
| Sourcing pipeline (`domain/pipeline.ts`, `db/repos/d1/pipeline.ts`) | cards, stage history | enrol, move | two moves at once | the history is one walk |
| Directory (`domain/crm.ts`, `speaker-import.ts`, `directory/actions.ts`) | users, contacts, event_speakers | add, import, sign up, edit a profile | an import reads once and writes line by line | nobody's own words are replaced; whoever is reported is listed |
| Public program (`domain/program.ts`, `app/p/[eventSlug]`) | sessions, event_speakers, the flag | schedule, gallery, feeds, publish | several reads while the program is edited | what is shown was public; what was public is shown |
| API (`lib/external-auth.ts`, `app/api/v1`, `lib/mcp-*.ts`, `domain/api-*.ts`) | api_credentials, rate windows | make and revoke keys, read, write, page | checks before the work | a call gets what its credential is good for; paging misses nothing that stayed |
| Sign-in, storage, rendering; seed and smoke scripts | | | | not modelled |

Components meet in the tables, not in calls: a decision, a speaker's edit and the portal all write
`task_assignments`; a role change and a reviewer's scorecard both touch `round_assignments`; the
reminders, the public program and the Airtable projection read what all of them wrote. The cron
(`custom-worker.ts`, every 15 minutes) and buttons of the admin pages start the same jobs, and
nothing keeps them apart.

`PROJECT.json` lists the hazards of this kind with the line where each bites and the properties
that would catch it going wrong. A hazard without a property is one the code does not guard against:
its note says what happens, and what is checked beside it.

## Modules

| module | what it is |
|---|---|
| `Decision` | decisions, conversion, reversal, edits and completions, statement by statement |
| `Onboarding` | what they promise: the same effects as atomic changes, each justified by the state it happens in |
| `Intake`, `FormRules` | proposals coming in through one form; the questions of a form under an open page |
| `Team` | roles, routing and the review work that goes with them |
| `ReviewRounds`, `RoundResults`, `ReviewScreens` | one review round statement by statement; what it adds up to; what one reviewer is shown |
| `Agenda`, `SessionContent`, `Uploads`, `Tasks` | the agenda board; a session's text and its history; a speaker's files; onboarding tasks |
| `Digests`, `DraftReminders`, `Invitations`, `Wording` | the mail |
| `AirtableSync` | the projection into one Airtable table |
| `Pipeline`, `Directory`, `Program` | the sourcing board; people by address; the public program |
| `ApiAccess`, `ApiPages`, `ApiLists` | one call of the API; paging; lists put together from several reads |
| `DecisionProofs`, `SessionProofs`, `DeskProofs`, `TeamProofs`, `ReviewRoundsProofs`, `AirtableSyncProofs`, `MailProofs`, `ReviewScreensProofs` | theorems |
| `MC...` | the instances TLC checks |

An `MC` module of a name of its own (`MCSessions`, `MCMail`, `MCScreens`, ...) puts components that
do not interact into one run: a variable (`part` or `setting`) is drawn at the start, the parts that
were not drawn are "nowhere", and a property reads `part = "x" => ...`. The state space is the sum,
not the product, of the parts.

Operators and actions keep the code's names where they can (`UnassignIfUnscored`, `PlanStageMove`,
...). The comment above an action names the function or repository method it stands for, and
`PROJECT.json` gives the lines. Each action's guard is the position `pc` of its request together
with what the code tests there; a write "by id" is modelled as one: a row carries the request that
created it, so a row deleted and made again is a different row, and an update or delete by an old id
does what D1 does (nothing, or an error where the repository demands a returned row). Definitions
marked *Mutant* are small bugs planted to show that each property can fail; nothing else uses them.

**Decision.** `status`, `links`, `session`, `roster` and `held` are the five tables. An acceptance
reads speakers and session, creates or revives the session, rewrites the roster in two statements
(delete, insert), reads who holds which task, and creates what is missing one row at a time. A
reversal finds the session, cancels it, reads the speakers, surveys each one's tasks and sessions,
and deletes by id. `syncSpeakers` (a speaker's edit) drops and adds links one at a time and then
repairs roster and tasks. `Complete` is the portal's completion of a task. Left out: the two SELECTs
of the sessions' `listBySpeaker` are one step; the copying of abstracts into sessions
(`SessionContent`) and the enrichment of profiles; the versions a file task writes (`Uploads`). There
is one event. Drafts never reach a decision (`Intake`). `acceptOnArrival` is an acceptance of a fresh
proposal and is the same action.

**Intake, FormRules.** One form with its window, type and cap; public submits and drafts, resume
links, portal edits and organizers' entries all end in `saveSubmission`, which writes the row, then
tracks, then speakers; the tracks may be none (no question for them, none picked, names that are
gone). `bare` are the rows whose tracks the last save to set any set to none. An organizer's
`updateSubmissionTracks` is left out. Contents are a small set, compared by the duplicate guard.
`FormRules` keeps of an answer the set of values a condition compares with, and of a form the order,
kind and conditions of its questions; files and bios among the answers are left out. That every
question can be reached is said of questions with choices: a condition on a checkbox that is not
"true", or on a track that is gone, never fires either, `fieldSchemaProblems` lets it pass, and the
model has neither.

**Team.** `role`, `routed` and `work` are `users.role`, `reviewer_tracks` and the assignments with
their scorecards. A role change reads its target, reads the admins, writes the role, and then drops
the routing, lists the open assignments, reads their scores and deletes those without one.
Invitations and owners' sign-ins write the role and nothing else, as the code does. Left out: names;
there is one event, and every submission is in all its tracks; `requireAdmin` is "there is an admin"
when the request begins.

**ReviewRounds, RoundResults, ReviewScreens.** `round`, `row`, `card`: one round, the assignment of
each (submission, reviewer) pair, and its scorecard, of which only *which criteria it answers* is
kept. Edits lock the criteria when a scorecard exists, deletions ask for a confirmation then,
unassigning is unconditional when confirmed and one conditional statement when not. `RoundResults`
has the arithmetic (in tenths of a percent, rounded as the code rounds) and the nudge; filing is two
statements, the scorecard and the status, and `half` are the assignments between the two.
`ReviewScreens` makes one page from its reads, in their order and with each page's own filter, while
the rows change between any two of them; which rows it shows is kept, their order is not.

**Agenda, SessionContent, Uploads, Tasks.** The board, its placements and `firstConflictFreeSlot`
on a short day of minutes; a session's abstract with its revisions, in the order session first,
revision after; a task's file and a headshot with their versions; and tasks made, changed, given to
some or to everybody and deleted by two organizers while speakers do them.

**Digests, DraftReminders, Invitations, Wording.** A mail and its log row are two statements, and
every cooldown and SEQUENCE is derived from the log. Time in `Digests` is counted in days, a week is
`Week` of them. The button's dialog is counted when the page is read, in two groups of reads; the run
begins when the button is pressed, which may be days later, and `quiet` keeps for whom nothing has
changed in between. `Wording` keeps of a copy which fields it names, of a send which it fills, and of
those which a message may have no value for (`MayLack`); built-in copy puts these in sections of their
own. The confirmation copy of a form goes out unchecked.

**AirtableSync.** `alive`, `gone`, `version` are the source rows; `st` and `cell` are the records of
the base. A run reads the events one by one, upserts in batches, and, only if it covers every event,
lists the table and deletes managed records that are missing from its projection. A batch that fails
is skipped, a listing that fails ends the table, a failed read of the source ends the run. Airtable
itself is external and modelled from how it is used: `performUpsert` writes the record with that
`greenroom_id` or makes one, a deletion refuses a batch with a record that is gone. Its owner may
clear a `greenroom_id` at any time; `late` are those cleared after a run had listed the record. Left
out: the four other tables (the same loop), creating tables and fields, the wait after a 429. A
listing is one step although it is paged. Source ids never come back after a deletion; that is true
of every table but Speakers, whose ids are those of users, who may leave a roster and join another.

**Pipeline, Directory, Program.** One card and its events, in the order they were inserted (the code
sorts by `createdAt`, whole seconds, so that two moves within one may be shown the other way round);
accounts, contacts and roster members by address, of whose profiles a name and the author of a bio
are kept, both of which their owner and the API may change at any time (`renamed` are those whose
name was); sessions with status, content status, place and speakers, a flag, and one page made from
its reads, with what was so at some moment and what was so all the while as history.

**ApiAccess, ApiPages, ApiLists.** One call: credential, owner, event scope, budget, permission,
work, in the order of each transport (REST and MCP differ). Paging sorts anew for every page.

## Runs

All bounds are constants of the configurations or of the `MC` module named. A request runs at most
once, so the number of requests bounds everything else unless a bound is given.

| run | setting | shows |
|---|---|---|
| `decision_serial` (`MCSessions`) | 3 requests, 2 proposals, 2 speakers, serial, failing; or 2 editors of one session (3 edits, 1 loss); or 3 overlapping writers of one file or one headshot | `VerdictsTakeHold` (`AcceptConverges` and `ReversalWithdraws`), every statement is a step of `Onboarding` (`ImplementsPromise`); `VersionsRestorable`, `FilesKept` |
| `decision_changes` | 3 reversals at once on 3 proposals of one speaker; or 1 proposal of 2 speakers decided and edited, failing, by 3 requests one at a time or 2 overlapping | `ChangesTakeHold` (`LastReversalWithdraws`, `EditConverges`); `NeverReconverted` (`ConvertedOnce`) |
| `decision_retry` | 2 requests, serial, failing | *violation* of `RetryConverges` |
| `team_serial` (`MCOrganizers`) | 2 requests, an admin owner and another, 2 assignments, serial, failing; or an agenda of 2 sessions, 2 rooms and one 5-minute day, 2 overlapping organizers | `AdminRemains`, `DemotionCleans`, `FiledWorkStays`; `ConflictsSeen`, `SuggestionFits` |
| `team_last_admin` | 2 role changes at once | *violation* of `AdminRemains` |
| `rounds` (`MCOutside`) | 3 requests of every kind, 2 assignments, serial, or overlapping but for deleting the round, failing; or 2 reviewers' ratings and nudges; or one API call (one key or token, limit 1, 2 changes); or a client paging through 4 rows, 2 a page, 3 moments; or a list of 2 sessions and 1 person, 2 changes | `ReadsBackSerially`, `FiledIsCounted`, `DoneHasCard`, `LostOnlyConfirmed`; `ScoresAreFair`, `NudgesOwed`; `AnswersHold`, `PagesHold` |
| `rounds_deleted` | deleting and scoring at once | *violation* of `LostOnlyConfirmed` |
| `screens` (`MCScreens`) | one reviewer, 2 rounds, 2 proposals, 2 changes under one page; or 2 requests about tasks, 2 speakers; or 2 people, 2 requests that add or import, one of whom changes their profile; or 3 sessions, 2 edits, one page | `BlindnessHolds`, `ScreensAgree`; `TasksHold`; `DirectoryHolds`; `ProgramHolds` |
| `sync` | a full and a one-event run, 2 rows of 2 events, 2 contents, one row per batch, a failure; serial beside the owner; or overlapping beside the owner, contents fixed; or overlapping alone, fair | `ForeignRowsStay`, `RecordsOnlyFollow` (`LiveRowsStay`, `RowsAdvance`), `OverlapsConverge` |
| `mail` | a cron and a button run over 2 events; or 2 jobs and a draft; or 2 sends of invitations; or 2 editors and a send of one template with one field; a failure and a change each (`Wording`: 3 edits) | `DigestsApart`, `NobodyMailedInVain`, `PreviewIsKept`, `KeepsReminding`; `UpdatesLand`; `WordingHolds` |
| `digests_twice` | the button pressed by two organizers at once, one speaker | *violation* of `NeverDoubleSends` |
| `desk` | 2 requests on one form, 2 proposals, 2 addresses, one move of the organizers; or a form of 3 questions, 1 save, 2 visits; or 2 hands on one card | `IntakeHolds`, `StaysReachable`, `RequestsHold`; `FormsHold`; `HistoryIsTrue` |

Type invariants are not run: they are theorems of the modules that have proofs, and TLC checked them
while the others were written.

**Why the bounds are enough.** Every hazard above needs a first request that leaves something half
done, a second that meets it, and sometimes a third that relies on the outcome: three requests
where they run one after the other, two or three where they interleave. Two proposals sharing a
speaker are what "another live session" needs; two speakers are what a partial roster and a
partial edit need; one task is enough because tasks are only ever created and deleted row by row
and the pairs with two speakers already give two rows. Two assignments let a clean-up stop half
way. A row of each of two events is what a run of one event can confuse; a batch size of one makes
every batch boundary a place to fail; three records per row are what two runs can make of it. Two
changes under a page are what it takes to have one read see the first and a later one the second.
A day of five minutes in steps of two has a slot that fits, one that does not, and an end of day.

What else is narrowed, and why nothing is lost by it: nothing happens after a page, a list or a call
is complete (the properties speak of what it holds then); of interchangeable requests one begins
first; in the `tasks` part one speaker does the work and of the other the organizer hears, and the
request beside the first changes the task or gives it to everybody; in `calls` nothing but keys moves
before the call begins. Deadlock is not checked: requests run once, and the system comes to rest.

**Fairness.** The overlapping setting of `sync` assumes that a run under way takes its next
statement (no statement waits for another run, and a stopped Worker is a failure, not an eternal
wait) and that the cron fires (`*/15 * * * *` in `wrangler.jsonc`). `FairMail` assumes that time
passes, that a run under way goes on, and that the cron fires within its window again and again
(strong fairness, because the window closes). Nobody is assumed to press a button, and failures are
bounded.

### What the violations show

* `decision_retry`: recordDecision's comment says a retry after a partial failure converges
  (`review.ts:522`). The reversal's cancellation is planned from the stored status, which the failed
  attempt has already overwritten, so the retry cancels nothing and a denied proposal keeps its
  confirmed session. An acceptance does converge (`AcceptConverges`), because its conversion is
  planned from the session.
* `team_last_admin`: checkRoleChange "refuses any change that would leave the instance with no
  admin" (`team.ts:98`); two demotions at once each count the other.
* `rounds_deleted`: deleteRound claims the rule of unassignSubmission, whose delete is conditional
  (`rounds/actions.ts:174`, `409`); its own check and delete are two statements.
* `digests_twice`: "pressing it twice, or two admins pressing it at once, must not mail a speaker twice
  in a day" (`comms.ts:1321`), and the job "never double-sends" on overlapping schedules (`1520`), nor
  when a worker is fired twice inside the window (`1302`). The log is read once per event (`1611`) and
  a row is written after its mail has left: two runs that both read before either mails, mail twice.
  `DigestsApart` says that there is no other way but a lost row.

### Other disagreements met while modelling

Decisions: two acceptances at once both convert (`review.ts:361`, `550`; `OneSession` without
`Serial`); a task completed between a reversal's survey and its deletes is deleted (`446`, `660`); an
acceptance of a second talk in the same window loses its tasks (`448`, `654`). A speaker's edit that
breaks off after it dropped every link leaves a proposal without speakers, and a later acceptance
then leaves the roster alone, so that `AcceptConverges` needs that no edit runs; with edits it holds
wherever a speaker is left (`AcceptedWithSpeakers`).

Intake: a save that sets no tracks leaves a proposal that no reviewer is routed to
(`db/repos/d1/submissions.ts:134`), "unreachable by every reviewer" (`domain/submissions.ts:472`);
an edit in the portal whose form asks no tracks also takes away those an organizer has set.
`StaysReachable` excepts the rows whose last save set none.

Team and rounds: a demotion that failed after the role write is answered as unchanged when retried
(`team/actions.ts:64`); a scorecard filed between a demotion's read and its deletes is deleted (`78`,
`91`); an invitation leaves a former reviewer's routing (`70`); a scorecard filed between the
criteria lock and the edit (`rounds/actions.ts:144`; `ScorecardReadsBack` without `Serial`). A sighted
round's own pages name the author to somebody who holds blind work (`rounds.ts:838` against the two
score pages; `BlindnessHolds` excepts them). The rollup lists recused scorecards it does not count;
the nudge asks for work the queue no longer shows; "withdrawn" is set by no code.

Files and tasks: overlapping first replacements write version 1 twice; a first upload that breaks off
leaves a version on a pending assignment, which the history shows as delivered; a stale profile form
puts back a headshot an organizer replaced; overlapping first deliveries move `completedAt`. A bulk
assignment that fails leaves rows nobody is told of, and a retry finds them held; `onboarding.ts` says
tasks are not deletable once assigned, deleteTask cascades.

Forms: the field editor keeps several values when a condition is switched from "is one of" to "is"
(`field-editor.tsx:353`); on a question that takes one choice such a condition never fires, and
`fieldSchemaProblems`, which promises to refuse "a rule that can never fire again" (`forms.ts:817`),
accepts it (`AnswerableOK` excludes it).

Directory and program: the own name of a reused account is never checked against namesakes, nor is a
name that is changed later, in the portal (`app/portal/profile/actions.ts:101`) or by the API
(`admin-api.ts:190`); an import that read an empty bio can replace one saved meanwhile. `program.ts`
says sessions of one exact day and time share a slot, but sorts by start and room, so that a range
may come twice; the JSON feed reads the flag apart from the sessions.

API: `decisions.md` promises 120 requests per credential and minute, but calls out of scope are
refused before the limiter and each refreshed OAuth token has a budget of its own; createSession is
not idempotent; replace answers 404 for a session deleted after the write; paging by `updatedAt`
ascending skips rows nobody touched (`UntouchedAreListed` excepts it).

Mail and sync: the dialog before the digest's button "can never name a number the actual send
wouldn't produce" (`comms.ts:1679`), but it was counted when the page was rendered
(`communications/page.tsx:299`) and the send decides anew; `PreviewIsKept` excepts whom something
has changed for since, a day gone by included. `comms-templates.ts:684` says "last write wins" of
two rows for one template, while saves change the first and sends use the last; decisions about a
submission without a session are offered session fields. Confirmation copy of a form is saved
whatever placeholders it names, and only reported (`forms/actions.ts:192`), where D-020 says that
the admin UI validates before saving (`docs/decisions.md:134`). A mail that left without its log row
is unknown to every cooldown and to SEQUENCE (`lib/email.ts:379`). A scheduled sync deletes the
record of a row that a run of the button made meanwhile (`airtable-sync.ts:957`; `LiveRowsStay`
without `Serial`); rows without a Greenroom id are "human-owned and never deleted" (`18`, `827`),
but a record whose id its owner clears between listing (`841`) and deletion (`864`) is deleted,
which is what `ForeignRowsStay` excepts.

## Theorems

All are proved for every value of the constants, from each module's named assumption (disjointness
of ids, finitely many of them where they are counted, and the types of the switches), which TLC
evaluates on the runs, and from what the table names as a condition. All proof modules but
`DecisionProofs` extend the compositions themselves (`SessionProofs` `MCSessions` and
`MCDecisionChanges`, `MailProofs` `MCMail`, `DeskProofs` `MCDesk`, `TeamProofs` `MCOrganizers`,
`ReviewRoundsProofs` `MCOutside`, `ReviewScreensProofs` `MCScreens`, `AirtableSyncProofs`
`MCAirtableSync`), whose bounds are constants too, so that what is proved is the very property the
run checks, for every bound. Where a composition narrows what a part may do (below, *Why the bounds
are enough*), the theorem is also stated of the part alone, which nothing narrows.

| theorem | states |
|---|---|
| `DecisionProofs!TypeCorrect`, `DeskProofs!TypeCorrect`, `TeamProofs!TypeCorrect`, `ReviewRoundsProofs!TypeCorrect`, `AirtableSyncProofs!TypeCorrect`, `MailProofs!TypeCorrect`, `ReviewScreensProofs!TypeCorrect` | `[]TypeOK`, under every interleaving |
| `DecisionProofs!NeverConvertedAgain` | `[]ConvertedOnce`: a proposal that had its session keeps exactly that one, however requests interleave or fail (`NeverReconverted` of the run) |
| `DecisionProofs!OneSessionWhenSerial` | `Serial` implies `[]OneSession` |
| `DecisionProofs!VerdictsConverge` | `Serial` implies `[](AcceptedWithSpeakers /\ EditConverges)`, with edits and whatever fails |
| `DecisionProofs!VerdictsAlwaysTakeHold` | `Serial`, and no edit changing a proposal's speakers (`EditTeams = {}`), imply `[]VerdictsTakeHold`, whatever fails |
| `DecisionProofs!OnboardingImplemented` | `Serial` implies that `Decision` implements `Onboarding` (`ImplementsPromise`), with edits and whatever fails |
| `DecisionProofs!ReversalsAlwaysWithdraw` | with reversals only and no failures, `[]LastReversalWithdraws`, however many run at once |
| `SessionProofs!ChangesAlwaysTakeHold` | with reversals only and no failures beside the edits' half, `[]ChangesTakeHold`: in the composition, edits one at a time, failing anywhere, and any number of reversals at once |
| `SessionProofs!VersionsAlwaysRestorable` | `[]VersionsRestorable`, however edits overlap and break off |
| `SessionProofs!FilesAlwaysKept` | `[]FilesKept`, however uploads overlap and break off |
| `DeskProofs!ProposalsStayReachable` | `[]StaysReachable`, under every interleaving and failure |
| `DeskProofs!IntakeAlwaysHolds` | `[]IntakeHolds`, under every interleaving and failure |
| `DeskProofs!RequestsAlwaysHold` | `RequestsHold`, under every interleaving and failure |
| `DeskProofs!HistoryAlwaysTrue` | `[]HistoryIsTrue`, provided "no stage" is not a stage |
| `DeskProofs!FormsAlwaysHold`, `!AnswersStayAccepted` | `[]FormsHold` in the composition, for any questions, choices and schemas (`AnswerableOK`); and of `FormRules` alone, whatever its conditions compare with, that what was accepted is accepted again as it is |
| `TeamProofs!AdminAlwaysRemains` | `Serial` implies `[]AdminRemains` |
| `TeamProofs!DemotionAlwaysCleans` | `Serial` implies `[]DemotionCleans`, whatever fails |
| `TeamProofs!FiledWorkAlwaysStays` | `Serial` implies `FiledWorkStays`, whatever fails |
| `TeamProofs!ConflictsAlwaysSeen` | `[]ConflictsSeen`, however organizers overlap and break off, for days, rooms and lengths that are numbers and windows that end with the day (`AgendaOK`) |
| `TeamProofs!SuggestionsAlwaysFit` | `SuggestionFits`, under the same condition |
| `ReviewRoundsProofs!DoneAlwaysHasCard` | `[]DoneHasCard`: an assignment reported done has its scorecard, under every interleaving and failure |
| `ReviewRoundsProofs!CardsLostOnlyConfirmed` | without deletions of the round, `LostOnlyConfirmed` |
| `ReviewRoundsProofs!FiledAlwaysCounted` | `[]FiledIsCounted`, under every interleaving |
| `ReviewRoundsProofs!ScorecardsReadBack`, `!ReadsBackAlways` | `Serial` implies `[]ScorecardReadsBack`, whatever fails; the same in the composition (`ReadsBackSerially`) |
| `ReviewRoundsProofs!NudgesAlwaysOwed`, `!NudgesAreOwed` | `[]NudgesOwed` in the composition and alone, for finitely many proposals (`PairsOK`) |
| `ReviewRoundsProofs!ScoresAlwaysFair`, `!ScoresStayFair` | `ScoresAreFair` in the composition and alone, for any scales, weights, ratings and number of reviewers (`ScoresOK`) |
| `ReviewRoundsProofs!AnswersAlwaysHold` | `[]AnswersHold`: calls and lists of the API in the composition |
| `ReviewRoundsProofs!CallsAreGranted`, `!ListsAlwaysTell` | the same of any number of calls, and of lists, alone |
| `ReviewRoundsProofs!PagesAlwaysHold`, `!UntouchedAlwaysListed` | `[]PagesHold` in the composition and `UntouchedAreListed` of `ApiPages` alone, for any rows whose ids are numbers and any page size (`PagesOK`) |
| `AirtableSyncProofs!LiveRowsKept` | `Serial` implies `LiveRowsStay`, whatever fails and however the source changes during a run |
| `AirtableSyncProofs!RowsOnlyAdvance` | `Serial` implies `RowsAdvance` |
| `AirtableSyncProofs!RecordsAlwaysFollow` | `Serial` implies `RecordsOnlyFollow`: both in the composition |
| `AirtableSyncProofs!ForeignRowsKept` | `ForeignRowsStay`, however runs overlap and whatever the owner keeps meanwhile |
| `MailProofs!DigestsAlwaysApart` | `DigestsApart`, however runs overlap and whatever fails |
| `MailProofs!NobodyEverMailedInVain` | `[]NobodyMailedInVain`, however runs overlap and whatever fails or changes, for any natural bounds on the drafts |
| `MailProofs!PreviewAlwaysKept` | `[]PreviewIsKept`, however runs overlap and whatever fails or changes |
| `MailProofs!UpdatesAlwaysLand` | `[]UpdatesLand`, whatever overlapped, bounced or stopped before |
| `MailProofs!WordingAlwaysHolds` | `[]WordingHolds`, for any editors, sends and number of wordings |
| `ReviewScreensProofs!BlindnessAlwaysHolds` | `[]BlindnessHolds`, whatever changes between a page's reads |
| `ReviewScreensProofs!ScreensAlwaysAgree` | `[]ScreensAgree`, for any number of changes |
| `ReviewScreensProofs!TasksAlwaysHold`, `!TasksAreTold` | `[]TasksHold` in the composition, and its three parts of `Tasks` alone, however requests overlap and break off, provided `None` is no row (`NoneApart`) |
| `ReviewScreensProofs!DirectoryAlwaysHolds`, `!PeopleAreKept` | `[]DirectoryHolds` in the composition, and its three parts of `Directory` alone, for any addresses, names and lines of a file, however requests overlap (`PeopleOK`) |
| `ReviewScreensProofs!ProgramAlwaysHolds`, `!PagesAlwaysTell` | `[]ProgramHolds` in the composition, and its two parts of `Program` alone, for any sessions, speakers, wishes and number of edits, days, times and rooms being numbers (`ProgramOK`) |

**Decision.** Neither property is inductive: nothing in it says that a request about to insert a
session may do so. `IInv` adds what a request knows at each statement: it has read the session
before anything depends on it (`Control`), a session it found exists (`FoundExists`), where it found
none the proposal was not converted before (`NoneMeansNone`), and, run alone, is not converted now
(`NoneMeansFresh`). The last one is what two acceptances at once break.

**Verdicts.** `VInv` says, statement by statement, what the request under way knows of the rows
(`Knows`): the status is the one it wrote; who it holds to be on the proposal is who is; the session
it found stands as it was seen; on its roster is what it has put there; every task its speakers lack
is on its list or still to be looked up; and of a reversal, every pending row of somebody who speaks
nowhere else is on its list, or its owner is still to be surveyed. `Serial` is what keeps all this
true until it is used. About the proposals where a request has ended `VInv` says what the properties
say, and the two lemmas that carry it over are `Spares` (a statement changes other proposals in
nothing and takes no task from somebody confirmed elsewhere) and `Progress`. That no second session
can appear comes from `IInv`. The refinement has one lemma per statement: each one that writes is a
step of `Onboarding` because of what `Knows` says there, each one that reads is a stutter.
`Decision` is there twice in `MCDecisionChanges`, and so are its lemmas: `SessionProofs` takes
`DecisionProofs` once more with the constants of the edited proposal (`Edits`) and shows that its
steps are those of `Editing`.

**Reversals at once.** Nothing here hangs on who runs alone. Where somebody on no standing session
has a row to do, some reversal has yet to read whom it concerns, or has surveyed their sessions and
found none, or has that row on its list (`Owed`): the statement that takes somebody's last session
belongs to a request that is still before its survey. `Untouched` says that without acceptances, edits
and failures nobody adds to a roster or hands out a row.

**Session text, files.** Requests overlap at will, so the invariants speak of what is stored and what
is about to be: once a session has had two texts, every one is in the history or in a revision about
to be appended (`Told`), and, one edit after the other, each but the current can be restored and the
request under way has read the current one (`Chained`). Until an assignment has its first version, it
has the file it always had, and whoever is to write that version has read it; from then on there is a
version of every file it had (`TaskKept`). A headshot under the profile is tracked if it has its row,
a request is at writing it, or it was lost there; so is the one in the form, and the one a save read
and may write back (`ShotKept`).

**Intake.** Any number of requests run at once here, so the invariant says of each one only what the
others cannot take from it (`Knows`): its row, once written, stays; the form's type is the one it
read unless a change of type raced; a status it is about to set is set on a draft, or its reading is
old. What hangs on nobody else running (`Unrepeated`, `Empty`, `BelowCap`) it knows while it has
been alone, and `Alone` says that beside such a request there is none: `OthersKeep` is the one lemma
that carries the others' knowledge over every statement. About the rows it says who sees to what is
missing: a saved row without tracks is in `bare` or has a save before `InsertTracks` (`Tracked`),
one without a speaker a save not past `AddPrimary` (`Named`), and one waiting on a session-type form
a save that will still reach `AcceptOnArrival` and accept it there (`Awaited`), so a save that ends
passes through the statement that settles each. The cap is counted: a link adds one to fewer than
the cap (`OneMore`), every other statement leaves the set or takes from it (`Fewer`).

**Pipeline.** What overlaps cannot break: an enrolment under way is the only one (`Enrolled`) and the
stage of the card has its event or is about to (`Explained`). `Walked` adds, for requests that never
overlapped, that the one under way continues the walk so far.

**Forms.** A question hangs on the ones before it, so its lineage is closed in as many steps as
there are questions, and pruning an answer set keeps exactly what shows: of a question that was
hidden by the pruning, the least one above it that is hidden shows nothing has changed there
(`PrunedSeen`). A draft is held to the same questions as a submission with fewer demands
(`OptionalShows`). That every question can be reached by some answers takes the least one that
cannot, and one answer more than those that show what it hangs on (`NextShown`); this is where a
condition must compare with something its question can answer.

**Team.** The guard of checkRoleChange is evaluated on admins read earlier. `IInv` says that, run
alone, what a request read of the roles is still so when it writes (`Current`): its target's role is
the one read, and somebody else is an admin when the target was. For the clean-up, `CleanInv` says
what a demotion has behind it at each statement: once the role is written the routing goes; what is
open and not yet listed, read or deleted is still to come; and what it is about to delete was read
without a scorecard and, run alone, still has none.

**Agenda.** A conflict that placements have made is in a report, or of a session that changed by other
ways since, or a placement of one of the two is still going to report it: it has yet to read the board,
or of both sessions has read what is there now (`Sees`, `Said`). Whoever writes a session's row last is
before its own read then, so no order of the others' reads can lose the conflict. A slot is fresh as
long as nothing was written since the read (`Fresh`), and then it is where the search found it free, at
the length it was asked for (`Free`); that the search finds one at all, the first by day, time and room,
rests on the least of a set of numbers (`Least`, `FirstIsFree`). No length is kept apart from the row:
the row of a session in the tray has its times still (`Lasting`).

**ReviewRounds.** `DoneHasCard` needs that between saving a card and writing `done` the card stays
as long as the row does (`Filed`). A card goes only with its row; but a row deleted and assigned
again is a row without a card in the same slot. The writes go by row id, so `IInv` must say that an
id a request remembers is never used for a second row: an id is its creator's, and a request
inserts at most one row per slot (`RowsConsumed`, `Remembers`). `CardInv` adds, for a request alone,
that the criteria it validated a scorecard against are the round's, and that an edit past the lock
found no scorecard and there is none; and, for any interleaving, that a card on file is either
counted or its scorer stands just before the status write, or something broke off.

**AirtableSync.** The action properties need what a run's memory says of the present. `Known`:
what it read there was, and it is not newer than the source is now; what is the owner's on its deletion
list became so after the listing (`late`). `Fresh`, for a run alone: of the events behind it
it has read every row that has a record, unless that row is deleted since; what it read is at least
as new as the base; and what it is about to delete is gone from the source, for good. `BaseInv`: no
record is managed whose row never was, and, run alone, none is newer than its row. Overlapping runs
break exactly `Fresh`.

**Digests.** The clock stands while a run is under way, so what a run read of the log is still so of
everybody it has not mailed, and of whom it is mailing, unless somebody else has mailed them since
(`LogKept`; the history `missed`); a run that stands between a mail and its row counts as having
mailed for every run that has read the log without that row (`Heard`). What a run must not chase is
known by two histories, `clear` (owed nothing since it began) and `away` (declined since then): each
of its two readings excludes one of them (`Spared`). A first attempt had one history of both, "need
not be chased since", and was no invariant: somebody who has declined and owes may complete and then
accept between the two readings, is never due, and is mailed. `Kept` follows those of whom nothing
has changed (`quiet`) from the page's two readings over the open dialog and through the run's own
two readings to whoever is left: what was read of them is so at each.

**Drafts, invitations.** A reminder is in the log, or excused, or about to be logged (`Remembered`), and
a run that has been alone knows what the log says of whom it lists. No calendar is ahead of the log,
and one that has caught up with it shows an invitation about to be logged or one whose row was lost
(`Behind`); a request that has been alone has counted all there are (`Undisturbed`), so the SEQUENCE
it sends is above the calendar's.

**Wording.** Which fields are filled in is a matter of each channel's table against its send path's, and
of those the built-in copy names outside its sections against those that are never empty
(`OfferedAreGiven`, channel by channel); the rest is that whatever is in a row, an edit or a notice was
let through. As long as no two edits wrote at once there is at most one row, it is what a writer has
found, and its text is the one saved last (`OneWording`); an edit goes by the row's id, and
meets it as it was found.

**ReviewScreens.** A page knows, read by read, what the two properties need of it (`Sees`): once it has
read the rounds, every round in which the reviewer is blind all the while is among the blind ones it
holds (`SeesBlind`); and, where nothing has changed, what it holds is what is there (`ReadSo`). That
whatever is owed is also listed needs the assignments themselves to be in track, and those are made
by a request that checks against what it read: `Fitting` says that its reading of the routing is still
so, or everything it may assign counts as moved. It was not invariant at first: an organizer who
unassigned a pair that such a request was about to assign again made the history forget the move.
`Unassign` now keeps it (`InCheck`); the run's two changes had been one too few to show it.

**API calls.** No check is repeated once it was passed, so the invariant says what each one still
proves later (`Checked`): a key that was live keeps its owner and its scopes, whatever happens to it; an
event and a session's event never change; and what a call knows of its credential was so at some
moment since it began, which is all the code promises (`Known`, `ever`). A call that is refused has
written nothing, save a replacement whose session is gone when its answer is read (`Answers`).

**Lists.** What a list has gathered so far was there at some moment since it began, and whoever has been
there all the while and is behind the read is among it (`Gathered`): two histories, `ever` and `stood`,
hold the reads between them.

**Pages.** Where a row stands in the collection is how many rows come before it. A row that nobody
touches is passed by others only towards the front, so its place only grows (`PlaceGrows`); a caller
who has read so many rows has been given whatever stands there and was not touched (`SliceHas`).

**Scores.** A sum is a recursion over a sequence, and there is no induction over data here: a least
number where the claim fails stands in for it (`Climbs`). Sums compare as their parts do, times a
constant (`SumsCompare`), and a part changed changes the sum by as much (`SumChanges`); dividing and
rounding down is known only by what it is at least (`Floor`). If every rating were worth more than
the score, the weighted sum would exceed the score plus one times the weights (`ScoreWithin`); one
more score moves a mean towards it (`MeanMoves`). That the ratings compared are those of one set of
criteria comes from the lock: criteria change only while no card is on file (`ScoreInv`).

**Nudges.** The button reads the assignments, then the scorecards. A scorecard is on file wherever an
assignment is done and nowhere where it is open, so whoever is without one among what was read owed at
the press or has come to owe since, or has lost an assignment; and while nothing changes, whoever owes
is on the list or mailed (`Behindhand`). An assignment that is pending with a scorecard on file is one
whose filing has written the first of its two statements (`half`), and no other.

**Tasks.** Whoever has a row and was not told is on the list of the request that made the row, and
that request is still before its mail, or it broke off (`ToTell`, `RowsFit`): the list leaves nobody
out between the insert and the mail, and a row deleted and made again is another request's. Whoever
was meant holds the task or is still missing from what the request has done, once it has seen the
holders (`Remembers`). What a completion has read of a task is so for as long as its row is there
(`PortalFits`), because nobody changes what a task asks for past a look that found no holder, save
beside somebody who gives it meanwhile; those rows are `late`.

**Directory.** A row of the file is told as made, changed or left alone, and what the report tells
of anybody is so or still awaited by the statement that follows (`Current`, `Awaited`, `Where`). An
import knows every address of the file that was there when it looked (`Knows`); a request whose
changes carry a name or a biography never names somebody an import made (`Unnamed`), so that what
people wrote of themselves stays; and of two imports that never overlapped the later knows whom the
earlier made (`Recalls`, `Apart`), so a namesake is flagged; people rename themselves at any time,
and whoever has is excepted by address (`renamed`), so that `Knows` holds of everybody else's name.

**Program.** A page that is being made knows something of every fact: what it takes to have been so all
the while is so now, and what is so now it counts among what was so at some moment (`ViewSo`). What it
has read of sessions and members lies between the two (`SessionsSo`, `MembersSo`), and so does what it
makes of it. The order is that of ranks: as many sessions come before one as its rank says, so that
every rank has one (`RanksDiffer`, `ComeInOrder`). Of the slots that the first `n` sessions fill
`SlotsFit` says that they hold these, in order, and that no two neighbours have one range; hence between
two slots of one range there is one that begins with them (`RangesApart`). An announcement that nobody
has edited since is so now (`Announced`), on the page that is asked for after it (`AfterSo`).

**What stays with TLC.** Liveness and fairness (`OverlapsConverge`, `KeepsReminding`) are out of the
prover's reach here. Every other property of a passing run is stated by a theorem.

## Plan

Not modelled and why: the agenda board's client (`agenda-board.tsx`) and the form builder
(`form-builder.tsx`), which keep unsaved state in one browser; composing bulk messages and choosing
their audience; provisioning of Airtable tables; the files library's ZIP; seed data and smoke scripts;
rendering, styling, third-party authentication and object storage (input and output without
transitions of this program's own).
