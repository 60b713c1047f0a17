-------------------------------- MODULE Team --------------------------------
(***************************************************************************)
(* Who is on the team: roles, the tracks routed to reviewers, and the      *)
(* review work assigned to them.  Roles are changed from the team screen,  *)
(* by an invitation, and by an owner signing in; leaving the reviewer role *)
(* is meant to take the routing and the open work along and to leave filed *)
(* scorecards alone.                                                       *)
(*                                                                         *)
(* A request is a sequence of single D1 statements; other requests run in  *)
(* between.  Each action is one statement or one group of reads of one     *)
(* table.                                                                  *)
(***************************************************************************)
EXTENDS Naturals, FiniteSets

CONSTANTS
  Requests,   \* requests: each runs at most once
  Users,      \* email addresses, each with at most one account
  Owners,     \* the addresses in ADMIN_EMAILS
  Tracks,     \* the event's tracks; every submission is in all of them
  Rows,       \* generated ids of round assignments, each used at most once
  Holder,     \* the reviewer an assignment id is used for
  None,       \* no request, no user, no row
  Kinds,      \* what requests may ask for
  Serial,     \* TRUE: a request starts only when none is running
  MayFail     \* TRUE: a request may stop between any two statements

ASSUME ConstantsOK ==
  /\ None \notin Requests \cup Users \cup Rows
  /\ Owners \subseteq Users
  /\ Holder \in [Rows -> Users]
  /\ Kinds \subseteq {"change", "invite", "tracks", "assign", "score"}
  /\ Serial \in BOOLEAN /\ MayFail \in BOOLEAN

VARIABLES
  role,    \* users.role, "none" where the address has no account
  routed,  \* reviewer_tracks
  work,    \* round_assignments, "filed" with its row in round_scores
  req,     \* the requests' own state
  last     \* history: the request that wrote each user's role or routing last

vars == <<role, routed, work, req, last>>
db == <<role, routed, work>>

Roles == {"admin", "reviewer", "speaker"}
Ended == {"done", "refused", "failed"}
Labels ==
  {"idle", "target", "admins", "write", "create", "unroute", "list", "scores",
   "unassign", "untrack", "retrack", "covered", "insert", "file"} \cup Ended

Request ==
  [pc : Labels,                       \* the statement it runs next
   kind : Kinds \cup {"none"},
   user : Users \cup {None},          \* whom it is about
   next : Roles,                      \* the role asked for
   was : Roles \cup {"none"},         \* the role its target had when read
   row : Rows \cup {None},            \* the assignment it makes or scores
   picked : SUBSET Tracks,            \* the tracks asked for
   doomed : SUBSET Rows]              \* assignments to delete

TypeOK ==
  /\ role \in [Users -> Roles \cup {"none"}]
  /\ routed \in [Users -> SUBSET Tracks]
  /\ work \in [Rows -> {"unused", "open", "filed", "deleted"}]
  /\ req \in [Requests -> Request]
  /\ last \in [Users -> Requests \cup {None}]

Idle ==
  [pc |-> "idle", kind |-> "none", user |-> None, next |-> "speaker",
   was |-> "none", row |-> None, picked |-> {}, doomed |-> {}]

InFlight == {r \in Requests : req[r].pc \notin {"idle"} \cup Ended}
Admins == {u \in Users : role[u] = "admin"}

(* An instance with an admin; reviewers may have tracks and work. *)
Init ==
  /\ role \in [Users -> Roles \cup {"none"}]
  /\ Admins # {}
  /\ routed \in [Users -> SUBSET Tracks]
  /\ \A u \in Users : routed[u] # {} => role[u] = "reviewer"
  /\ work \in [Rows -> {"unused", "open", "filed"}]
  /\ \A a \in Rows : work[a] = "open" => role[Holder[a]] \in {"admin", "reviewer"}
  /\ \A a \in Rows : work[a] = "filed" => role[Holder[a]] # "none"
  /\ req = [r \in Requests |-> Idle]
  /\ last = [u \in Users |-> None]

----------------------------------------------------------------------------
At(r, label) == req[r].pc = label
(* A request that ends forgets what it read, except for the role it found. *)
Resting(q) == IF q.pc \notin Ended THEN q
              ELSE [Idle EXCEPT !.pc = q.pc, !.kind = q.kind, !.user = q.user,
                                !.next = q.next, !.was = q.was]
Set(r, rec) == req' = [req EXCEPT ![r] = Resting(rec)]
Goto(r, label) == Set(r, [req[r] EXCEPT !.pc = label])
Open(r, kind) ==
  /\ kind \in Kinds /\ At(r, "idle")
  /\ Serial => InFlight = {}
OnlyMoves == UNCHANGED <<db, last>>

(* requireAdmin for the first four, on the role the caller has now.        *)
Organizer == Admins # {}

ChangeTeamRole(r, u, next) ==
  /\ Open(r, "change") /\ Organizer
  /\ Set(r, [Idle EXCEPT !.pc = "target", !.kind = "change", !.user = u, !.next = next])
  /\ OnlyMoves

InviteTeammate(r, u, next) ==
  /\ Open(r, "invite") /\ Organizer /\ next # "speaker"
  /\ Set(r, [Idle EXCEPT !.pc = "target", !.kind = "invite", !.user = u, !.next = next])
  /\ OnlyMoves

SetReviewerTracks(r, u, picked) ==
  /\ Open(r, "tracks") /\ Organizer
  /\ Set(r, [Idle EXCEPT !.pc = "target", !.kind = "tracks", !.user = u, !.picked = picked])
  /\ OnlyMoves

AssignSubmissions(r, a) ==
  /\ Open(r, "assign") /\ Organizer
  /\ Set(r, [Idle EXCEPT !.pc = "target", !.kind = "assign", !.user = Holder[a], !.row = a])
  /\ OnlyMoves

(* requireAdminOrReviewer, then the caller's own assignment is read *)
SubmitScorecard(r, a) ==
  /\ Open(r, "score") /\ role[Holder[a]] \in {"admin", "reviewer"}
  /\ work[a] \in {"open", "filed"}
  /\ Set(r, [Idle EXCEPT !.pc = "file", !.kind = "score", !.user = Holder[a], !.row = a])
  /\ OnlyMoves

(* users.getById or getByEmail, and what each request makes of the role.   *)
AfterTarget(q, was) ==
  CASE q.kind = "change" -> IF was = "none" THEN "refused" ELSE "admins"
    [] q.kind = "invite" -> IF was = "none" THEN "create"
                            ELSE IF was = q.next THEN "refused" ELSE "admins"
    [] q.kind = "tracks" -> IF was = "reviewer" THEN "untrack" ELSE "refused"
    [] q.kind = "assign" -> IF was = "admin" THEN "insert"
                            ELSE IF was = "reviewer" THEN "covered" ELSE "refused"

ReadTarget(r) ==
  /\ At(r, "target")
  /\ LET was == role[req[r].user]
     IN Set(r, [req[r] EXCEPT !.was = was, !.pc = AfterTarget(req[r], was)])
  /\ OnlyMoves

(* Mutant: the target counts among the admins who would remain *)
CountsTarget(admins, u, was, next) ==
  IF was = next THEN "done"
  ELSE IF was = "admin" /\ admins = {} THEN "refused" ELSE "write"

CheckRoleChange(admins, u, was, next) ==
  IF was = next THEN "done"
  ELSE IF was = "admin" /\ admins \ {u} = {} THEN "refused" ELSE "write"

ReadAdmins(r) ==
  /\ At(r, "admins")
  /\ Goto(r, CheckRoleChange(Admins, req[r].user, req[r].was, req[r].next))
  /\ OnlyMoves

(* Mutant: a reviewer made an admin keeps the reviewer's routing *)
Removed(q) == q.kind = "change" /\ q.was = "reviewer" /\ q.next = "speaker"

(* Only the team screen cleans up after a reviewer, not an invitation.     *)
LeavesReviewing(q) == q.kind = "change" /\ q.was = "reviewer" /\ q.next # "reviewer"

(* users.update: by id, whatever the role is by now *)
WriteRole(r) ==
  /\ At(r, "write")
  /\ role' = [role EXCEPT ![req[r].user] = req[r].next]
  /\ last' = [last EXCEPT ![req[r].user] = r]
  /\ Goto(r, IF LeavesReviewing(req[r]) THEN "unroute" ELSE "done")
  /\ UNCHANGED <<routed, work>>

(* users.create: users.email is unique *)
CreateUser(r) ==
  /\ At(r, "create")
  /\ IF role[req[r].user] = "none"
     THEN /\ role' = [role EXCEPT ![req[r].user] = req[r].next]
          /\ last' = [last EXCEPT ![req[r].user] = r]
          /\ Goto(r, "done")
     ELSE Goto(r, "failed") /\ UNCHANGED <<role, last>>
  /\ UNCHANGED <<routed, work>>

(* tracks.setReviewerTracks(target, []) *)
Unroute(r) ==
  /\ At(r, "unroute")
  /\ routed' = [routed EXCEPT ![req[r].user] = {}]
  /\ Goto(r, "list")
  /\ UNCHANGED <<role, work, last>>

(* reviewRounds.listAssignmentsByReviewer *)
ListAssignments(r) ==
  /\ At(r, "list")
  /\ LET mine == {a \in Rows : Holder[a] = req[r].user /\ work[a] \in {"open", "filed"}}
     IN Set(r, [req[r] EXCEPT !.doomed = mine,
                              !.pc = IF mine = {} THEN "done" ELSE "scores"])
  /\ OnlyMoves

(* Mutant: every assignment goes *)
Everything(rows) == rows
Unscored(rows) == {a \in rows : work[a] # "filed"}

(* reviewRounds.listScoresByAssignments *)
ReadScores(r) ==
  /\ At(r, "scores")
  /\ LET open == Unscored(req[r].doomed)
     IN Set(r, [req[r] EXCEPT !.doomed = open,
                              !.pc = IF open = {} THEN "done" ELSE "unassign"])
  /\ OnlyMoves

(* reviewRounds.unassign: by id, and the scorecard cascades with the row.  *)
(* The deletes run together, so they land in any order.                    *)
Unassign(r) ==
  /\ At(r, "unassign")
  /\ \E a \in req[r].doomed :
       /\ work' = [work EXCEPT ![a] = "deleted"]
       /\ Set(r, [req[r] EXCEPT !.doomed = @ \ {a},
                                !.pc = IF req[r].doomed = {a} THEN "done" ELSE "unassign"])
  /\ UNCHANGED <<role, routed, last>>

(* tracks.setReviewerTracksForEvent: a DELETE, then an INSERT if anything   *)
(* was picked                                                              *)
Untrack(r) ==
  /\ At(r, "untrack")
  /\ routed' = [routed EXCEPT ![req[r].user] = {}]
  /\ last' = [last EXCEPT ![req[r].user] = r]
  /\ Goto(r, IF req[r].picked = {} THEN "done" ELSE "retrack")
  /\ UNCHANGED <<role, work>>

Retrack(r) ==
  /\ At(r, "retrack")
  /\ routed' = [routed EXCEPT ![req[r].user] = @ \cup req[r].picked]
  /\ last' = [last EXCEPT ![req[r].user] = r]
  /\ Goto(r, "done")
  /\ UNCHANGED <<role, work>>

(* tracks.listByReviewer and canAssignReviewer *)
ReadRouting(r) ==
  /\ At(r, "covered")
  /\ Goto(r, IF routed[req[r].user] = {} THEN "refused" ELSE "insert")
  /\ OnlyMoves

(* reviewRounds.assign: an existing row is left as it is *)
InsertAssignment(r) ==
  /\ At(r, "insert")
  /\ work' = IF work[req[r].row] = "unused"
             THEN [work EXCEPT ![req[r].row] = "open"] ELSE work
  /\ last' = [last EXCEPT ![req[r].user] = r]
  /\ Goto(r, "done")
  /\ UNCHANGED <<role, routed>>

(* reviewRounds.saveScore: the foreign key refuses a card without its row  *)
SaveScore(r) ==
  /\ At(r, "file")
  /\ IF work[req[r].row] = "deleted"
     THEN Goto(r, "failed") /\ work' = work
     ELSE Goto(r, "done") /\ work' = [work EXCEPT ![req[r].row] = "filed"]
  /\ UNCHANGED <<role, routed, last>>

(* The session hook and decideAdminBootstrap: an owner who signs in is      *)
(* promoted; anyone else signs in with the role the account has.           *)
SignIn(u) ==
  /\ Serial => InFlight = {}
  /\ u \in Owners /\ role[u] \in {"reviewer", "speaker"}
  /\ role' = [role EXCEPT ![u] = "admin"]
  /\ last' = [last EXCEPT ![u] = None]
  /\ UNCHANGED <<routed, work, req>>

(* findOrCreateSpeaker, and a first sign-in: a new account is a speaker's   *)
SignUp(u) ==
  /\ Serial => InFlight = {}
  /\ role[u] = "none"
  /\ role' = [role EXCEPT ![u] = "speaker"]
  /\ UNCHANGED <<routed, work, req, last>>

(* The worker stops, or a statement fails and the handler answers "try      *)
(* again"                                                                  *)
Fail(r) ==
  /\ MayFail /\ r \in InFlight
  /\ Goto(r, "failed")
  /\ OnlyMoves

Begin(r) ==
  \/ \E u \in Users, next \in Roles : ChangeTeamRole(r, u, next) \/ InviteTeammate(r, u, next)
  \/ \E u \in Users, picked \in SUBSET Tracks : SetReviewerTracks(r, u, picked)
  \/ \E a \in Rows : AssignSubmissions(r, a) \/ SubmitScorecard(r, a)

Step(r) ==
  \/ ReadTarget(r) \/ ReadAdmins(r) \/ WriteRole(r) \/ CreateUser(r)
  \/ Unroute(r) \/ ListAssignments(r) \/ ReadScores(r) \/ Unassign(r)
  \/ Untrack(r) \/ Retrack(r) \/ ReadRouting(r) \/ InsertAssignment(r)
  \/ SaveScore(r)

Next ==
  \/ \E r \in Requests : Begin(r) \/ Step(r) \/ Fail(r)
  \/ \E u \in Users : SignIn(u) \/ SignUp(u)

Spec == Init /\ [][Next]_vars

----------------------------------------------------------------------------
(* Properties *)

(* The instance always has an admin: the last one can be neither demoted    *)
(* nor step down (checkRoleChange in src/domain/team.ts).                  *)
AdminRemains == Admins # {}

(* Somebody demoted from reviewing, by a request that ran to its end and    *)
(* that nothing has overridden since, holds no track and no unfiled work    *)
(* (changeTeamRole in src/app/admin/[eventSlug]/team/actions.ts).          *)
DemotionCleans ==
  \A u \in Users :
    LET q == req[last[u]] IN
    /\ last[u] # None /\ q.pc = "done" /\ q.kind = "change"
    /\ q.was = "reviewer" /\ q.next # "reviewer"
    =>
      /\ routed[u] = {}
      /\ \A a \in Rows : Holder[a] = u => work[a] # "open"

(* Changes of the team never destroy a filed scorecard (changeTeamRole).   *)
FiledWorkStays == [][\A a \in Rows : work[a] = "filed" => work'[a] = "filed"]_work

============================================================================
