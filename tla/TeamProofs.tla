----------------------------- MODULE TeamProofs -----------------------------
(***************************************************************************)
(* Theorems about modules Team and Agenda.  Of the team, for any sets of   *)
(* requests, users, tracks and assignments: types; and, of requests run    *)
(* one at a time, that they never leave the instance without an admin,     *)
(* never leave work with a reviewer they demoted and never destroy a filed *)
(* scorecard.  Of the agenda, for any board and however organizers work on *)
(* it side by side: whoever made a conflict has heard of it, and a slot    *)
(* that was suggested fits.                                                *)
(***************************************************************************)
EXTENDS MCOrganizers, TLAPS, WellFoundedInduction

AtRest == {"idle"} \cup Ended

(* A request under way knows whom, and where it needs one which assignment, *)
(* it is about; a scorecard does not look its holder's role up.            *)
Sound(q) ==
  /\ q \in Request
  /\ q.pc \notin AtRest => q.user \in Users
  /\ q.pc = "target" => q.kind \in {"change", "invite", "tracks", "assign"}
  /\ q.pc \in {"covered", "insert", "file"} \/ (q.pc = "target" /\ q.kind = "assign")
       => q.row \in Rows

(* What a request read of the roles is still so, and the check it made of   *)
(* the admins still holds.                                                 *)
Current(q) ==
  /\ q.pc \in {"admins", "write"} => q.was = role[q.user]
  /\ q.pc = "write" /\ q.was = "admin" => Admins \ {q.user} # {}

(* The same of a record q that the step leaves to a request *)
NextCurrent(q) ==
  /\ q.pc \in {"admins", "write"} => q.was = role'[q.user]
  /\ q.pc = "write" /\ q.was = "admin" => Admins' \ {q.user} # {}

Alone == \A r, o \in Requests : req[r].pc \notin AtRest /\ req[o].pc \notin AtRest => r = o

SerialInv ==
  Serial => /\ Alone
            /\ AdminRemains
            /\ \A r \in Requests : Current(req[r])

IInv == TypeOK /\ (\A r \in Requests : Sound(req[r])) /\ SerialInv

----------------------------------------------------------------------------
LEMMA IdleSound == Sound(Idle)
  BY DEF Sound, Idle, Request, Labels, Roles, AtRest, Ended

(* Coming to rest keeps a request sound *)
LEMMA RestingSound ==
  ASSUME NEW q, Sound(q)
  PROVE  Sound(Resting(q)) /\ Resting(q).pc = q.pc
<1>1. CASE q.pc \notin Ended
  BY <1>1 DEF Resting
<1>2. CASE q.pc \in Ended
  <2> DEFINE e == [Idle EXCEPT !.pc = q.pc, !.kind = q.kind, !.user = q.user,
                               !.next = q.next, !.was = q.was]
  <2>1. /\ q.pc \in Labels /\ q.kind \in Kinds \cup {"none"}
        /\ q.user \in Users \cup {None} /\ q.next \in Roles
        /\ q.was \in Roles \cup {"none"}
    BY DEF Sound, Request
  <2>2. e \in Request /\ e.pc = q.pc
    BY <2>1 DEF Idle, Request
  <2>3. Sound(e)
    BY <1>2, <2>2 DEF Sound, AtRest, Ended
  <2> QED BY <1>2, <2>2, <2>3 DEF Resting
<1> QED BY <1>1, <1>2

(* A request that becomes q, where every other one is at rest if requests   *)
(* run one at a time                                                       *)
LEMMA Becomes ==
  ASSUME IInv, NEW r \in Requests, NEW q, Sound(q), Set(r, q),
         role' \in [Users -> Roles \cup {"none"}],
         routed' \in [Users -> SUBSET Tracks],
         work' \in [Rows -> {"unused", "open", "filed", "deleted"}],
         last' \in [Users -> Requests \cup {None}],
         Serial => /\ \A o \in Requests \ {r} : req[o].pc \in AtRest
                   /\ AdminRemains'
                   /\ NextCurrent(q)
  PROVE  IInv'
<1>1. /\ req' = [req EXCEPT ![r] = Resting(q)]
      /\ Sound(Resting(q)) /\ Resting(q).pc = q.pc
  BY RestingSound DEF Set
<1>2. /\ req' \in [Requests -> Request]
      /\ req'[r] = Resting(q)
      /\ \A o \in Requests \ {r} : req'[o] = req[o]
  BY <1>1 DEF IInv, TypeOK, Sound
<1>3. TypeOK'
  BY <1>2 DEF TypeOK
<1>4. \A o \in Requests : Sound(req'[o])
  BY <1>1, <1>2 DEF IInv
<1>5. ASSUME Serial PROVE Alone'
  BY <1>5, <1>2 DEF Alone
<1>6. ASSUME Serial, NEW o \in Requests PROVE Current(req[o])'
  <2>1. CASE o # r
    BY <1>2, <1>6, <2>1 DEF Current, AtRest, Ended
  <2>2. CASE o = r
    <3>1. Resting(q) = q \/ Resting(q).pc \in Ended
      BY <1>1 DEF Resting
    <3> QED BY <1>2, <1>6, <2>2, <3>1 DEF Current, NextCurrent, Ended
  <2> QED BY <2>1, <2>2
<1>7. SerialInv'
  BY <1>5, <1>6 DEF SerialInv
<1> QED BY <1>3, <1>4, <1>7 DEF IInv, Sound

(* While a request runs on its own, the others are at rest *)
LEMMA OthersRest ==
  ASSUME IInv, NEW r \in Requests, req[r].pc \notin AtRest
  PROVE  Serial => \A o \in Requests \ {r} : req[o].pc \in AtRest
  BY DEF IInv, SerialInv, Alone

(* A statement of a request that leaves the roles alone and does not go on  *)
(* to a write                                                              *)
LEMMA Moves ==
  ASSUME IInv, NEW r \in Requests, req[r].pc \notin AtRest,
         NEW q, Sound(q), q.pc \notin {"admins", "write"}, Set(r, q), role' = role,
         routed' \in [Users -> SUBSET Tracks],
         work' \in [Rows -> {"unused", "open", "filed", "deleted"}],
         last' \in [Users -> Requests \cup {None}]
  PROVE  IInv'
<1>1. Serial => \A o \in Requests \ {r} : req[o].pc \in AtRest
  BY OthersRest
<1>2. Serial => AdminRemains'
  BY DEF IInv, SerialInv, AdminRemains, Admins
<1>3. NextCurrent(q)
  BY DEF NextCurrent
<1> QED BY <1>1, <1>2, <1>3, Becomes DEF IInv, TypeOK

(* A request begins with a record in the state of Idle *)
LEMMA Begins ==
  ASSUME IInv, NEW r \in Requests, NEW kind, Open(r, kind), NEW q, Sound(q),
         q.pc \in {"target", "file"}, Set(r, q), OnlyMoves
  PROVE  IInv'
<1>1. Serial => \A o \in Requests \ {r} : req[o].pc \in AtRest
  BY DEF Open, InFlight, AtRest
<1>2. Serial => AdminRemains'
  BY DEF IInv, SerialInv, AdminRemains, Admins, OnlyMoves, db
<1>3. NextCurrent(q)
  BY DEF NextCurrent
<1> QED BY <1>1, <1>2, <1>3, Becomes DEF IInv, TypeOK, OnlyMoves, db

LEMMA BeginKeeps ==
  ASSUME ConstantsOK, IInv, NEW r \in Requests, Begin(r)
  PROVE  IInv'
<1>1. CASE \E u \in Users, next \in Roles : ChangeTeamRole(r, u, next)
  <2>1. PICK u \in Users, next \in Roles : ChangeTeamRole(r, u, next)
    BY <1>1
  <2> DEFINE q == [Idle EXCEPT !.pc = "target", !.kind = "change", !.user = u, !.next = next]
  <2>2. Sound(q) /\ q.pc = "target"
    BY <2>1 DEF ChangeTeamRole, Open, Sound, Idle, Request, Labels, Roles, AtRest, Ended
  <2> QED BY <2>1, <2>2, Begins DEF ChangeTeamRole
<1>2. CASE \E u \in Users, next \in Roles : InviteTeammate(r, u, next)
  <2>1. PICK u \in Users, next \in Roles : InviteTeammate(r, u, next)
    BY <1>2
  <2> DEFINE q == [Idle EXCEPT !.pc = "target", !.kind = "invite", !.user = u, !.next = next]
  <2>2. Sound(q) /\ q.pc = "target"
    BY <2>1 DEF InviteTeammate, Open, Sound, Idle, Request, Labels, Roles, AtRest, Ended
  <2> QED BY <2>1, <2>2, Begins DEF InviteTeammate
<1>3. CASE \E u \in Users, picked \in SUBSET Tracks : SetReviewerTracks(r, u, picked)
  <2>1. PICK u \in Users, picked \in SUBSET Tracks : SetReviewerTracks(r, u, picked)
    BY <1>3
  <2> DEFINE q == [Idle EXCEPT !.pc = "target", !.kind = "tracks", !.user = u, !.picked = picked]
  <2>2. Sound(q) /\ q.pc = "target"
    BY <2>1 DEF SetReviewerTracks, Open, Sound, Idle, Request, Labels, Roles, AtRest, Ended
  <2> QED BY <2>1, <2>2, Begins DEF SetReviewerTracks
<1>4. CASE \E a \in Rows : AssignSubmissions(r, a)
  <2>1. PICK a \in Rows : AssignSubmissions(r, a)
    BY <1>4
  <2> DEFINE q == [Idle EXCEPT !.pc = "target", !.kind = "assign", !.user = Holder[a], !.row = a]
  <2>2. Holder[a] \in Users
    BY DEF ConstantsOK
  <2>3. Sound(q) /\ q.pc = "target"
    BY <2>1, <2>2 DEF AssignSubmissions, Open, Sound, Idle, Request, Labels, Roles, AtRest, Ended
  <2> QED BY <2>1, <2>3, Begins DEF AssignSubmissions
<1>5. CASE \E a \in Rows : SubmitScorecard(r, a)
  <2>1. PICK a \in Rows : SubmitScorecard(r, a)
    BY <1>5
  <2> DEFINE q == [Idle EXCEPT !.pc = "file", !.kind = "score", !.user = Holder[a], !.row = a]
  <2>2. Holder[a] \in Users
    BY DEF ConstantsOK
  <2>3. Sound(q) /\ q.pc = "file"
    BY <2>1, <2>2 DEF SubmitScorecard, Open, Sound, Idle, Request, Labels, Roles, AtRest, Ended
  <2> QED BY <2>1, <2>3, Begins DEF SubmitScorecard
<1> QED BY <1>1, <1>2, <1>3, <1>4, <1>5 DEF Begin

----------------------------------------------------------------------------
(* A request that only moves on to another statement *)
LEMMA MovesTo ==
  ASSUME IInv, NEW r \in Requests, req[r].pc \notin AtRest,
         NEW label \in Labels \ {"idle", "target", "admins", "write", "covered", "insert", "file"},
         NEW rows \in SUBSET Rows
  PROVE  LET q == [req[r] EXCEPT !.doomed = rows, !.pc = label]
             g == [req[r] EXCEPT !.pc = label]
         IN /\ Sound(q) /\ q.pc = label
            /\ Sound(g) /\ g.pc = label
<1> DEFINE q == [req[r] EXCEPT !.doomed = rows, !.pc = label]
           g == [req[r] EXCEPT !.pc = label]
<1>1. req[r] \in Request /\ req[r].user \in Users
  BY DEF IInv, TypeOK, Sound
<1>2. /\ q \in Request /\ q.pc = label /\ q.user = req[r].user
      /\ g \in Request /\ g.pc = label /\ g.user = req[r].user
  BY <1>1 DEF Request
<1>3. Sound(q) /\ Sound(g)
  BY <1>1, <1>2 DEF Sound
<1> QED BY <1>2, <1>3

LEMMA ReadTargetKeeps ==
  ASSUME IInv, NEW r \in Requests, ReadTarget(r)
  PROVE  IInv'
<1> DEFINE was == role[req[r].user]
           q == [req[r] EXCEPT !.was = was, !.pc = AfterTarget(req[r], was)]
<1>1. req[r].pc = "target" /\ req[r].pc \notin AtRest
  BY DEF ReadTarget, At, AtRest, Ended
<1>2. /\ req[r] \in Request /\ req[r].user \in Users
      /\ req[r].kind \in {"change", "invite", "tracks", "assign"}
      /\ req[r].kind = "assign" => req[r].row \in Rows
  BY <1>1 DEF IInv, TypeOK, Sound
<1>3. was \in Roles \cup {"none"}
  BY <1>2 DEF IInv, TypeOK
<1>4. /\ AfterTarget(req[r], was) \in {"refused", "admins", "create", "untrack", "insert", "covered"}
      /\ AfterTarget(req[r], was) \in {"insert", "covered"} => req[r].kind = "assign"
  BY <1>2 DEF AfterTarget
<1>5. /\ q \in Request /\ q.pc = AfterTarget(req[r], was)
      /\ q.user = req[r].user /\ q.row = req[r].row /\ q.was = was
  BY <1>2, <1>3, <1>4, ZenonT(60) DEF Request, Labels, Ended
<1>6. Sound(q)
  BY <1>2, <1>4, <1>5 DEF Sound
<1>7. /\ Set(r, q)
      /\ role' = role /\ routed' = routed /\ work' = work /\ last' = last
  BY DEF ReadTarget, OnlyMoves, db
<1>8. q.pc # "write" /\ q.was = role[q.user]
  BY <1>4, <1>5
<1> HIDE DEF q
<1>9. Serial => NextCurrent(q) /\ AdminRemains'
  BY <1>7, <1>8 DEF NextCurrent, IInv, SerialInv, AdminRemains, Admins
<1> QED BY <1>1, <1>6, <1>7, <1>9, OthersRest, Becomes DEF IInv, TypeOK

LEMMA ReadAdminsKeeps ==
  ASSUME IInv, NEW r \in Requests, ReadAdmins(r)
  PROVE  IInv'
<1> DEFINE label == CheckRoleChange(Admins, req[r].user, req[r].was, req[r].next)
           q == [req[r] EXCEPT !.pc = label]
<1>1. req[r].pc = "admins" /\ req[r].pc \notin AtRest
  BY DEF ReadAdmins, At, AtRest, Ended
<1>2. req[r] \in Request /\ req[r].user \in Users
  BY <1>1 DEF IInv, TypeOK, Sound
<1>3. /\ label \in {"done", "refused", "write"}
      /\ label = "write" /\ req[r].was = "admin" => Admins \ {req[r].user} # {}
  BY DEF CheckRoleChange
<1>4. q \in Request /\ q.pc = label /\ q.user = req[r].user /\ q.was = req[r].was
  BY <1>2, <1>3 DEF Request, Labels, Ended
<1>5. Sound(q)
  BY <1>2, <1>3, <1>4 DEF Sound
<1>6. /\ Set(r, q)
      /\ role' = role /\ routed' = routed /\ work' = work /\ last' = last
  BY DEF ReadAdmins, Goto, OnlyMoves, db
<1>7. Serial => req[r].was = role[req[r].user]
  BY <1>1 DEF IInv, SerialInv, Current
<1> HIDE DEF q, label
<1>8. Serial => NextCurrent(q) /\ AdminRemains'
  BY <1>3, <1>4, <1>6, <1>7 DEF NextCurrent, IInv, SerialInv, AdminRemains, Admins
<1> QED BY <1>1, <1>5, <1>6, <1>8, OthersRest, Becomes DEF IInv, TypeOK

(* The one statement that takes an admin away: another one remains *)
LEMMA WriteRoleKeeps ==
  ASSUME IInv, NEW r \in Requests, WriteRole(r)
  PROVE  IInv'
<1> DEFINE u == req[r].user
           label == IF LeavesReviewing(req[r]) THEN "unroute" ELSE "done"
           q == [req[r] EXCEPT !.pc = label]
<1>1. req[r].pc = "write" /\ req[r].pc \notin AtRest
  BY DEF WriteRole, At, AtRest, Ended
<1>2. u \in Users /\ req[r].next \in Roles
  BY <1>1 DEF IInv, TypeOK, Sound, Request
<1>3. Sound(q) /\ q.pc = label
  BY <1>1, MovesTo, ZenonT(60) DEF Labels, Ended
<1>4. /\ Set(r, q) /\ role' = [role EXCEPT ![u] = req[r].next]
      /\ routed' = routed /\ work' = work /\ last' = [last EXCEPT ![u] = r]
  BY DEF WriteRole, Goto
<1> HIDE DEF q
<1>5. ASSUME Serial PROVE AdminRemains'
  <2>1. /\ req[r].was = role[u]
        /\ req[r].was = "admin" => Admins \ {u} # {}
        /\ Admins # {}
    BY <1>1, <1>5 DEF IInv, SerialInv, Current, AdminRemains
  <2>2. Admins \ {u} # {}
    BY <2>1 DEF Admins
  <2>3. Admins \ {u} \subseteq Admins'
    BY <1>4 DEF Admins, IInv, TypeOK
  <2> QED BY <2>2, <2>3 DEF AdminRemains
<1>6. NextCurrent(q)
  BY <1>3 DEF NextCurrent
<1>7. role' \in [Users -> Roles \cup {"none"}] /\ last' \in [Users -> Requests \cup {None}]
  BY <1>2, <1>4 DEF IInv, TypeOK
<1> QED BY <1>1, <1>3, <1>4, <1>5, <1>6, <1>7, OthersRest, Becomes DEF IInv, TypeOK

(* A new account takes no admin away *)
LEMMA CreateUserKeeps ==
  ASSUME IInv, NEW r \in Requests, CreateUser(r)
  PROVE  IInv'
<1> DEFINE u == req[r].user
           done == [req[r] EXCEPT !.pc = "done"]
           failed == [req[r] EXCEPT !.pc = "failed"]
<1>1. req[r].pc = "create" /\ req[r].pc \notin AtRest
  BY DEF CreateUser, At, AtRest, Ended
<1>2. u \in Users /\ req[r].next \in Roles
  BY <1>1 DEF IInv, TypeOK, Sound, Request
<1>3. /\ Sound(done) /\ done.pc = "done"
      /\ Sound(failed) /\ failed.pc = "failed"
  BY <1>1, MovesTo DEF Labels, Ended
<1>4. CASE role[u] = "none"
  <2>1. /\ Set(r, done) /\ role' = [role EXCEPT ![u] = req[r].next]
        /\ routed' = routed /\ work' = work /\ last' = [last EXCEPT ![u] = r]
    BY <1>4 DEF CreateUser, Goto
  <2> HIDE DEF done
  <2>2. role' \in [Users -> Roles \cup {"none"}] /\ last' \in [Users -> Requests \cup {None}]
    BY <1>2, <2>1 DEF IInv, TypeOK
  <2>3. Admins \subseteq Admins'
    BY <1>4, <2>1 DEF Admins, IInv, TypeOK
  <2>4. Serial => AdminRemains'
    BY <2>3 DEF IInv, SerialInv, AdminRemains
  <2>5. NextCurrent(done)
    BY <1>3 DEF NextCurrent
  <2> QED BY <1>1, <1>3, <2>1, <2>2, <2>4, <2>5, OthersRest, Becomes DEF IInv, TypeOK
<1>5. CASE role[u] # "none"
  <2>1. Set(r, failed) /\ role' = role /\ routed' = routed /\ work' = work /\ last' = last
    BY <1>5 DEF CreateUser, Goto
  <2> QED BY <1>1, <1>3, <2>1, Moves DEF IInv, TypeOK
<1> QED BY <1>4, <1>5

(* The clean-up after a reviewer *)
LEMMA CleanUpKeeps ==
  ASSUME IInv, NEW r \in Requests,
         Unroute(r) \/ ListAssignments(r) \/ ReadScores(r) \/ Unassign(r)
  PROVE  IInv'
<1>1. /\ req[r].pc \in {"unroute", "list", "scores", "unassign"} /\ req[r].pc \notin AtRest
      /\ req[r] \in Request /\ req[r].user \in Users /\ req[r].doomed \in SUBSET Rows
  BY DEF IInv, TypeOK, Sound, Request, Unroute, ListAssignments, ReadScores, Unassign,
         At, AtRest, Ended
<1>2. ASSUME NEW label \in {"list", "scores", "unassign", "done"}, NEW rows \in SUBSET Rows
      PROVE  LET q == [req[r] EXCEPT !.doomed = rows, !.pc = label]
                 g == [req[r] EXCEPT !.pc = label]
             IN Sound(q) /\ q.pc = label /\ Sound(g) /\ g.pc = label
  <2> DEFINE q == [req[r] EXCEPT !.doomed = rows, !.pc = label]
             g == [req[r] EXCEPT !.pc = label]
  <2>1. /\ q \in Request /\ q.pc = label /\ q.user = req[r].user
        /\ g \in Request /\ g.pc = label /\ g.user = req[r].user
    BY <1>1 DEF Request, Labels, Ended
  <2>2. Sound(q) /\ Sound(g)
    BY <1>1, <2>1 DEF Sound
  <2> QED BY <2>1, <2>2
<1>3. CASE Unroute(r)
  <2>1. /\ Set(r, [req[r] EXCEPT !.pc = "list"])
        /\ routed' \in [Users -> SUBSET Tracks]
        /\ role' = role /\ work' = work /\ last' = last
    BY <1>1, <1>3 DEF Unroute, Goto, IInv, TypeOK
  <2> QED BY <1>1, <1>2, <2>1, Moves DEF IInv, TypeOK
<1>4. CASE ListAssignments(r)
  <2> DEFINE mine == {a \in Rows : Holder[a] = req[r].user /\ work[a] \in {"open", "filed"}}
             label == IF mine = {} THEN "done" ELSE "scores"
  <2>1. /\ Set(r, [req[r] EXCEPT !.doomed = mine, !.pc = label])
        /\ role' = role /\ routed' = routed /\ work' = work /\ last' = last
    BY <1>4 DEF ListAssignments, OnlyMoves, db
  <2>2. mine \in SUBSET Rows /\ label \in {"done", "scores"}
    OBVIOUS
  <2> QED BY <1>1, <1>2, <2>1, <2>2, Moves DEF IInv, TypeOK
<1>5. CASE ReadScores(r)
  <2> DEFINE open == Unscored(req[r].doomed)
             label == IF open = {} THEN "done" ELSE "unassign"
  <2>1. /\ Set(r, [req[r] EXCEPT !.doomed = open, !.pc = label])
        /\ role' = role /\ routed' = routed /\ work' = work /\ last' = last
    BY <1>5 DEF ReadScores, OnlyMoves, db
  <2>2. open \in SUBSET Rows /\ label \in {"done", "unassign"}
    BY <1>1 DEF Unscored
  <2> QED BY <1>1, <1>2, <2>1, <2>2, Moves DEF IInv, TypeOK
<1>6. CASE Unassign(r)
  <2>1. PICK a \in req[r].doomed :
          /\ work' = [work EXCEPT ![a] = "deleted"]
          /\ Set(r, [req[r] EXCEPT !.doomed = @ \ {a},
                                   !.pc = IF req[r].doomed = {a} THEN "done" ELSE "unassign"])
    BY <1>6 DEF Unassign
  <2> DEFINE left == req[r].doomed \ {a}
             label == IF req[r].doomed = {a} THEN "done" ELSE "unassign"
  <2>2. /\ Set(r, [req[r] EXCEPT !.doomed = left, !.pc = label])
        /\ role' = role /\ routed' = routed /\ last' = last
        /\ work' \in [Rows -> {"unused", "open", "filed", "deleted"}]
    BY <1>1, <1>6, <2>1 DEF Unassign, IInv, TypeOK
  <2>3. left \in SUBSET Rows /\ label \in {"done", "unassign"}
    BY <1>1
  <2> QED BY <1>1, <1>2, <2>2, <2>3, Moves DEF IInv, TypeOK
<1> QED BY <1>3, <1>4, <1>5, <1>6

(* Routing, assigning and scoring *)
LEMMA WorkKeeps ==
  ASSUME IInv, NEW r \in Requests,
         Untrack(r) \/ Retrack(r) \/ ReadRouting(r) \/ InsertAssignment(r) \/ SaveScore(r)
  PROVE  IInv'
<1>1. /\ req[r].pc \in {"untrack", "retrack", "covered", "insert", "file"}
      /\ req[r].pc \notin AtRest
      /\ req[r] \in Request /\ req[r].user \in Users /\ req[r].picked \in SUBSET Tracks
      /\ req[r].pc \in {"covered", "insert", "file"} => req[r].row \in Rows
  BY DEF IInv, TypeOK, Sound, Request, Untrack, Retrack, ReadRouting, InsertAssignment,
         SaveScore, At, AtRest, Ended
<1>2. \A label \in {"retrack", "refused", "failed", "done"} :
        LET g == [req[r] EXCEPT !.pc = label] IN Sound(g) /\ g.pc = label
  BY <1>1, MovesTo DEF Labels, Ended
<1>3. last \in [Users -> Requests \cup {None}]
  BY DEF IInv, TypeOK
<1>4. CASE Untrack(r)
  <2> DEFINE label == IF req[r].picked = {} THEN "done" ELSE "retrack"
  <2>1. /\ Set(r, [req[r] EXCEPT !.pc = label]) /\ label \in {"done", "retrack"}
        /\ routed' \in [Users -> SUBSET Tracks]
        /\ last' \in [Users -> Requests \cup {None}]
        /\ role' = role /\ work' = work
    BY <1>1, <1>3, <1>4 DEF Untrack, Goto, IInv, TypeOK
  <2> QED BY <1>1, <1>2, <2>1, Moves DEF IInv, TypeOK
<1>5. CASE Retrack(r)
  <2>1. routed[req[r].user] \in SUBSET Tracks
    BY <1>1 DEF IInv, TypeOK
  <2>2. /\ Set(r, [req[r] EXCEPT !.pc = "done"])
        /\ routed' \in [Users -> SUBSET Tracks]
        /\ last' \in [Users -> Requests \cup {None}]
        /\ role' = role /\ work' = work
    BY <1>1, <1>3, <1>5, <2>1 DEF Retrack, Goto, IInv, TypeOK
  <2> QED BY <1>1, <1>2, <2>2, Moves DEF IInv, TypeOK
<1>6. CASE ReadRouting(r)
  <2>1. role' = role /\ routed' = routed /\ work' = work /\ last' = last
    BY <1>6 DEF ReadRouting, OnlyMoves, db
  <2>2. CASE routed[req[r].user] = {}
    BY <1>1, <1>2, <1>6, <2>1, <2>2, Moves DEF ReadRouting, Goto, IInv, TypeOK
  <2>3. CASE routed[req[r].user] # {}
    <3> DEFINE g == [req[r] EXCEPT !.pc = "insert"]
    <3>1. req[r].row \in Rows
      BY <1>1, <1>6 DEF ReadRouting, At
    <3>2. g \in Request /\ g.pc = "insert" /\ g.user = req[r].user /\ g.row = req[r].row
      BY <1>1 DEF Request, Labels
    <3>3. Sound(g)
      BY <1>1, <3>1, <3>2 DEF Sound
    <3>4. Set(r, g)
      BY <1>6, <2>3 DEF ReadRouting, Goto
    <3> QED BY <1>1, <2>1, <3>2, <3>3, <3>4, Moves DEF IInv, TypeOK
  <2> QED BY <2>2, <2>3
<1>7. CASE InsertAssignment(r)
  <2>1. /\ Set(r, [req[r] EXCEPT !.pc = "done"])
        /\ work' \in [Rows -> {"unused", "open", "filed", "deleted"}]
        /\ last' \in [Users -> Requests \cup {None}]
        /\ role' = role /\ routed' = routed
    BY <1>1, <1>3, <1>7 DEF InsertAssignment, Goto, IInv, TypeOK
  <2> QED BY <1>1, <1>2, <2>1, Moves DEF IInv, TypeOK
<1>8. CASE SaveScore(r)
  <2>1. /\ \/ Set(r, [req[r] EXCEPT !.pc = "done"])
           \/ Set(r, [req[r] EXCEPT !.pc = "failed"])
        /\ work' \in [Rows -> {"unused", "open", "filed", "deleted"}]
        /\ role' = role /\ routed' = routed /\ last' = last
    BY <1>1, <1>8 DEF SaveScore, Goto, IInv, TypeOK
  <2> QED BY <1>1, <1>2, <2>1, Moves DEF IInv, TypeOK
<1> QED BY <1>4, <1>5, <1>6, <1>7, <1>8

LEMMA FailKeeps ==
  ASSUME IInv, NEW r \in Requests, Fail(r)
  PROVE  IInv'
<1>1. req[r].pc \notin AtRest
  BY DEF Fail, InFlight, AtRest
<1>2. LET g == [req[r] EXCEPT !.pc = "failed"] IN Sound(g) /\ g.pc = "failed"
  BY <1>1, MovesTo DEF Labels, Ended
<1>3. /\ Set(r, [req[r] EXCEPT !.pc = "failed"])
      /\ role' = role /\ routed' = routed /\ work' = work /\ last' = last
  BY DEF Fail, Goto, OnlyMoves, db
<1> QED BY <1>1, <1>2, <1>3, Moves DEF IInv, TypeOK

(* Accounts that change without a request: nobody is under way then, and no *)
(* admin is lost                                                           *)
LEMMA AccountKeeps ==
  ASSUME IInv, NEW u \in Users, SignIn(u) \/ SignUp(u)
  PROVE  IInv'
<1>1. /\ role' \in [Users -> Roles \cup {"none"}]
      /\ last' \in [Users -> Requests \cup {None}]
      /\ routed' = routed /\ work' = work /\ req' = req
  BY DEF SignIn, SignUp, IInv, TypeOK, Roles
<1>2. TypeOK'
  BY <1>1 DEF IInv, TypeOK
<1>3. \A r \in Requests : Sound(req[r])'
  BY <1>1 DEF IInv, Sound
<1>4. Admins \subseteq Admins'
  BY DEF SignIn, SignUp, Admins, IInv, TypeOK
<1>5. SerialInv'
  <2>1. Serial => Alone' /\ AdminRemains'
    BY <1>1, <1>4 DEF IInv, SerialInv, Alone, AdminRemains
  <2>2. Serial => \A r \in Requests : req[r].pc \in AtRest
    BY DEF SignIn, SignUp, InFlight, AtRest
  <2>3. Serial => \A r \in Requests : Current(req[r])'
    BY <1>1, <2>2 DEF Current, AtRest, Ended
  <2> QED BY <2>1, <2>3 DEF SerialInv
<1> QED BY <1>2, <1>3, <1>5 DEF IInv

LEMMA InitHolds ==
  ASSUME Init
  PROVE  IInv
<1>1. TypeOK
  BY IdleSound DEF Init, TypeOK, Sound
<1>2. \A r \in Requests : req[r] = Idle
  BY DEF Init
<1>3. \A r \in Requests : Sound(req[r])
  BY <1>2, IdleSound
<1>4. SerialInv
  BY <1>2 DEF Init, SerialInv, Alone, AdminRemains, Current, Idle, AtRest
<1> QED BY <1>1, <1>3, <1>4 DEF IInv

LEMMA StepKeeps ==
  ASSUME ConstantsOK, IInv, [Next]_vars
  PROVE  IInv'
<1>1. ASSUME NEW r \in Requests, Begin(r) PROVE IInv'
  BY <1>1, BeginKeeps
<1>2. ASSUME NEW r \in Requests, Step(r) PROVE IInv'
  BY <1>2, ReadTargetKeeps, ReadAdminsKeeps, WriteRoleKeeps, CreateUserKeeps, CleanUpKeeps,
     WorkKeeps DEF Step
<1>3. ASSUME NEW r \in Requests, Fail(r) PROVE IInv'
  BY <1>3, FailKeeps
<1>4. ASSUME NEW u \in Users, SignIn(u) \/ SignUp(u) PROVE IInv'
  BY <1>4, AccountKeeps
<1>5. CASE UNCHANGED vars
  BY <1>5 DEF vars, IInv, TypeOK, Sound, SerialInv, Alone, AdminRemains, Admins, Current
<1> QED BY <1>1, <1>2, <1>3, <1>4, <1>5 DEF Next

LEMMA SpecInv == Spec => []IInv
<1>1. Init => IInv
  BY InitHolds
<1>2. IInv /\ [Next]_vars => IInv'
  BY StepKeeps, ConstantsOK
<1> QED BY <1>1, <1>2, PTL DEF Spec

(* Types hold under every interleaving of requests, sign-ins and failures. *)
THEOREM TypeCorrect == Spec => []TypeOK
<1>1. IInv => TypeOK
  BY DEF IInv
<1> QED BY <1>1, SpecInv, PTL

(* Requests run one at a time, failing anywhere, leave the instance with an *)
(* admin: the guard in checkRoleChange is enough then, and only then.      *)
THEOREM AdminAlwaysRemains ==
  ASSUME Serial
  PROVE  Spec => []AdminRemains
<1>1. IInv => AdminRemains
  BY DEF IInv, SerialInv
<1> QED BY <1>1, SpecInv, PTL
----------------------------------------------------------------------------
(* What a demotion leaves behind, for requests run one at a time           *)
Clean(u) == routed[u] = {} /\ \A a \in Rows : Holder[a] = u => work[a] # "open"
NextClean(u) == routed'[u] = {} /\ \A a \in Rows : Holder[a] = u => work'[a] # "open"
Demotes(q) == q.kind = "change" /\ q.was = "reviewer" /\ q.next # "reviewer"

(* Which kinds of requests run a statement, and whose assignment they make  *)
Routes(q) ==
  /\ q.pc \in {"untrack", "retrack"} => q.kind = "tracks"
  /\ q.pc \in {"covered", "insert"} => q.kind = "assign"
  /\ q.pc = "create" => q.kind = "invite"
  /\ q.pc = "file" => q.kind = "score"
  /\ q.pc \notin AtRest /\ q.kind = "assign" => q.user = Holder[q.row]

(* How far the clean-up of a request with the record q has come            *)
CleanedSoFar(q) ==
  /\ q.pc \in {"list", "scores", "unassign"} => routed[q.user] = {}
  /\ q.pc \in {"scores", "unassign"} =>
       \A a \in Rows : Holder[a] = q.user /\ work[a] = "open" => a \in q.doomed
  /\ q.pc = "scores" => \A a \in q.doomed : work[a] \in {"open", "filed"}
  /\ q.pc = "unassign" => \A a \in q.doomed : work[a] = "open"
NextCleanedSoFar(q) ==
  /\ q.pc \in {"list", "scores", "unassign"} => routed'[q.user] = {}
  /\ q.pc \in {"scores", "unassign"} =>
       \A a \in Rows : Holder[a] = q.user /\ work'[a] = "open" => a \in q.doomed
  /\ q.pc = "scores" => \A a \in q.doomed : work'[a] \in {"open", "filed"}
  /\ q.pc = "unassign" => \A a \in q.doomed : work'[a] = "open"

CleanInv ==
  /\ \A r \in Requests : Routes(req[r]) /\ CleanedSoFar(req[r])
  /\ \A u \in Users : last[u] # None => req[last[u]].user = u /\ req[last[u]].pc # "idle"
  /\ DemotionCleans

(* A statement of request r, whose record becomes q: it writes only about   *)
(* its own user, whom it leaves clean if it ends a demotion.               *)
LEMMA CleanMoves ==
  ASSUME IInv, CleanInv, Serial,
         NEW r \in Requests, \A o \in Requests \ {r} : req[o].pc \in AtRest,
         NEW q, Sound(q), q.pc # "idle", q.user \in Users, Set(r, q),
         q.user = req[r].user \/ req[r].pc = "idle",
         Routes(q), NextCleanedSoFar(q),
         last' = last \/ last' = [last EXCEPT ![q.user] = r],
         \A u \in Users : last'[u] # r /\ Clean(u) => NextClean(u),
         q.pc = "done" /\ Demotes(q) => NextClean(q.user)
  PROVE  CleanInv'
<1>1. /\ req' = [req EXCEPT ![r] = Resting(q)]
      /\ Sound(Resting(q)) /\ Resting(q).pc = q.pc
  BY RestingSound DEF Set
<1>2. /\ req'[r] = Resting(q)
      /\ \A o \in Requests \ {r} : req'[o] = req[o]
  BY <1>1 DEF IInv, TypeOK
<1>3. /\ q \in Request /\ Resting(q).user = q.user /\ Resting(q).kind = q.kind
      /\ Resting(q).was = q.was /\ Resting(q).next = q.next
  BY DEF Resting, Idle, Sound
<1>4. Resting(q) = q \/ Resting(q).pc \in Ended
  BY <1>1 DEF Resting
<1>5. ASSUME NEW o \in Requests PROVE Routes(req'[o]) /\ NextCleanedSoFar(req'[o])
  <2>1. CASE o # r
    BY <1>2, <2>1 DEF CleanInv, Routes, NextCleanedSoFar, AtRest, Ended
  <2>2. CASE o = r
    BY <1>2, <1>4, <2>2 DEF Routes, NextCleanedSoFar, AtRest, Ended
  <2> QED BY <2>1, <2>2
<1>6. last \in [Users -> Requests \cup {None}] /\ None \notin Requests
  BY ConstantsOK DEF IInv, TypeOK
<1>7. ASSUME NEW u \in Users, last'[u] # None
      PROVE  req'[last'[u]].user = u /\ req'[last'[u]].pc # "idle"
  <2>1. CASE last'[u] = r /\ last[u] # r
    BY <1>1, <1>2, <1>3, <1>6, <2>1
  <2>2. CASE last'[u] = last[u]
    BY <1>1, <1>2, <1>3, <1>6, <1>7, <2>2 DEF CleanInv
  <2> QED BY <1>6, <2>1, <2>2
<1>8. ASSUME NEW u \in Users, last'[u] # None, req'[last'[u]].pc = "done", Demotes(req'[last'[u]])
      PROVE  NextClean(u)
  <2>1. CASE last'[u] = r
    <3>1. q.user = u
      BY <1>2, <1>3, <1>7, <1>8, <2>1
    <3> QED BY <1>1, <1>2, <1>3, <1>8, <2>1, <3>1 DEF Demotes
  <2>2. CASE last'[u] # r
    <3>1. last'[u] = last[u] /\ last[u] \in Requests \ {r}
      BY <1>6, <1>8, <2>2
    <3>2. Clean(u)
      BY <1>2, <1>8, <3>1 DEF CleanInv, DemotionCleans, Demotes, Clean, NextClean
    <3> QED BY <3>1, <3>2
  <2> QED BY <2>1, <2>2
<1>9. DemotionCleans'
  BY <1>8 DEF DemotionCleans, Demotes, Clean, NextClean
<1> QED BY <1>5, <1>7, <1>9 DEF CleanInv, CleanedSoFar, NextCleanedSoFar

(* A statement that leaves the routing and the work alone *)
LEMMA CleanWhenUntouched ==
  ASSUME IInv, CleanInv, Serial,
         NEW r \in Requests, \A o \in Requests \ {r} : req[o].pc \in AtRest,
         NEW q, Sound(q), q.pc \notin {"idle", "list", "scores", "unassign"},
         q.user \in Users, Set(r, q),
         q.user = req[r].user \/ req[r].pc = "idle",
         Routes(q), ~(q.pc = "done" /\ Demotes(q)),
         last' = last \/ last' = [last EXCEPT ![q.user] = r],
         routed' = routed, work' = work
  PROVE  CleanInv'
<1>1. NextCleanedSoFar(q)
  BY DEF NextCleanedSoFar
<1>2. \A u \in Users : last'[u] # r /\ Clean(u) => NextClean(u)
  BY DEF Clean, NextClean
<1> QED BY <1>1, <1>2, CleanMoves

(* A request that begins knows what it is, and has read nothing *)
LEMMA BeginClean ==
  ASSUME IInv, CleanInv, Serial, NEW r \in Requests, Begin(r)
  PROVE  CleanInv'
<1>1. ASSUME NEW q, Sound(q), q.pc \in {"target", "file"}, Set(r, q), OnlyMoves,
             req[r].pc = "idle", InFlight = {}, Routes(q)
      PROVE  CleanInv'
  <2>1. q.user \in Users /\ \A o \in Requests : req[o].pc \in AtRest
    BY <1>1 DEF Sound, AtRest, Ended, InFlight
  <2> QED BY <1>1, <2>1, CleanWhenUntouched DEF OnlyMoves, db
<1>2. ASSUME NEW u \in Users, NEW next \in Roles, ChangeTeamRole(r, u, next) PROVE CleanInv'
  <2> DEFINE q == [Idle EXCEPT !.pc = "target", !.kind = "change", !.user = u, !.next = next]
  <2>1. Sound(q) /\ q.pc = "target" /\ q.kind = "change"
    BY <1>2 DEF ChangeTeamRole, Open, Sound, Idle, Request, Labels, Roles, AtRest, Ended
  <2>2. Routes(q)
    BY <2>1 DEF Routes
  <2> HIDE DEF q
  <2>3. Set(r, q) /\ OnlyMoves /\ req[r].pc = "idle" /\ InFlight = {}
    BY <1>2 DEF ChangeTeamRole, Open, At, q
  <2> QED BY <1>1, <2>1, <2>2, <2>3
<1>3. ASSUME NEW u \in Users, NEW next \in Roles, InviteTeammate(r, u, next) PROVE CleanInv'
  <2> DEFINE q == [Idle EXCEPT !.pc = "target", !.kind = "invite", !.user = u, !.next = next]
  <2>1. Sound(q) /\ q.pc = "target" /\ q.kind = "invite"
    BY <1>3 DEF InviteTeammate, Open, Sound, Idle, Request, Labels, Roles, AtRest, Ended
  <2>2. Routes(q)
    BY <2>1 DEF Routes
  <2> HIDE DEF q
  <2>3. Set(r, q) /\ OnlyMoves /\ req[r].pc = "idle" /\ InFlight = {}
    BY <1>3 DEF InviteTeammate, Open, At, q
  <2> QED BY <1>1, <2>1, <2>2, <2>3
<1>4. ASSUME NEW u \in Users, NEW picked \in SUBSET Tracks, SetReviewerTracks(r, u, picked)
      PROVE  CleanInv'
  <2> DEFINE q == [Idle EXCEPT !.pc = "target", !.kind = "tracks", !.user = u, !.picked = picked]
  <2>1. Sound(q) /\ q.pc = "target" /\ q.kind = "tracks"
    BY <1>4 DEF SetReviewerTracks, Open, Sound, Idle, Request, Labels, Roles, AtRest, Ended
  <2>2. Routes(q)
    BY <2>1 DEF Routes
  <2> HIDE DEF q
  <2>3. Set(r, q) /\ OnlyMoves /\ req[r].pc = "idle" /\ InFlight = {}
    BY <1>4 DEF SetReviewerTracks, Open, At, q
  <2> QED BY <1>1, <2>1, <2>2, <2>3
<1>5. ASSUME NEW a \in Rows, AssignSubmissions(r, a) PROVE CleanInv'
  <2> DEFINE q == [Idle EXCEPT !.pc = "target", !.kind = "assign", !.user = Holder[a], !.row = a]
  <2>1. Sound(q) /\ q.pc = "target" /\ q.kind = "assign" /\ q.user = Holder[q.row]
    BY <1>5, ConstantsOK
       DEF AssignSubmissions, Open, Sound, Idle, Request, Labels, Roles, AtRest, Ended
  <2>2. Routes(q)
    BY <2>1 DEF Routes
  <2> HIDE DEF q
  <2>3. Set(r, q) /\ OnlyMoves /\ req[r].pc = "idle" /\ InFlight = {}
    BY <1>5 DEF AssignSubmissions, Open, At, q
  <2> QED BY <1>1, <2>1, <2>2, <2>3
<1>6. ASSUME NEW a \in Rows, SubmitScorecard(r, a) PROVE CleanInv'
  <2> DEFINE q == [Idle EXCEPT !.pc = "file", !.kind = "score", !.user = Holder[a], !.row = a]
  <2>1. Sound(q) /\ q.pc = "file" /\ q.kind = "score"
    BY <1>6, ConstantsOK
       DEF SubmitScorecard, Open, Sound, Idle, Request, Labels, Roles, AtRest, Ended
  <2>2. Routes(q)
    BY <2>1 DEF Routes
  <2> HIDE DEF q
  <2>3. Set(r, q) /\ OnlyMoves /\ req[r].pc = "idle" /\ InFlight = {}
    BY <1>6 DEF SubmitScorecard, Open, At, q
  <2> QED BY <1>1, <2>1, <2>2, <2>3
<1> QED BY <1>2, <1>3, <1>4, <1>5, <1>6 DEF Begin

(* Reading the target's role, and the admins, decides where a request goes  *)
LEMMA ReadsClean ==
  ASSUME IInv, CleanInv, Serial, NEW r \in Requests, ReadTarget(r) \/ ReadAdmins(r)
  PROVE  CleanInv'
<1>1. /\ req[r].pc \in {"target", "admins"} /\ req[r].pc \notin AtRest
      /\ Sound(req[r]) /\ req[r].user \in Users /\ req[r] \in Request
      /\ Routes(req[r])
      /\ \A o \in Requests \ {r} : req[o].pc \in AtRest
      /\ role[req[r].user] \in Roles \cup {"none"}
  BY OthersRest DEF IInv, CleanInv, Sound, TypeOK, ReadTarget, ReadAdmins, At, AtRest, Ended
<1>2. CASE ReadTarget(r)
  <2> DEFINE was == role[req[r].user]
             q == [req[r] EXCEPT !.was = was, !.pc = AfterTarget(req[r], was)]
  <2>1. req[r].kind \in {"change", "invite", "tracks", "assign"} /\ req[r].pc = "target"
    BY <1>1, <1>2 DEF Sound, ReadTarget, At
  <2>2. /\ AfterTarget(req[r], was) \in {"refused", "admins", "create", "untrack", "insert", "covered"}
        /\ AfterTarget(req[r], was) = "create" => req[r].kind = "invite"
        /\ AfterTarget(req[r], was) = "untrack" => req[r].kind = "tracks"
        /\ AfterTarget(req[r], was) \in {"insert", "covered"} => req[r].kind = "assign"
    BY <2>1 DEF AfterTarget
  <2>3. /\ q \in Request /\ q.pc = AfterTarget(req[r], was) /\ q.user = req[r].user
        /\ q.kind = req[r].kind /\ q.row = req[r].row
    BY <1>1, <2>2 DEF Request, Labels, Ended
  <2>4. Sound(q)
    BY <1>1, <2>1, <2>2, <2>3 DEF Sound
  <2>5. Routes(q)
    BY <1>1, <2>2, <2>3 DEF Routes
  <2>6. Set(r, q) /\ last' = last /\ routed' = routed /\ work' = work
    BY <1>2 DEF ReadTarget, OnlyMoves, db
  <2>7. /\ q.pc \notin {"idle", "done", "list", "scores", "unassign"}
        /\ q.user \in Users /\ q.user = req[r].user
    BY <1>1, <2>2, <2>3
  <2> HIDE DEF q
  <2> QED BY <1>1, <2>4, <2>5, <2>6, <2>7, CleanWhenUntouched
<1>3. CASE ReadAdmins(r)
  <2> DEFINE label == CheckRoleChange(Admins, req[r].user, req[r].was, req[r].next)
             q == [req[r] EXCEPT !.pc = label]
  <2>1. /\ label \in {"done", "refused", "write"}
        /\ label = "done" => req[r].was = req[r].next
    BY DEF CheckRoleChange
  <2>2. /\ q \in Request /\ q.pc = label /\ q.user = req[r].user
        /\ q.kind = req[r].kind /\ q.row = req[r].row /\ q.was = req[r].was
        /\ q.next = req[r].next
    BY <1>1, <2>1 DEF Request, Labels, Ended
  <2>3. Sound(q) /\ Routes(q)
    BY <1>1, <2>1, <2>2 DEF Sound, Routes
  <2>4. Set(r, q) /\ last' = last /\ routed' = routed /\ work' = work
    BY <1>3 DEF ReadAdmins, Goto, OnlyMoves, db
  <2>5. /\ q.pc \notin {"idle", "list", "scores", "unassign"}
        /\ q.user \in Users /\ q.user = req[r].user
        /\ ~(q.pc = "done" /\ Demotes(q))
    BY <1>1, <2>1, <2>2 DEF Demotes
  <2> HIDE DEF q
  <2> QED BY <1>1, <2>3, <2>4, <2>5, CleanWhenUntouched
<1> QED BY <1>2, <1>3

(* A request under way is alone; what is known of it                       *)
LEMMA UnderWay ==
  ASSUME IInv, CleanInv, Serial, NEW r \in Requests, req[r].pc \notin AtRest
  PROVE  /\ req[r] \in Request /\ req[r].user \in Users
         /\ Routes(req[r]) /\ CleanedSoFar(req[r])
         /\ \A o \in Requests \ {r} : req[o].pc \in AtRest
BY OthersRest DEF IInv, TypeOK, Sound, CleanInv

(* The record of a request under way that goes on to another statement     *)
LEMMA GoesOn ==
  ASSUME IInv, NEW r \in Requests, req[r].pc \notin AtRest,
         NEW label \in {"unroute", "list", "retrack", "done", "refused", "failed"},
         NEW g, g = [req[r] EXCEPT !.pc = label]
  PROVE  /\ Sound(g) /\ g.pc = label /\ g.user = req[r].user /\ g.kind = req[r].kind
         /\ g.was = req[r].was /\ g.next = req[r].next /\ g.row = req[r].row
<1>1. req[r] \in Request /\ req[r].user \in Users
  BY DEF IInv, TypeOK, Sound
<1>2. /\ g \in Request /\ g.pc = label /\ g.user = req[r].user /\ g.kind = req[r].kind
      /\ g.was = req[r].was /\ g.next = req[r].next /\ g.row = req[r].row
  BY <1>1 DEF Request, Labels, Ended
<1>3. Sound(g)
  BY <1>1, <1>2 DEF Sound
<1> QED BY <1>2, <1>3

(* The role is written: a demotion still has its clean-up before it        *)
LEMMA RolesClean ==
  ASSUME IInv, CleanInv, Serial, NEW r \in Requests, WriteRole(r) \/ CreateUser(r)
  PROVE  CleanInv'
<1>1. req[r].pc \in {"write", "create"} /\ req[r].pc \notin AtRest
  BY DEF WriteRole, CreateUser, At, AtRest, Ended
<1>2. CASE WriteRole(r)
  <2> DEFINE label == IF LeavesReviewing(req[r]) THEN "unroute" ELSE "done"
             g == [req[r] EXCEPT !.pc = label]
  <2> HIDE DEF g
  <2>1. /\ Sound(g) /\ g.pc = label /\ g.user = req[r].user /\ g.kind = req[r].kind
        /\ g.was = req[r].was /\ g.next = req[r].next /\ g.row = req[r].row
        /\ g.user \in Users /\ Routes(req[r]) /\ req[r].pc = "write"
        /\ \A o \in Requests \ {r} : req[o].pc \in AtRest
    BY <1>1, <1>2, GoesOn, UnderWay DEF g, WriteRole, At
  <2>2. Routes(g) /\ ~(g.pc = "done" /\ Demotes(g))
        /\ g.pc \notin {"idle", "list", "scores", "unassign"}
    BY <1>1, <2>1 DEF Routes, Demotes, LeavesReviewing, AtRest, Ended
  <2>3. Set(r, g) /\ last' = [last EXCEPT ![g.user] = r] /\ routed' = routed /\ work' = work
    BY <1>2, <2>1 DEF WriteRole, Goto, g
  <2> QED BY <2>1, <2>2, <2>3, CleanWhenUntouched
<1>3. CASE CreateUser(r)
  <2>1. PICK label \in {"done", "failed"} :
          /\ Set(r, [req[r] EXCEPT !.pc = label]) /\ routed' = routed /\ work' = work
          /\ last' = last \/ last' = [last EXCEPT ![req[r].user] = r]
    BY <1>3 DEF CreateUser, Goto
  <2> DEFINE g == [req[r] EXCEPT !.pc = label]
  <2> HIDE DEF g
  <2>2. /\ Sound(g) /\ g.pc = label /\ g.user = req[r].user /\ g.kind = req[r].kind
        /\ g.user \in Users /\ \A o \in Requests \ {r} : req[o].pc \in AtRest
        /\ Routes(req[r]) /\ req[r].pc = "create"
    BY <1>1, <1>3, GoesOn, UnderWay DEF g, CreateUser, At
  <2>3. Routes(g) /\ ~(g.pc = "done" /\ Demotes(g))
        /\ g.pc \notin {"idle", "list", "scores", "unassign"}
    BY <2>2 DEF Routes, Demotes, AtRest, Ended
  <2>4. Set(r, g)
    BY <2>1 DEF g
  <2> QED BY <2>1, <2>2, <2>3, <2>4, CleanWhenUntouched
<1> QED BY <1>2, <1>3

(* The clean-up itself: the routing goes, the work is listed, and what has  *)
(* no scorecard is deleted                                                 *)
LEMMA CleanUpCleans ==
  ASSUME IInv, CleanInv, Serial, NEW r \in Requests,
         Unroute(r) \/ ListAssignments(r) \/ ReadScores(r) \/ Unassign(r)
  PROVE  CleanInv'
<1>1. /\ req[r].pc \in {"unroute", "list", "scores", "unassign"} /\ req[r].pc \notin AtRest
      /\ Routes(req[r]) /\ CleanedSoFar(req[r]) /\ req[r].user \in Users
      /\ req[r].doomed \in SUBSET Rows
      /\ routed \in [Users -> SUBSET Tracks]
      /\ work \in [Rows -> {"unused", "open", "filed", "deleted"}]
  BY UnderWay DEF IInv, TypeOK, Request, CleanInv, Sound, Unroute, ListAssignments, ReadScores,
     Unassign, At, AtRest, Ended
<1>2. ASSUME NEW label \in {"list", "scores", "unassign", "done"}, NEW rows \in SUBSET Rows,
             NEW q, q = [req[r] EXCEPT !.doomed = rows, !.pc = label], Set(r, q),
             last' = last, NextCleanedSoFar(q),
             \A u \in Users : Clean(u) => NextClean(u),
             label = "done" => NextClean(req[r].user)
      PROVE  CleanInv'
  <2>1. /\ Sound(q) /\ q.pc = label /\ q.user = req[r].user /\ q.kind = req[r].kind
        /\ q.row = req[r].row
        /\ \A o \in Requests \ {r} : req[o].pc \in AtRest
    <3>1. req[r] \in Request /\ \A o \in Requests \ {r} : req[o].pc \in AtRest
      BY <1>1, UnderWay
    <3>2. /\ q \in Request /\ q.pc = label /\ q.user = req[r].user /\ q.kind = req[r].kind
          /\ q.row = req[r].row
      BY <1>2, <3>1 DEF Request, Labels, Ended
    <3>3. Sound(q)
      BY <1>1, <3>2 DEF Sound
    <3> QED BY <3>1, <3>2, <3>3
  <2>2. Routes(q)
    BY <1>1, <1>2, <2>1 DEF Routes, AtRest, Ended
  <2>3. q.user \in Users /\ q.pc # "idle"
    BY <1>1, <1>2, <2>1
  <2>4. last' = last /\ (q.pc = "done" => NextClean(q.user))
    BY <1>2, <2>1
  <2> QED BY <1>2, <2>1, <2>2, <2>3, <2>4, CleanMoves
<1>3. CASE Unroute(r)
  <2> DEFINE q == [req[r] EXCEPT !.doomed = req[r].doomed, !.pc = "list"]
  <2>1. req[r] \in Request
    BY DEF IInv, TypeOK
  <2>2. q = [req[r] EXCEPT !.pc = "list"] /\ q.pc = "list" /\ q.user = req[r].user
    BY <2>1 DEF Request
  <2>3. Set(r, q) /\ last' = last /\ work' = work /\ routed' = [routed EXCEPT ![req[r].user] = {}]
    BY <1>3, <2>2 DEF Unroute, Goto
  <2>4. NextCleanedSoFar(q) /\ \A u \in Users : Clean(u) => NextClean(u)
    BY <1>1, <2>2, <2>3 DEF NextCleanedSoFar, Clean, NextClean
  <2> HIDE DEF q
  <2> QED BY <1>1, <1>2, <2>2, <2>3, <2>4 DEF q
<1>4. CASE ListAssignments(r)
  <2> DEFINE mine == {a \in Rows : Holder[a] = req[r].user /\ work[a] \in {"open", "filed"}}
             label == IF mine = {} THEN "done" ELSE "scores"
             q == [req[r] EXCEPT !.doomed = mine, !.pc = label]
  <2>1. Set(r, q) /\ last' = last /\ routed' = routed /\ work' = work /\ req[r].pc = "list"
    BY <1>4 DEF ListAssignments, OnlyMoves, db, At
  <2>2. q.pc = label /\ q.user = req[r].user /\ q.doomed = mine
    BY DEF IInv, TypeOK, Request
  <2>3. routed[req[r].user] = {}
    BY <1>1, <2>1 DEF CleanedSoFar
  <2> HIDE DEF q
  <2>4. NextCleanedSoFar(q)
    BY <2>1, <2>2, <2>3 DEF NextCleanedSoFar
  <2>6. \A u \in Users : Clean(u) => NextClean(u)
    BY <2>1 DEF Clean, NextClean
  <2>7. label = "done" => NextClean(req[r].user)
    BY <2>1, <2>3 DEF Clean, NextClean
  <2>5. label \in {"scores", "done"} /\ mine \in SUBSET Rows
    OBVIOUS
  <2> HIDE DEF label, mine
  <2> QED BY <1>2, <2>1, <2>4, <2>5, <2>6, <2>7 DEF q
<1>5. CASE ReadScores(r)
  <2> DEFINE open == Unscored(req[r].doomed)
             label == IF open = {} THEN "done" ELSE "unassign"
             q == [req[r] EXCEPT !.doomed = open, !.pc = label]
  <2>1. Set(r, q) /\ last' = last /\ routed' = routed /\ work' = work /\ req[r].pc = "scores"
    BY <1>5 DEF ReadScores, OnlyMoves, db, At
  <2>2. q.pc = label /\ q.user = req[r].user /\ q.doomed = open
    BY DEF IInv, TypeOK, Request
  <2>3. /\ routed[req[r].user] = {}
        /\ \A a \in Rows : Holder[a] = req[r].user /\ work[a] = "open" => a \in open
    BY <1>1, <2>1 DEF CleanedSoFar, Unscored
  <2>4. \A a \in open : work[a] # "filed" /\ a \in Rows
    BY <1>1 DEF Unscored
  <2>5. label \in {"unassign", "done"} /\ open \in SUBSET Rows
    BY <2>4
  <2>6. \A a \in open : work[a] = "open"
    BY <1>1, <2>1, <2>4 DEF CleanedSoFar, Unscored
  <2> HIDE DEF q
  <2>7. NextCleanedSoFar(q)
    BY <2>1, <2>2, <2>3, <2>6 DEF NextCleanedSoFar
  <2>8. \A u \in Users : Clean(u) => NextClean(u)
    BY <2>1 DEF Clean, NextClean
  <2>9. label = "done" => NextClean(req[r].user)
    BY <2>1, <2>3 DEF Clean, NextClean
  <2> HIDE DEF label, open
  <2> QED BY <1>2, <2>1, <2>5, <2>7, <2>8, <2>9 DEF q
<1>6. CASE Unassign(r)
  <2>1. PICK a \in req[r].doomed :
          /\ work' = [work EXCEPT ![a] = "deleted"]
          /\ Set(r, [req[r] EXCEPT !.doomed = @ \ {a},
                                   !.pc = IF req[r].doomed = {a} THEN "done" ELSE "unassign"])
    BY <1>6 DEF Unassign
  <2> DEFINE left == req[r].doomed \ {a}
             label == IF req[r].doomed = {a} THEN "done" ELSE "unassign"
             q == [req[r] EXCEPT !.doomed = left, !.pc = label]
  <2>2. Set(r, q) /\ last' = last /\ routed' = routed /\ req[r].pc = "unassign"
    BY <1>6, <2>1 DEF Unassign, At
  <2>3. q.pc = label /\ q.user = req[r].user /\ q.doomed = left
    BY DEF IInv, TypeOK, Request
  <2>4. /\ routed[req[r].user] = {}
        /\ \A b \in Rows : Holder[b] = req[r].user /\ work[b] = "open" => b \in req[r].doomed
        /\ \A b \in req[r].doomed : work[b] = "open"
    BY <1>1, <2>2 DEF CleanedSoFar
  <2>5. \A b \in Rows : work'[b] = IF b = a THEN "deleted" ELSE work[b]
    BY <1>1, <2>1
  <2> HIDE DEF q
  <2>6. NextCleanedSoFar(q)
    BY <1>1, <2>2, <2>3, <2>4, <2>5 DEF NextCleanedSoFar
  <2>8. \A u \in Users : Clean(u) => NextClean(u)
    BY <1>1, <2>2, <2>5 DEF Clean, NextClean
  <2>9. label = "done" => NextClean(req[r].user)
    BY <1>1, <2>2, <2>4, <2>5 DEF Clean, NextClean
  <2>7. label \in {"unassign", "done"} /\ left \in SUBSET Rows
    BY <1>1
  <2> HIDE DEF label, left
  <2> QED BY <1>2, <2>2, <2>6, <2>7, <2>8, <2>9 DEF q
<1> QED BY <1>3, <1>4, <1>5, <1>6
(* Routing, assigning and scoring belong to other requests than a demotion, *)
(* and what they add to a reviewer they have written last                  *)
LEMMA WorkCleans ==
  ASSUME IInv, CleanInv, Serial, NEW r \in Requests,
         Untrack(r) \/ Retrack(r) \/ ReadRouting(r) \/ InsertAssignment(r) \/ SaveScore(r)
  PROVE  CleanInv'
<1>1. /\ req[r].pc \in {"untrack", "retrack", "covered", "insert", "file"}
      /\ req[r].pc \notin AtRest
      /\ Routes(req[r]) /\ req[r].user \in Users /\ req[r] \in Request
      /\ Sound(req[r])
      /\ \A o \in Requests \ {r} : req[o].pc \in AtRest
      /\ routed \in [Users -> SUBSET Tracks]
      /\ work \in [Rows -> {"unused", "open", "filed", "deleted"}]
      /\ last \in [Users -> Requests \cup {None}]
  BY UnderWay DEF IInv, TypeOK, Untrack, Retrack, ReadRouting, InsertAssignment, SaveScore,
     At, AtRest, Ended
<1>2. req[r].kind \in {"tracks", "assign", "score"}
  BY <1>1 DEF Routes
<1>3. ASSUME NEW label \in {"retrack", "done", "refused", "failed"},
             NEW g, g = [req[r] EXCEPT !.pc = label], Set(r, g),
             label = "retrack" => req[r].kind = "tracks",
             last' = last \/ last' = [last EXCEPT ![req[r].user] = r],
             \A u \in Users : last'[u] # r /\ Clean(u) => NextClean(u)
      PROVE  CleanInv'
  <2>1. /\ Sound(g) /\ g.pc = label /\ g.user = req[r].user /\ g.kind = req[r].kind
        /\ g.row = req[r].row
    BY <1>1, <1>3, GoesOn
  <2>2. Routes(g) /\ NextCleanedSoFar(g)
    BY <1>1, <1>3, <2>1 DEF Routes, NextCleanedSoFar, AtRest, Ended
  <2>3. ~Demotes(g) /\ g.pc # "idle" /\ g.user \in Users
    BY <1>1, <1>2, <1>3, <2>1 DEF Demotes
  <2>4. /\ last' = last \/ last' = [last EXCEPT ![g.user] = r]
        /\ \A u \in Users : last'[u] # r /\ Clean(u) => NextClean(u)
        /\ Set(r, g)
    BY <1>3, <2>1
  <2> QED BY <1>1, <2>1, <2>2, <2>3, <2>4, CleanMoves
<1>4. CASE Untrack(r)
  <2>1. PICK label \in {"retrack", "done"} : Set(r, [req[r] EXCEPT !.pc = label])
    BY <1>4 DEF Untrack, Goto
  <2>2. /\ routed' = [routed EXCEPT ![req[r].user] = {}] /\ work' = work
        /\ last' = [last EXCEPT ![req[r].user] = r] /\ req[r].kind = "tracks"
    BY <1>1, <1>4 DEF Untrack, At, Routes
  <2>3. \A u \in Users : last'[u] # r /\ Clean(u) => NextClean(u)
    BY <1>1, <2>2 DEF Clean, NextClean
  <2> QED BY <1>3, <2>1, <2>2, <2>3
<1>5. CASE Retrack(r)
  <2>1. /\ routed' = [routed EXCEPT ![req[r].user] = @ \cup req[r].picked] /\ work' = work
        /\ last' = [last EXCEPT ![req[r].user] = r]
        /\ Set(r, [req[r] EXCEPT !.pc = "done"])
    BY <1>5 DEF Retrack, Goto
  <2>2. \A u \in Users : last'[u] # r /\ Clean(u) => NextClean(u)
    BY <1>1, <2>1 DEF Clean, NextClean
  <2> QED BY <1>3, <2>1, <2>2
<1>6. CASE ReadRouting(r)
  <2>1. last' = last /\ routed' = routed /\ work' = work
    BY <1>6 DEF ReadRouting, OnlyMoves, db
  <2>2. \A u \in Users : Clean(u) => NextClean(u)
    BY <2>1 DEF Clean, NextClean
  <2>3. CASE routed[req[r].user] = {}
    BY <1>3, <1>6, <2>1, <2>2, <2>3 DEF ReadRouting, Goto
  <2>4. CASE routed[req[r].user] # {}
    <3> DEFINE g == [req[r] EXCEPT !.pc = "insert"]
    <3>1. req[r].pc = "covered" /\ req[r].kind = "assign" /\ req[r].row \in Rows
      BY <1>1, <1>6 DEF ReadRouting, At, Routes, Sound
    <3>2. /\ g \in Request /\ g.pc = "insert" /\ g.user = req[r].user /\ g.row = req[r].row
          /\ g.kind = req[r].kind
      BY <1>1 DEF Request, Labels
    <3>3. Sound(g) /\ Routes(g)
      BY <1>1, <3>1, <3>2 DEF Sound, Routes
    <3>4. Set(r, g)
      BY <1>6, <2>4 DEF ReadRouting, Goto
    <3>5. g.pc \notin {"idle", "done", "list", "scores", "unassign"} /\ g.user \in Users
      BY <1>1, <3>2
    <3> HIDE DEF g
    <3> QED BY <1>1, <2>1, <3>2, <3>3, <3>4, <3>5, CleanWhenUntouched
  <2> QED BY <2>3, <2>4
<1>7. CASE InsertAssignment(r)
  <2>1. /\ Set(r, [req[r] EXCEPT !.pc = "done"]) /\ routed' = routed
        /\ last' = [last EXCEPT ![req[r].user] = r]
        /\ \A a \in Rows : a # req[r].row => work'[a] = work[a]
    BY <1>1, <1>7 DEF InsertAssignment, Goto
  <2>2. req[r].user = Holder[req[r].row] /\ req[r].kind = "assign"
    BY <1>1, <1>7 DEF InsertAssignment, At, Routes
  <2>3. \A u \in Users : last'[u] # r /\ Clean(u) => NextClean(u)
    BY <1>1, <2>1, <2>2 DEF Clean, NextClean
  <2> QED BY <1>3, <2>1, <2>3
<1>8. CASE SaveScore(r)
  <2>1. PICK label \in {"done", "failed"} : Set(r, [req[r] EXCEPT !.pc = label])
    BY <1>8 DEF SaveScore, Goto
  <2>2. /\ routed' = routed /\ last' = last
        /\ \A a \in Rows : work'[a] = work[a] \/ work'[a] = "filed"
    BY <1>1, <1>8 DEF SaveScore, Goto
  <2>3. \A u \in Users : Clean(u) => NextClean(u)
    BY <2>2 DEF Clean, NextClean
  <2> QED BY <1>3, <2>1, <2>2, <2>3
<1> QED BY <1>4, <1>5, <1>6, <1>7, <1>8
LEMMA FailCleans ==
  ASSUME IInv, CleanInv, Serial, NEW r \in Requests, Fail(r)
  PROVE  CleanInv'
<1> DEFINE g == [req[r] EXCEPT !.pc = "failed"]
<1>1. req[r].pc \notin AtRest
  BY DEF Fail, InFlight, AtRest
<1> HIDE DEF g
<1>2. /\ Sound(g) /\ g.pc = "failed" /\ g.user = req[r].user /\ g.user \in Users
      /\ \A o \in Requests \ {r} : req[o].pc \in AtRest
  BY <1>1, GoesOn, UnderWay DEF g
<1>3. Routes(g) /\ Set(r, g) /\ last' = last /\ routed' = routed /\ work' = work
  BY <1>2 DEF Routes, Fail, Goto, OnlyMoves, db, g, AtRest, Ended
<1> QED BY <1>2, <1>3, CleanWhenUntouched

(* Signing in overrides a demotion; signing up touches nobody's work       *)
LEMMA AccountCleans ==
  ASSUME IInv, CleanInv, NEW u \in Users, SignIn(u) \/ SignUp(u)
  PROVE  CleanInv'
<1>1. /\ routed' = routed /\ work' = work /\ req' = req
      /\ \A v \in Users : last'[v] \in {last[v], None}
  BY DEF SignIn, SignUp, IInv, TypeOK
<1>2. /\ \A r \in Requests : Routes(req'[r]) /\ NextCleanedSoFar(req'[r])
      /\ \A v \in Users : last'[v] # None => last'[v] = last[v]
  BY <1>1 DEF CleanInv, NextCleanedSoFar, CleanedSoFar
<1>3. DemotionCleans'
  BY <1>1, <1>2 DEF CleanInv, DemotionCleans
<1> QED BY <1>1, <1>2, <1>3 DEF CleanInv, NextCleanedSoFar, CleanedSoFar

LEMMA CleanInit == Init => CleanInv
<1>1. Init => (\A r \in Requests : req[r] = Idle) /\ \A u \in Users : last[u] = None
  BY DEF Init
<1>2. Routes(Idle) /\ CleanedSoFar(Idle)
  BY DEF Idle, Routes, CleanedSoFar, AtRest
<1> QED BY <1>1, <1>2 DEF CleanInv, DemotionCleans

LEMMA CleanKept ==
  ASSUME IInv, CleanInv, Serial, [Next]_vars
  PROVE  CleanInv'
<1>1. ASSUME NEW r \in Requests, Step(r) PROVE CleanInv'
  BY <1>1, ReadsClean, RolesClean, CleanUpCleans, WorkCleans DEF Step
<1>2. CASE UNCHANGED vars
  <2>1. \A r \in Requests : Routes(req'[r]) /\ NextCleanedSoFar(req'[r])
    BY <1>2 DEF vars, CleanInv, NextCleanedSoFar, CleanedSoFar
  <2>2. DemotionCleans'
    BY <1>2 DEF vars, CleanInv, DemotionCleans
  <2> QED BY <1>2, <2>1, <2>2 DEF vars, CleanInv, NextCleanedSoFar, CleanedSoFar
<1> QED BY <1>1, <1>2, BeginClean, FailCleans, AccountCleans DEF Next

LEMMA SpecClean ==
  ASSUME Serial
  PROVE  Spec => []CleanInv
<1>1. IInv /\ CleanInv /\ [Next]_vars => CleanInv'
  BY CleanKept
<1> QED BY <1>1, CleanInit, SpecInv, PTL DEF Spec

(* Requests run one at a time, failing anywhere, sign-ins in between: who a *)
(* finished request demoted from reviewing holds no track and no unfiled    *)
(* work until a later request or sign-in gives it back (changeTeamRole).    *)
THEOREM DemotionAlwaysCleans ==
  ASSUME Serial
  PROVE  Spec => []DemotionCleans
<1>1. CleanInv => DemotionCleans
  BY DEF CleanInv
<1> QED BY <1>1, SpecClean, PTL

(* A deletion finds its row without a scorecard: none was filed since the   *)
(* clean-up looked, for nobody else is under way.                          *)
LEMMA FiledStays ==
  ASSUME IInv, CleanInv, [Next]_vars
  PROVE  \A a \in Rows : work[a] = "filed" => work'[a] = "filed"
<1> SUFFICES ASSUME NEW a \in Rows, work[a] = "filed", work' # work
             PROVE  work'[a] = "filed"
  OBVIOUS
<1>1. work \in [Rows -> {"unused", "open", "filed", "deleted"}]
  BY DEF IInv, TypeOK
<1>2. PICK r \in Requests : InsertAssignment(r) \/ SaveScore(r) \/ Unassign(r)
  BY DEF Next, vars, Begin, Step, Fail, SignIn, SignUp, ChangeTeamRole, InviteTeammate,
         SetReviewerTracks, AssignSubmissions, SubmitScorecard, ReadTarget, ReadAdmins,
         WriteRole, CreateUser, Unroute, ListAssignments, ReadScores, Untrack, Retrack,
         ReadRouting, OnlyMoves, db
<1>3. CASE InsertAssignment(r) \/ SaveScore(r)
  BY <1>1, <1>3 DEF InsertAssignment, SaveScore
<1>4. CASE Unassign(r)
  <2>1. req[r].pc = "unassign"
    BY <1>4 DEF Unassign, At
  <2>2. CleanedSoFar(req[r])
    BY DEF CleanInv
  <2>3. \A b \in req[r].doomed : work[b] = "open"
    BY <2>1, <2>2 DEF CleanedSoFar
  <2> QED BY <1>1, <1>4, <2>3 DEF Unassign
<1> QED BY <1>2, <1>3, <1>4

(* Requests run one at a time never destroy a filed scorecard, whatever     *)
(* roles change and wherever a request stops (changeTeamRole).             *)
THEOREM FiledWorkAlwaysStays ==
  ASSUME Serial
  PROVE  Spec => FiledWorkStays
<1>1. IInv /\ CleanInv /\ [Next]_vars => [\A a \in Rows : work[a] = "filed" => work'[a] = "filed"]_work
  BY FiledStays
<1> QED BY <1>1, SpecInv, SpecClean, PTL DEF Spec, FiledWorkStays

----------------------------------------------------------------------------
(* The agenda board *)

(* Days, rooms and minutes are numbers; what the board opens with ends no   *)
(* sooner than it starts, and windows end with the day.                     *)
AgendaOK ==
  /\ Sessions \cup Days \cup EventDays \cup Rooms \cup {MinLength, DefaultLength} \subseteq Nat
  /\ MinutesPerDay \in Nat \ {0}
  /\ Opening \subseteq {x \in Scheduling!Placement : x.start <= x.end}
  /\ Windows \subseteq Nat \X (0..MinutesPerDay)

Lasting(x) == IF x.end > x.start THEN x.end - x.start ELSE 0

(* What a request has got at each statement, whatever became of the board:  *)
(* only a placement writes and reports, and only what it has read is fresh. *)
PlaceLabels ==
  {"idle", "check", "update", "clear", "delete", "insert", "rows", "links", "report", "answer", "offered"}
CallFits(c) ==
  /\ c = [pc |-> c.pc, kind |-> c.kind, session |-> c.session, to |-> c.to, cast |-> c.cast,
          wanted |-> c.wanted, window |-> c.window, seen |-> c.seen, placed |-> c.placed,
          fresh |-> c.fresh]
  /\ c.pc \in PlaceLabels /\ c.cast \subseteq Speakers /\ c.fresh \in BOOLEAN
  /\ c.pc # "idle" => c.session \in Sessions
  /\ c.pc \in {"check", "rows", "links", "answer"} /\ c.kind = "suggest" =>
       c.window \in Windows /\ c.wanted \in Nat
  /\ c.pc \in {"rows", "links", "answer"} /\ c.kind = "suggest" => c.wanted = c.placed
  /\ c.kind \in Scheduling!Calls
  /\ c.pc \in {"rows", "links"} => c.kind \in {"place", "suggest"}
  /\ c.pc = "answer" => c.kind = "suggest"
  /\ c.pc \in {"update", "report"} => c.kind = "place"
  /\ c.pc = "update" \/ (c.pc = "check" /\ c.kind = "place") => c.to \in Scheduling!ValidPlacements
  /\ c.pc \in {"links", "report", "answer"} => c.seen \in [Sessions -> Scheduling!Session]
  /\ c.pc \in {"idle", "check", "clear", "delete", "insert", "rows"} => ~c.fresh

(* What is fresh is so still: the board as it was read, the slot found free.*)
Free(c) ==
  /\ Scheduling!DurationMinutes(c.to) =
       c.placed - (IF c.to.start + c.placed = MinutesPerDay THEN 1 ELSE 0)
  /\ \A t \in Sessions \ {c.session} :
       Scheduling!Clashes(Scheduling!Probe(board[c.session], c.to), board[t]) = {}
Fresh(c) ==
  c.fresh => /\ c.pc \in {"links", "answer"} => c.seen = board
             /\ c.pc \in {"offered", "update"} => Free(c)

(* A placement that is going to report a conflict: it has yet to read the   *)
(* board, or has read of the two sessions what is there now.                *)
Sees(c, x) ==
  /\ c.kind = "place" /\ c.session \in x.pair
  /\ \/ c.pc = "rows"
     \/ /\ c.pc = "links"
        /\ \A s \in x.pair : [c.seen[s] EXCEPT !.speakers = board[s].speakers] = board[s]
     \/ c.pc = "report" /\ x \in Scheduling!DetectConflicts(c.seen)
Said(x) == x \in reported \/ x.pair \cap unsaid # {} \/ \E r \in Requests : Sees(call[r], x)

AgendaInv ==
  /\ board \in [Sessions -> Scheduling!Session]
  /\ call = [r \in Requests |-> call[r]]
  /\ length = [s \in Sessions |-> length[s]]
  /\ \A s \in Sessions : length[s] = Lasting(board[s])
  /\ \A r \in Requests : CallFits(call[r]) /\ Fresh(call[r])
  /\ \A x \in Scheduling!DetectConflicts(board) : Said(x)

LEMMA DetectSame ==
  ASSUME NEW b, NEW d, NEW x \in Scheduling!DetectConflicts(b), \A s \in x.pair : d[s] = b[s]
  PROVE  x \in Scheduling!DetectConflicts(d)
<1>1. PICK s \in Sessions, t \in Sessions :
        s < t /\ x.pair = {s, t} /\ x.type \in Scheduling!Clashes(b[s], b[t])
  BY DEF Scheduling!DetectConflicts
<1>2. d[s] = b[s] /\ d[t] = b[t] /\ x \in Scheduling!Conflict
  BY <1>1 DEF Scheduling!DetectConflicts
<1> QED BY <1>1, <1>2 DEF Scheduling!DetectConflicts

LEMMA PairOf == ASSUME NEW b, NEW x \in Scheduling!DetectConflicts(b) PROVE x.pair \subseteq Sessions
  BY DEF Scheduling!DetectConflicts, Scheduling!Conflict

LEMMA PutSession ==
  ASSUME NEW row \in Scheduling!Session, NEW x, x.day \in Days \cup {0}, x.room \in Rooms \cup {0},
         x.start \in Scheduling!Minutes, x.end \in Scheduling!Minutes
  PROVE  /\ Scheduling!Put(row, x) \in Scheduling!Session
         /\ Scheduling!Put(row, x).day = x.day /\ Scheduling!Put(row, x).room = x.room
         /\ Scheduling!Put(row, x).start = x.start /\ Scheduling!Put(row, x).end = x.end
         /\ Scheduling!Put(row, x).live = row.live /\ Scheduling!Put(row, x).speakers = row.speakers
  BY DEF Scheduling!Put, Scheduling!Session

LEMMA UncalledFits ==
  /\ CallFits(Scheduling!Uncalled) /\ Scheduling!Uncalled.pc = "idle" /\ ~Scheduling!Uncalled.fresh
  BY DEF Scheduling!Uncalled, CallFits, PlaceLabels, Scheduling!Calls

LEMMA AgendaInit == AgendaOK /\ Scheduling!Init => AgendaInv
<1> SUFFICES ASSUME AgendaOK, Scheduling!Init PROVE AgendaInv
  OBVIOUS
<1>1. PICK cast \in SUBSET Speakers, x \in Opening :
        /\ board = [s \in Sessions |->
             IF s = 1 THEN Scheduling!Put([Scheduling!Unplaced EXCEPT !.speakers = cast], x)
             ELSE [Scheduling!Unplaced EXCEPT !.speakers = cast]]
        /\ length = [s \in Sessions |-> IF s = 1 THEN x.end - x.start ELSE 0]
  BY DEF Scheduling!Init
<1>2. x \in Scheduling!Placement /\ x.start <= x.end /\ MinutesPerDay \in Nat \ {0}
  BY DEF AgendaOK
<1>3. x.day \in Days \cup {0} /\ x.room \in Rooms \cup {0} /\ x.start \in Nat /\ x.end \in Nat
      /\ x.start \in Scheduling!Minutes /\ x.end \in Scheduling!Minutes /\ 0 \in Scheduling!Minutes
  BY <1>2 DEF Scheduling!Placement, Scheduling!Minutes
<1>4. PICK u : u = [Scheduling!Unplaced EXCEPT !.speakers = cast]
  OBVIOUS
<1>5. PICK p : p = Scheduling!Put(u, x)
  OBVIOUS
<1>6. board = [s \in Sessions |-> IF s = 1 THEN p ELSE u]
  BY <1>1, <1>4, <1>5
<1>7. /\ u \in Scheduling!Session /\ u.day = 0 /\ u.start = 0 /\ u.end = 0
      /\ p \in Scheduling!Session /\ p.start = x.start /\ p.end = x.end
  <2>1. PICK z : z = Scheduling!Unplaced
    OBVIOUS
  <2>2. z \in Scheduling!Session /\ z.day = 0 /\ z.start = 0 /\ z.end = 0
    BY <1>3, <2>1 DEF Scheduling!Unplaced, Scheduling!Session
  <2>3. u \in Scheduling!Session /\ u.day = 0 /\ u.start = 0 /\ u.end = 0
    BY <1>4, <2>1, <2>2 DEF Scheduling!Session
  <2> QED BY <1>3, <1>5, <2>3, PutSession
<1>8. board \in [Sessions -> Scheduling!Session]
  BY <1>6, <1>7
<1>9. \A s \in Sessions : length[s] = Lasting(board[s])
  <2> TAKE s \in Sessions
  <2>1. CASE s = 1
    <3>1. length[s] = x.end - x.start /\ board[s].end = x.end /\ board[s].start = x.start
      BY <1>1, <1>6, <1>7, <2>1
    <3> QED BY <1>2, <1>3, <3>1 DEF Lasting
  <2>2. CASE s # 1
    <3>1. length[s] = 0 /\ board[s].end = 0 /\ board[s].start = 0
      BY <1>1, <1>6, <1>7, <2>2
    <3> QED BY <3>1 DEF Lasting
  <2> QED BY <2>1, <2>2
<1>10. \A r \in Requests : CallFits(call[r]) /\ Fresh(call[r])
  BY UncalledFits DEF Scheduling!Init, Fresh
<1>11. ASSUME NEW c \in Scheduling!DetectConflicts(board) PROVE FALSE
  <2>1. PICK s \in Sessions, t \in Sessions : s < t /\ c.type \in Scheduling!Clashes(board[s], board[t])
    BY DEF Scheduling!DetectConflicts
  <2>2. Scheduling!Meets(board[s], board[t])
    BY <2>1 DEF Scheduling!Clashes
  <2>3. board[s].day # 0 /\ board[t].day # 0
    BY <2>2 DEF Scheduling!Meets, Scheduling!IsPlaced
  <2>4. s \in Nat /\ t \in Nat
    BY DEF AgendaOK
  <2>5. s = 1 /\ t = 1
    BY <1>6, <1>7, <2>3
  <2> QED BY <2>1, <2>4, <2>5
<1>12. call = [r \in Requests |-> call[r]] /\ length = [s \in Sessions |-> length[s]]
  BY <1>1 DEF Scheduling!Init
<1> QED BY <1>8, <1>9, <1>10, <1>11, <1>12 DEF AgendaInv

(* A request goes on, and the board stays.                                  *)
LEMMA CallMoves ==
  ASSUME AgendaInv, NEW r \in Requests, NEW c, call' = [call EXCEPT ![r] = c],
         UNCHANGED <<board, length>>, reported \subseteq reported', unsaid \subseteq unsaid',
         CallFits(c), Fresh(c),
         \A x \in Scheduling!DetectConflicts(board) :
           Sees(call[r], x) => Sees(c, x) \/ x \in reported' \/ x.pair \cap unsaid' # {}
  PROVE  AgendaInv'
<1>1. /\ call' = [k \in Requests |-> call'[k]] /\ call'[r] = c
      /\ \A k \in Requests \ {r} : call'[k] = call[k]
  BY DEF AgendaInv
<1>2. \A k \in Requests : CallFits(call'[k]) /\ Fresh(call'[k])
  BY <1>1 DEF AgendaInv
<1>3. \A k \in Requests : CallFits(call[k])' /\ Fresh(call[k])'
  <2>1. \A k \in Requests : CallFits(call[k])'
    BY <1>2 DEF CallFits
  <2>2. \A k \in Requests : Fresh(call[k])'
    BY <1>2 DEF Fresh, Free
  <2> QED BY <2>1, <2>2
<1>4. ASSUME NEW x \in Scheduling!DetectConflicts(board) PROVE Said(x)'
  <2>1. CASE x \in reported
    BY <2>1 DEF Said
  <2>2. CASE x.pair \cap unsaid # {}
    BY <2>2 DEF Said
  <2>3. ASSUME NEW k \in Requests, Sees(call[k], x) PROVE Said(x)'
    <3>1. Sees(call'[k], x) \/ x \in reported' \/ x.pair \cap unsaid' # {}
      BY <1>1, <2>3
    <3>2. Sees(call'[k], x) => Sees(call[k], x)'
      BY DEF Sees
    <3> QED BY <3>1, <3>2 DEF Said
  <2> QED BY <2>1, <2>2, <2>3 DEF AgendaInv, Said
<1>5. \A x \in Scheduling!DetectConflicts(board)' : Said(x)'
  BY <1>4 DEF Scheduling!DetectConflicts
<1> QED BY <1>1, <1>3, <1>5 DEF AgendaInv

(* A session's row changes: whoever has read it has read what was.          *)
LEMMA RowMoves ==
  ASSUME AgendaInv, NEW s \in Sessions, NEW row \in Scheduling!Session,
         board' = [board EXCEPT ![s] = row],
         call' = [k \in Requests |-> call'[k]],
         \A k \in Requests :
           \/ call'[k] = [call[k] EXCEPT !.fresh = FALSE]
           \/ call[k].pc \notin {"rows", "links", "report"} /\ CallFits(call'[k]) /\ ~call'[k].fresh,
         length' = [t \in Sessions |-> length'[t]], length'[s] = Lasting(row),
         \A t \in Sessions \ {s} : length'[t] = length[t],
         {x \in reported : s \notin x.pair} \subseteq reported', unsaid \ {s} \subseteq unsaid',
         \/ s \in unsaid' \/ row.day = 0 \/ ~row.live
         \/ \E k \in Requests : call'[k].kind = "place" /\ call'[k].session = s /\ call'[k].pc = "rows"
  PROVE  AgendaInv'
<1>1. /\ board' \in [Sessions -> Scheduling!Session] /\ board'[s] = row
      /\ \A t \in Sessions \ {s} : board'[t] = board[t]
  BY DEF AgendaInv
<1>2. ASSUME NEW k \in Requests PROVE CallFits(call'[k]) /\ ~call'[k].fresh
  <2>1. CASE call'[k] = [call[k] EXCEPT !.fresh = FALSE]
    <3>1. CallFits(call[k])
      BY DEF AgendaInv
    <3>2. PICK c : c = call[k]
      OBVIOUS
    <3>3. PICK q : q = [c EXCEPT !.fresh = FALSE]
      OBVIOUS
    <3>4. q.fresh = FALSE /\ CallFits(q)
      BY <3>1, <3>2, <3>3 DEF CallFits
    <3> QED BY <2>1, <3>2, <3>3, <3>4
  <2> QED BY <2>1
<1>3. \A k \in Requests : CallFits(call[k])' /\ Fresh(call[k])'
  BY <1>2 DEF CallFits, Fresh
<1>4. \A t \in Sessions : length'[t] = Lasting(board[t])'
  BY <1>1 DEF AgendaInv, Lasting
<1>5. ASSUME NEW x \in Scheduling!DetectConflicts(board') PROVE Said(x)'
  <2>1. CASE s \notin x.pair
    <3>1. x.pair \subseteq Sessions
      BY PairOf
    <3>2. x \in Scheduling!DetectConflicts(board)
      <4>1. \A t \in x.pair : board[t] = board'[t]
        BY <1>1, <2>1, <3>1
      <4> QED BY <4>1, DetectSame, ZenonT(60)
    <3>3. CASE x \in reported
      BY <2>1, <3>3 DEF Said
    <3>4. CASE x.pair \cap unsaid # {}
      BY <2>1, <3>4 DEF Said
    <3>5. ASSUME NEW k \in Requests, Sees(call[k], x) PROVE Sees(call'[k], x)
                                                           /\ \A t \in x.pair : board'[t] = board[t]
      <4>1. call'[k] = [call[k] EXCEPT !.fresh = FALSE]
        BY <3>5 DEF Sees
      <4>2. CallFits(call[k])
        BY DEF AgendaInv
      <4>3. /\ call'[k].kind = call[k].kind /\ call'[k].session = call[k].session
            /\ call'[k].pc = call[k].pc /\ call'[k].seen = call[k].seen
        BY <4>1, <4>2 DEF CallFits
      <4> QED BY <1>1, <2>1, <3>1, <3>5, <4>3 DEF Sees
    <3>6. ASSUME NEW k \in Requests, Sees(call[k], x) PROVE Said(x)'
      <4>1. Sees(call'[k], x) /\ \A t \in x.pair : board'[t] = board[t]
        BY <3>5, <3>6
      <4>2. Sees(call[k], x)'
        BY <4>1 DEF Sees
      <4> QED BY <4>2 DEF Said
    <3>7. Said(x)
      BY <3>2 DEF AgendaInv
    <3> QED BY <3>3, <3>4, <3>6, <3>7 DEF Said
  <2>2. CASE s \in x.pair
    <3>1. PICK a \in Sessions, b \in Sessions :
            x.pair = {a, b} /\ x.type \in Scheduling!Clashes(board'[a], board'[b])
      BY DEF Scheduling!DetectConflicts
    <3>2. row.day # 0 /\ row.live
      BY <1>1, <2>2, <3>1 DEF Scheduling!Clashes, Scheduling!Meets, Scheduling!IsPlaced
    <3>3. CASE s \in unsaid'
      BY <2>2, <3>3 DEF Said
    <3>4. CASE s \notin unsaid'
      <4>1. PICK k \in Requests : call'[k].kind = "place" /\ call'[k].session = s /\ call'[k].pc = "rows"
        BY <3>2, <3>4
      <4>2. Sees(call[k], x)'
        BY <2>2, <4>1 DEF Sees
      <4> QED BY <4>2 DEF Said
    <3> QED BY <3>3, <3>4
  <2> QED BY <2>1, <2>2
<1>6. \A x \in Scheduling!DetectConflicts(board)' : Said(x)'
  BY <1>5 DEF Scheduling!DetectConflicts
<1> QED BY <1>1, <1>3, <1>4, <1>6 DEF AgendaInv

(* A request that ends has said what it saw, or somebody else is to.        *)
LEMMA CallEnds ==
  ASSUME AgendaInv, NEW r \in Requests, Scheduling!Hang(r), UNCHANGED <<board, length>>,
         reported \subseteq reported', unsaid \subseteq unsaid',
         \A x \in Scheduling!DetectConflicts(board) :
           Sees(call[r], x) => x \in reported' \/ x.pair \cap unsaid' # {}
  PROVE  AgendaInv'
<1>1. PICK c : c = Scheduling!Uncalled
  OBVIOUS
<1>2. CallFits(c) /\ Fresh(c)
  BY <1>1, UncalledFits DEF Fresh
<1>3. call' = [call EXCEPT ![r] = c]
  BY <1>1 DEF Scheduling!Hang, Scheduling!Set
<1> QED BY <1>2, <1>3, CallMoves

(* It goes on to a statement before its reading of the board.               *)
LEMMA CallGoes ==
  ASSUME AgendaInv, NEW r \in Requests, NEW c, Scheduling!Set(r, c),
         UNCHANGED <<board, length, reported, unsaid>>,
         call[r].pc \notin {"rows", "links", "report"}, CallFits(c), Fresh(c)
  PROVE  AgendaInv'
<1>1. \A x \in Scheduling!DetectConflicts(board) : ~Sees(call[r], x)
  BY DEF Sees
<1> QED BY <1>1, CallMoves DEF Scheduling!Set

LEMMA CallsBegin ==
  ASSUME AgendaOK, AgendaInv, NEW r \in Requests, NEW s \in Sessions,
         \/ \E x \in Scheduling!Dragged : Scheduling!PlaceSession(r, s, x)
         \/ Scheduling!UnscheduleSession(r, s)
         \/ \E cast \in SUBSET Speakers : Scheduling!UpdateSessionSpeakers(r, s, cast)
         \/ \E n \in {0, MinLength}, w \in Windows : Scheduling!SuggestSessionSlot(r, s, n, w)
  PROVE  AgendaInv'
<1>1. ASSUME NEW c, Scheduling!Begin(r, c), CallFits(c), c.fresh = FALSE PROVE AgendaInv'
  <2>1. call[r].pc = "idle" /\ Scheduling!Set(r, c) /\ UNCHANGED <<board, length, reported, unsaid>>
    BY <1>1 DEF Scheduling!Begin, Scheduling!At
  <2>2. Fresh(c)
    BY <1>1 DEF Fresh
  <2> QED BY <1>1, <2>1, <2>2, CallGoes
<1>2. ASSUME NEW x \in Scheduling!Dragged, Scheduling!PlaceSession(r, s, x) PROVE AgendaInv'
  <2>1. PICK c : c = [Scheduling!Ask("place", s) EXCEPT !.to = x]
    OBVIOUS
  <2>2. x \in Scheduling!ValidPlacements
    BY DEF Scheduling!Dragged
  <2>3. CallFits(c) /\ c.fresh = FALSE
    BY <2>1, <2>2 DEF Scheduling!Ask, Scheduling!Uncalled, CallFits, PlaceLabels, Scheduling!Calls
  <2> QED BY <1>1, <1>2, <2>1, <2>3 DEF Scheduling!PlaceSession
<1>3. ASSUME Scheduling!UnscheduleSession(r, s) PROVE AgendaInv'
  <2>1. PICK c : c = Scheduling!Ask("unschedule", s)
    OBVIOUS
  <2>2. CallFits(c) /\ c.fresh = FALSE
    BY <2>1 DEF Scheduling!Ask, Scheduling!Uncalled, CallFits, PlaceLabels, Scheduling!Calls
  <2> QED BY <1>1, <1>3, <2>1, <2>2 DEF Scheduling!UnscheduleSession
<1>4. ASSUME NEW cast \in SUBSET Speakers, Scheduling!UpdateSessionSpeakers(r, s, cast) PROVE AgendaInv'
  <2>1. PICK c : c = [Scheduling!Ask("recast", s) EXCEPT !.cast = cast]
    OBVIOUS
  <2>2. CallFits(c) /\ c.fresh = FALSE
    BY <2>1 DEF Scheduling!Ask, Scheduling!Uncalled, CallFits, PlaceLabels, Scheduling!Calls
  <2> QED BY <1>1, <1>4, <2>1, <2>2 DEF Scheduling!UpdateSessionSpeakers
<1>5. ASSUME NEW n \in {0, MinLength}, NEW w \in Windows, Scheduling!SuggestSessionSlot(r, s, n, w)
      PROVE  AgendaInv'
  <2>1. PICK c : c = [Scheduling!Ask("suggest", s) EXCEPT !.wanted = n, !.window = w]
    OBVIOUS
  <2>2. n \in Nat
    BY DEF AgendaOK
  <2>3. CallFits(c) /\ c.fresh = FALSE
    BY <2>1, <2>2 DEF Scheduling!Ask, Scheduling!Uncalled, CallFits, PlaceLabels, Scheduling!Calls
  <2> QED BY <1>1, <1>5, <2>1, <2>3 DEF Scheduling!SuggestSessionSlot
<1> QED BY <1>2, <1>3, <1>4, <1>5

LEMMA Fits ==
  ASSUME AgendaInv, NEW r \in Requests
  PROVE  CallFits(call[r]) /\ Fresh(call[r])
  BY DEF AgendaInv

(* The first read.                                                          *)
LEMMA CheckKeeps == ASSUME AgendaOK, AgendaInv, NEW r \in Requests, Scheduling!Check(r) PROVE AgendaInv'
<1>0. PICK c : c = call[r]
  OBVIOUS
<1>1. PICK l : l = CASE c.kind = "place" -> "update" [] c.kind = "unschedule" -> "clear"
                     [] c.kind = "recast" -> "delete" [] OTHER -> "rows"
  OBVIOUS
<1>2. PICK w : w = IF c.kind = "suggest" /\ c.wanted = 0
                   THEN Scheduling!PreferredDuration(board[c.session]) ELSE c.wanted
  OBVIOUS
<1>3. PICK p : p = IF c.kind # "suggest" THEN 0
                   ELSE IF c.wanted # 0 THEN c.wanted
                   ELSE IF length[c.session] # 0 THEN length[c.session] ELSE DefaultLength
  OBVIOUS
<1>4. /\ c.pc = "check" /\ CallFits(c) /\ UNCHANGED <<board, length, reported, unsaid>>
      /\ Scheduling!Set(r, [c EXCEPT !.pc = l, !.wanted = w, !.placed = p])
  BY <1>0, <1>1, <1>2, <1>3, Fits DEF Scheduling!Check, Scheduling!At, Scheduling!history
<1>5. c.kind = "suggest" => w = p /\ w \in Nat
  <2> HAVE c.kind = "suggest"
  <2>1. c.session \in Sessions /\ c.wanted \in Nat
    BY <1>4 DEF CallFits
  <2>2. length[c.session] = Lasting(board[c.session]) /\ board[c.session] \in Scheduling!Session
    BY <2>1 DEF AgendaInv
  <2>3. board[c.session].start \in Nat /\ board[c.session].end \in Nat /\ DefaultLength \in Nat
    BY <2>2 DEF Scheduling!Session, Scheduling!Minutes, AgendaOK
  <2> QED BY <1>2, <1>3, <2>1, <2>2, <2>3 DEF Lasting, Scheduling!PreferredDuration, Scheduling!DurationMinutes
<1>6. /\ l \in {"update", "clear", "delete", "rows"} /\ (l = "update" => c.kind = "place")
      /\ l = "rows" => c.kind = "suggest"
  BY <1>1, <1>4 DEF CallFits, Scheduling!Calls
<1>7. PICK q : q = [c EXCEPT !.pc = l, !.wanted = w, !.placed = p]
  OBVIOUS
<1>8. CallFits(q) /\ q.fresh = FALSE
  BY <1>4, <1>5, <1>6, <1>7 DEF CallFits, PlaceLabels
<1>9. Fresh(q)
  BY <1>8 DEF Fresh
<1> QED BY <1>0, <1>4, <1>7, <1>8, <1>9, CallGoes

LEMMA RowsAreSeen == ASSUME AgendaInv, NEW r \in Requests, Scheduling!ReadRows(r) PROVE AgendaInv'
<1>0. PICK c : c = call[r]
  OBVIOUS
<1>1. PICK q : q = [c EXCEPT !.pc = "links", !.seen = board, !.fresh = TRUE]
  OBVIOUS
<1>2. /\ c.pc = "rows" /\ CallFits(c) /\ UNCHANGED <<board, length, reported, unsaid>>
      /\ call' = [call EXCEPT ![r] = q] /\ board \in [Sessions -> Scheduling!Session]
  BY <1>0, <1>1, Fits DEF Scheduling!ReadRows, Scheduling!At, Scheduling!Set, Scheduling!history, AgendaInv
<1>3. CallFits(q) /\ q.pc = "links" /\ q.seen = board /\ q.kind = c.kind /\ q.session = c.session
  BY <1>1, <1>2 DEF CallFits, PlaceLabels
<1>4. Fresh(q)
  BY <1>3 DEF Fresh
<1>5. ASSUME NEW x \in Scheduling!DetectConflicts(board), Sees(c, x) PROVE Sees(q, x)
  <2>1. \A s \in x.pair : [board[s] EXCEPT !.speakers = board[s].speakers] = board[s]
    BY <1>2, PairOf DEF Scheduling!Session
  <2> QED BY <1>3, <1>5, <2>1 DEF Sees
<1> QED BY <1>0, <1>2, <1>3, <1>4, <1>5, CallMoves

LEMMA SpeakersAreSeen == ASSUME AgendaInv, NEW r \in Requests, Scheduling!ReadLinks(r) PROVE AgendaInv'
<1>0. PICK c : c = call[r]
  OBVIOUS
<1>1. PICK l : l = IF c.kind = "place" THEN "report" ELSE "answer"
  OBVIOUS
<1>2. PICK b : b = [s \in Sessions |-> [c.seen[s] EXCEPT !.speakers = board[s].speakers]]
  OBVIOUS
<1>3. PICK q : q = [c EXCEPT !.pc = l, !.seen = b]
  OBVIOUS
<1>4. /\ c.pc = "links" /\ CallFits(c) /\ Fresh(c) /\ UNCHANGED <<board, length, reported, unsaid>>
      /\ call' = [call EXCEPT ![r] = q] /\ board \in [Sessions -> Scheduling!Session]
  BY <1>0, <1>1, <1>2, <1>3, Fits
     DEF Scheduling!ReadLinks, Scheduling!At, Scheduling!Set, Scheduling!history, AgendaInv
<1>5. c.seen \in [Sessions -> Scheduling!Session]
  BY <1>4 DEF CallFits
<1>6. b \in [Sessions -> Scheduling!Session]
  <2>1. ASSUME NEW s \in Sessions PROVE [c.seen[s] EXCEPT !.speakers = board[s].speakers] \in Scheduling!Session
    <3>1. c.seen[s] \in Scheduling!Session /\ board[s] \in Scheduling!Session
      BY <1>4, <1>5
    <3> QED BY <3>1 DEF Scheduling!Session
  <2> QED BY <1>2, <2>1
<1>7. /\ CallFits(q) /\ q.pc = l /\ q.seen = b /\ q.kind = c.kind /\ q.session = c.session /\ q.fresh = c.fresh
  BY <1>1, <1>3, <1>4, <1>6 DEF CallFits, PlaceLabels
<1>8. Fresh(q)
  <2>1. ASSUME c.fresh PROVE b = board
    <3>1. c.seen = board
      BY <1>4, <2>1 DEF Fresh
    <3>2. \A s \in Sessions : [board[s] EXCEPT !.speakers = board[s].speakers] = board[s]
      BY <1>4 DEF Scheduling!Session
    <3> QED BY <1>2, <1>4, <3>1, <3>2
  <2> QED BY <1>1, <1>7, <2>1 DEF Fresh
<1>9. ASSUME NEW x \in Scheduling!DetectConflicts(board), Sees(c, x) PROVE Sees(q, x)
  <2>1. \A s \in x.pair : b[s] = board[s]
    BY <1>2, <1>4, <1>9, PairOf DEF Sees
  <2>2. x \in Scheduling!DetectConflicts(b)
    BY <2>1, DetectSame
  <2> QED BY <1>1, <1>7, <1>9, <2>2 DEF Sees
<1> QED BY <1>0, <1>4, <1>7, <1>8, <1>9, CallMoves

LEMMA ReportKeeps == ASSUME AgendaInv, NEW r \in Requests, Scheduling!Report(r) PROVE AgendaInv'
<1>1. /\ call[r].pc = "report" /\ Scheduling!Hang(r) /\ UNCHANGED <<board, unsaid, length>>
      /\ reported' = reported \cup Scheduling!Involving(call[r].session, Scheduling!DetectConflicts(call[r].seen))
  BY DEF Scheduling!Report, Scheduling!At
<1>2. ASSUME NEW x \in Scheduling!DetectConflicts(board), Sees(call[r], x) PROVE x \in reported'
  BY <1>1, <1>2 DEF Sees, Scheduling!Involving
<1> QED BY <1>1, <1>2, CallEnds

(* Rows of the board change.                                                *)
LEMMA Changed ==
  ASSUME AgendaInv, NEW r \in Requests, NEW s \in Sessions, NEW row, NEW c,
         Scheduling!Change(r, s, row, c), CallFits(c), ~c.fresh,
         call[r].pc \notin {"rows", "links", "report"}
  PROVE  /\ board' = [board EXCEPT ![s] = row]
         /\ call' = [k \in Requests |-> call'[k]] /\ call'[r] = c
         /\ \A k \in Requests :
              \/ call'[k] = [call[k] EXCEPT !.fresh = FALSE]
              \/ call[k].pc \notin {"rows", "links", "report"} /\ CallFits(call'[k]) /\ ~call'[k].fresh
<1>1. /\ board' = [board EXCEPT ![s] = row]
      /\ call' = [k \in Requests |-> IF k = r THEN c ELSE [call[k] EXCEPT !.fresh = FALSE]]
  BY DEF Scheduling!Change
<1>2. call'[r] = c /\ \A k \in Requests \ {r} : call'[k] = [call[k] EXCEPT !.fresh = FALSE]
  BY <1>1
<1> QED BY <1>1, <1>2

LEMMA LengthsStay ==
  ASSUME AgendaInv, UNCHANGED length
  PROVE  /\ length' = [t \in Sessions |-> length'[t]]
         /\ \A t \in Sessions : length'[t] = length[t]
  BY DEF AgendaInv

LEMMA PlacedRow ==
  ASSUME AgendaOK, NEW x \in Scheduling!ValidPlacements
  PROVE  /\ x.day \in Days /\ x.room \in Rooms \cup {0} /\ x.day # 0
         /\ x.start \in Scheduling!Minutes /\ x.end \in Scheduling!Minutes
         /\ x.start \in Nat /\ x.end \in Nat /\ x.end > x.start
<1>1. x \in Scheduling!Placement /\ x.day # 0 /\ x.end > x.start
  BY DEF Scheduling!ValidPlacements
<1> QED BY <1>1 DEF Scheduling!Placement, Scheduling!Minutes

LEMMA UpdateKeeps == ASSUME AgendaOK, AgendaInv, NEW r \in Requests, Scheduling!Update(r) PROVE AgendaInv'
<1>0. PICK c : c = call[r]
  OBVIOUS
<1>1. PICK s : s = c.session
  OBVIOUS
<1>2. PICK row : row = Scheduling!Put(board[s], c.to)
  OBVIOUS
<1>3. PICK q : q = [c EXCEPT !.pc = "rows", !.fresh = FALSE]
  OBVIOUS
<1>4. /\ c.pc = "update" /\ CallFits(c) /\ Scheduling!Change(r, s, row, q)
      /\ reported' = {x \in reported : s \notin x.pair} /\ unsaid' = unsaid \ {s}
      /\ length' = [length EXCEPT ![s] = Scheduling!DurationMinutes(c.to)]
  BY <1>0, <1>1, <1>2, <1>3, Fits DEF Scheduling!Update, Scheduling!At
<1>5. s \in Sessions /\ c.kind = "place" /\ c.to \in Scheduling!ValidPlacements
  BY <1>1, <1>4 DEF CallFits
<1>6. row \in Scheduling!Session /\ row.start = c.to.start /\ row.end = c.to.end
  <2>1. board[s] \in Scheduling!Session
    BY <1>5 DEF AgendaInv
  <2> QED BY <1>2, <1>5, <2>1, PlacedRow, PutSession
<1>7. CallFits(q) /\ q.pc = "rows" /\ q.kind = "place" /\ q.session = s /\ ~q.fresh
  BY <1>1, <1>3, <1>4, <1>5 DEF CallFits, PlaceLabels
<1>8. /\ length' = [t \in Sessions |-> length'[t]] /\ length'[s] = Lasting(row)
      /\ \A t \in Sessions \ {s} : length'[t] = length[t]
  <2>1. length = [t \in Sessions |-> length[t]]
    BY DEF AgendaInv
  <2>2. Scheduling!DurationMinutes(c.to) = Lasting(row)
    BY <1>5, <1>6, PlacedRow DEF Lasting, Scheduling!DurationMinutes
  <2> QED BY <1>4, <1>5, <2>1, <2>2
<1>9. /\ board' = [board EXCEPT ![s] = row]
      /\ call' = [k \in Requests |-> call'[k]] /\ call'[r] = q
      /\ \A k \in Requests :
           \/ call'[k] = [call[k] EXCEPT !.fresh = FALSE]
           \/ call[k].pc \notin {"rows", "links", "report"} /\ CallFits(call'[k]) /\ ~call'[k].fresh
  BY <1>0, <1>4, <1>5, <1>7, Changed
<1>10. /\ {x \in reported : s \notin x.pair} \subseteq reported' /\ unsaid \ {s} \subseteq unsaid'
       /\ \E k \in Requests : call'[k].kind = "place" /\ call'[k].session = s /\ call'[k].pc = "rows"
  BY <1>4, <1>7, <1>9
<1> QED BY <1>5, <1>6, <1>8, <1>9, <1>10, RowMoves

(* What keeps a session's times, and of it others will hear or need not.    *)
LEMMA RowTurns ==
  ASSUME AgendaInv, NEW s \in Sessions, NEW row \in Scheduling!Session,
         row.start = board[s].start, row.end = board[s].end,
         board' = [board EXCEPT ![s] = row],
         call' = [k \in Requests |-> call'[k]],
         \A k \in Requests :
           \/ call'[k] = [call[k] EXCEPT !.fresh = FALSE]
           \/ call[k].pc \notin {"rows", "links", "report"} /\ CallFits(call'[k]) /\ ~call'[k].fresh,
         UNCHANGED <<length, reported>>, unsaid \subseteq unsaid',
         s \in unsaid' \/ row.day = 0
  PROVE  AgendaInv'
<1>1. length'[s] = Lasting(row)
  BY DEF AgendaInv, Lasting
<1>2. {x \in reported : s \notin x.pair} \subseteq reported' /\ unsaid \ {s} \subseteq unsaid'
  OBVIOUS
<1> QED BY <1>1, <1>2, LengthsStay, RowMoves

LEMMA ClearKeeps == ASSUME AgendaInv, NEW r \in Requests, Scheduling!Clear(r) PROVE AgendaInv'
<1>0. PICK c : c = call[r]
  OBVIOUS
<1>1. PICK s : s = c.session
  OBVIOUS
<1>2. PICK row : row = Scheduling!OffTheBoard(board[s])
  OBVIOUS
<1>3. PICK q : q = Scheduling!Uncalled
  OBVIOUS
<1>4. /\ c.pc = "clear" /\ CallFits(c) /\ Scheduling!Change(r, s, row, q)
      /\ UNCHANGED <<length, reported, unsaid>>
  BY <1>0, <1>1, <1>2, <1>3, Fits DEF Scheduling!Clear, Scheduling!At, Scheduling!history
<1>5. s \in Sessions
  BY <1>1, <1>4 DEF CallFits
<1>6. row \in Scheduling!Session /\ row.start = board[s].start /\ row.end = board[s].end /\ row.day = 0
  <2>1. board[s] \in Scheduling!Session
    BY <1>5 DEF AgendaInv
  <2> QED BY <1>2, <2>1 DEF Scheduling!OffTheBoard, Scheduling!Session
<1>7. CallFits(q) /\ ~q.fresh
  BY <1>3, UncalledFits
<1> QED BY <1>0, <1>4, <1>5, <1>6, <1>7, Changed, RowTurns

LEMMA RecastKeeps ==
  ASSUME AgendaInv, NEW r \in Requests, Scheduling!DeleteSpeakers(r) \/ Scheduling!InsertSpeakers(r)
  PROVE  AgendaInv'
<1>0. PICK c : c = call[r]
  OBVIOUS
<1>1. PICK s : s = c.session
  OBVIOUS
<1>2. ASSUME NEW cast \in SUBSET Speakers, NEW q, Scheduling!Recast(r, s, cast, q), CallFits(q), ~q.fresh,
             c.pc \in {"delete", "insert"}
      PROVE  AgendaInv'
  <2>1. PICK row : row = [board[s] EXCEPT !.speakers = cast]
    OBVIOUS
  <2>2. s \in Sessions
    BY <1>0, <1>1, <1>2, Fits DEF CallFits
  <2>3. row \in Scheduling!Session /\ row.start = board[s].start /\ row.end = board[s].end
    <3>1. board[s] \in Scheduling!Session
      BY <2>2 DEF AgendaInv
    <3> QED BY <2>1, <3>1 DEF Scheduling!Session
  <2>4. Scheduling!Change(r, s, row, q) /\ UNCHANGED <<length, reported>> /\ unsaid' = unsaid \cup {s}
    BY <1>2, <2>1 DEF Scheduling!Recast
  <2> QED BY <1>0, <1>2, <2>2, <2>3, <2>4, Changed, RowTurns
<1>3. CASE Scheduling!DeleteSpeakers(r)
  <2>1. PICK q : q = [c EXCEPT !.pc = "insert"]
    OBVIOUS
  <2>2. c.pc = "delete" /\ CallFits(c) /\ Scheduling!Recast(r, s, {}, q)
    BY <1>0, <1>1, <1>3, <2>1, Fits DEF Scheduling!DeleteSpeakers, Scheduling!At
  <2>3. CallFits(q) /\ ~q.fresh
    BY <2>1, <2>2 DEF CallFits, PlaceLabels
  <2> QED BY <1>2, <2>2, <2>3
<1>4. CASE Scheduling!InsertSpeakers(r)
  <2>1. PICK q : q = Scheduling!Uncalled
    OBVIOUS
  <2>2. c.pc = "insert" /\ CallFits(c) /\ Scheduling!Recast(r, s, c.cast, q)
    BY <1>0, <1>1, <1>4, <2>1, Fits DEF Scheduling!InsertSpeakers, Scheduling!At
  <2>3. CallFits(q) /\ ~q.fresh /\ c.cast \in SUBSET Speakers
    BY <2>1, <2>2, UncalledFits DEF CallFits
  <2> QED BY <1>2, <2>2, <2>3
<1> QED BY <1>3, <1>4

LEMMA TurnKeeps == ASSUME AgendaInv, NEW s \in Sessions, Scheduling!Turn(s) PROVE AgendaInv'
<1>1. PICK row : row = [board[s] EXCEPT !.live = ~@]
  OBVIOUS
<1>2. row \in Scheduling!Session /\ row.start = board[s].start /\ row.end = board[s].end
  <2>1. board[s] \in Scheduling!Session
    BY DEF AgendaInv
  <2> QED BY <1>1, <2>1 DEF Scheduling!Session
<1>3. /\ board' = [board EXCEPT ![s] = row] /\ UNCHANGED <<length, reported>> /\ unsaid' = unsaid \cup {s}
      /\ call' = [k \in Requests |-> [call[k] EXCEPT !.fresh = FALSE]]
  BY <1>1 DEF Scheduling!Turn
<1>4. /\ call' = [k \in Requests |-> call'[k]]
      /\ \A k \in Requests : call'[k] = [call[k] EXCEPT !.fresh = FALSE]
  BY <1>3
<1> QED BY <1>2, <1>3, <1>4, RowTurns

LEMMA BreakKeeps == ASSUME AgendaInv, NEW r \in Requests, Scheduling!Break(r) PROVE AgendaInv'
<1>1. Scheduling!Hang(r) /\ UNCHANGED <<board, length, reported>> /\ unsaid' = unsaid \cup {call[r].session}
  BY DEF Scheduling!Break
<1>2. ASSUME NEW x, Sees(call[r], x) PROVE x.pair \cap unsaid' # {}
  BY <1>1, <1>2 DEF Sees
<1> QED BY <1>1, <1>2, CallEnds

(* The first free slot is a free one: days, times and rooms are numbers.     *)
Less == {ss \in Nat \X Nat : ss[1] < ss[2]}
LEMMA Least == ASSUME NEW T \in SUBSET Nat, T # {} PROVE \E x \in T : \A y \in T : x <= y
<1>1. IsWellFoundedOn(Less, Nat)
  BY NatLessThanWellFounded DEF OpToRel, Less
<1>2. PICK x \in T : \A y \in T : ~(<<y, x>> \in Less)
  BY <1>1, WFMin
<1>3. \A y \in T : ~(y < x)
  BY <1>2 DEF Less
<1> QED BY <1>3

LEMMA FirstIsFree ==
  ASSUME NEW free, free # {},
         \A x \in free : x.day \in Nat /\ x.start \in Nat /\ x.room \in Nat
  PROVE  Scheduling!FirstFreeSlot(free) \in free
<1>1. PICK d \in {x.day : x \in free} : \A e \in {x.day : x \in free} : d <= e
  BY Least
<1>2. PICK ofDay : ofDay = {x \in free : x.day = d}
  OBVIOUS
<1>3. PICK m \in {x.start : x \in ofDay} : \A n \in {x.start : x \in ofDay} : m <= n
  <2>1. {x.start : x \in ofDay} # {} /\ {x.start : x \in ofDay} \in SUBSET Nat
    BY <1>1, <1>2
  <2> QED BY <2>1, Least
<1>4. PICK ofTime : ofTime = {x \in ofDay : x.start = m}
  OBVIOUS
<1>5. PICK k \in {x.room : x \in ofTime} : \A n \in {x.room : x \in ofTime} : k <= n
  <2>1. {x.room : x \in ofTime} # {} /\ {x.room : x \in ofTime} \in SUBSET Nat
    BY <1>2, <1>3, <1>4
  <2> QED BY <2>1, Least
<1>6. PICK x \in free : x.day = d /\ x.start = m /\ x.room = k
  BY <1>2, <1>4, <1>5
<1>7. ASSUME NEW y \in free PROVE Scheduling!Before(x, y)
  <2>1. /\ d <= y.day /\ (y.day = d => m <= y.start)
        /\ y.day = d /\ y.start = m => k <= y.room
    BY <1>1, <1>2, <1>3, <1>4, <1>5
  <2>2. /\ d \in Nat /\ m \in Nat /\ k \in Nat
        /\ y.day \in Nat /\ y.start \in Nat /\ y.room \in Nat
    BY <1>6
  <2> QED BY <1>6, <2>1, <2>2 DEF Scheduling!Before
<1> QED BY <1>6, <1>7 DEF Scheduling!FirstFreeSlot

LEMMA SlotFits ==
  ASSUME AgendaOK, NEW days, days \subseteq Nat, NEW n \in Nat, NEW w \in Windows,
         NEW slot \in Scheduling!Slots(days, n, w)
  PROVE  /\ slot.day \in Nat /\ slot.start \in Nat /\ slot.room \in Nat
         /\ Scheduling!DurationMinutes(slot) = n - (IF slot.start + n = MinutesPerDay THEN 1 ELSE 0)
<1>1. PICK d \in days, room \in Scheduling!Columns, m \in Scheduling!Minutes :
        /\ m + n <= w[2]
        /\ slot = [day |-> d, start |-> m, end |-> Scheduling!TimeOfMinutes(m + n), room |-> room]
  BY DEF Scheduling!Slots
<1>2. m \in Nat /\ w[2] \in Nat /\ w[2] <= MinutesPerDay /\ MinutesPerDay \in Nat
  BY DEF AgendaOK, Scheduling!Minutes
<1>3. room \in Nat
  BY DEF AgendaOK, Scheduling!Columns
<1>4. slot.day = d /\ slot.start = m /\ slot.end = Scheduling!TimeOfMinutes(m + n) /\ slot.room = room
  BY <1>1
<1> QED BY <1>1, <1>2, <1>3, <1>4 DEF Scheduling!DurationMinutes, Scheduling!TimeOfMinutes

LEMMA AnswerKeeps == ASSUME AgendaOK, AgendaInv, NEW r \in Requests, Scheduling!Answer(r) PROVE AgendaInv'
<1>0. PICK c : c = call[r]
  OBVIOUS
<1>1. PICK days : days = EventDays \cup ({c.seen[s].day : s \in Sessions} \ {0})
  OBVIOUS
<1>2. PICK free : free = Scheduling!FreeSlots(c.seen, c.session, days, c.wanted, c.window)
  OBVIOUS
<1>3. PICK slot : slot = Scheduling!FirstFreeSlot(free)
  OBVIOUS
<1>4. PICK q : q = [c EXCEPT !.pc = "offered", !.to = slot, !.seen = Scheduling!Uncalled.seen]
  OBVIOUS
<1>5. /\ c.pc = "answer" /\ CallFits(c) /\ Fresh(c) /\ UNCHANGED <<board, length, reported, unsaid>>
      /\ Scheduling!Hang(r) \/ (slot # Scheduling!NoWhere /\ Scheduling!Set(r, q))
  BY <1>0, <1>1, <1>2, <1>3, <1>4, Fits DEF Scheduling!Answer, Scheduling!At, Scheduling!history
<1>6. CASE Scheduling!Hang(r)
  <2>1. \A x \in Scheduling!DetectConflicts(board) : ~Sees(call[r], x)
    BY <1>0, <1>5 DEF Sees
  <2> QED BY <1>5, <1>6, <2>1, CallEnds
<1>7. CASE slot # Scheduling!NoWhere /\ Scheduling!Set(r, q)
  <2>1. /\ c.session \in Sessions /\ c.window \in Windows /\ c.wanted \in Nat /\ c.wanted = c.placed
        /\ c.seen \in [Sessions -> Scheduling!Session] /\ c.kind = "suggest"
    BY <1>5 DEF CallFits
  <2>2. days \subseteq Nat
    <3>1. \A s \in Sessions : c.seen[s].day \in Nat
      BY <2>1 DEF Scheduling!Session, AgendaOK
    <3> QED BY <1>1, <3>1 DEF AgendaOK
  <2>3. free \subseteq Scheduling!Slots(days, c.wanted, c.window) /\ free # {}
    BY <1>2, <1>3, <1>7 DEF Scheduling!FreeSlots, Scheduling!FirstFreeSlot
  <2>4. \A x \in free : x.day \in Nat /\ x.start \in Nat /\ x.room \in Nat
    BY <2>1, <2>2, <2>3, SlotFits
  <2>5. slot \in free
    BY <1>3, <2>3, <2>4, FirstIsFree
  <2>6. /\ Scheduling!DurationMinutes(slot) =
             c.placed - (IF slot.start + c.placed = MinutesPerDay THEN 1 ELSE 0)
        /\ \A t \in Sessions \ {c.session} :
             Scheduling!Clashes(Scheduling!Probe(c.seen[c.session], slot), c.seen[t]) = {}
    <3>1. slot \in Scheduling!Slots(days, c.wanted, c.window)
      BY <2>3, <2>5
    <3>2. \A t \in Sessions \ {c.session} :
             Scheduling!Clashes(Scheduling!Probe(c.seen[c.session], slot), c.seen[t]) = {}
      BY <1>2, <2>5 DEF Scheduling!FreeSlots
    <3>3. Scheduling!DurationMinutes(slot) =
             c.wanted - (IF slot.start + c.wanted = MinutesPerDay THEN 1 ELSE 0)
      <4>1. c.wanted \in Nat /\ c.window \in Windows
        BY <2>1
      <4> QED BY <2>2, <3>1, <4>1, SlotFits, ZenonT(60)
    <3> QED BY <2>1, <3>2, <3>3
  <2>7. /\ CallFits(q) /\ q.pc = "offered" /\ q.to = slot /\ q.session = c.session
        /\ q.placed = c.placed /\ q.fresh = c.fresh
    BY <1>4, <1>5 DEF CallFits, PlaceLabels
  <2>8. Fresh(q)
    <3>1. c.fresh => c.seen = board
      BY <1>5 DEF Fresh
    <3> QED BY <2>6, <2>7, <3>1 DEF Fresh, Free
  <2> QED BY <1>0, <1>5, <1>7, <2>7, <2>8, CallGoes
<1> QED BY <1>5, <1>6, <1>7

LEMMA TakeKeeps ==
  ASSUME AgendaInv, NEW r \in Requests, Scheduling!TakeSlot(r) \/ Scheduling!Leave(r)
  PROVE  AgendaInv'
<1>0. PICK c : c = call[r]
  OBVIOUS
<1>1. PICK q : q = [c EXCEPT !.pc = "update", !.kind = "place"]
  OBVIOUS
<1>2. /\ c.pc = "offered" /\ CallFits(c) /\ Fresh(c) /\ UNCHANGED <<board, length, reported, unsaid>>
      /\ \/ Scheduling!Hang(r)
         \/ c.to \in Scheduling!ValidPlacements /\ Scheduling!Set(r, q)
  BY <1>0, <1>1, Fits DEF Scheduling!TakeSlot, Scheduling!Leave, Scheduling!At, Scheduling!history
<1>3. CASE Scheduling!Hang(r)
  <2>1. \A x \in Scheduling!DetectConflicts(board) : ~Sees(call[r], x)
    BY <1>0, <1>2 DEF Sees
  <2> QED BY <1>2, <1>3, <2>1, CallEnds
<1>4. CASE c.to \in Scheduling!ValidPlacements /\ Scheduling!Set(r, q)
  <2>1. /\ CallFits(q) /\ q.pc = "update" /\ q.to = c.to /\ q.session = c.session
        /\ q.placed = c.placed /\ q.fresh = c.fresh
    BY <1>1, <1>2, <1>4 DEF CallFits, PlaceLabels, Scheduling!Calls
  <2>2. Fresh(q)
    BY <1>2, <2>1 DEF Fresh, Free
  <2> QED BY <1>0, <1>2, <1>4, <2>1, <2>2, CallGoes
<1> QED BY <1>2, <1>3, <1>4

LEMMA AgendaStep ==
  ASSUME AgendaOK, AgendaInv, [Scheduling!Next]_Scheduling!agendaVars PROVE AgendaInv'
<1>1. CASE UNCHANGED Scheduling!agendaVars
  <2>1. UNCHANGED <<board, call, length, reported, unsaid>>
    BY <1>1 DEF Scheduling!agendaVars
  <2>2. \A r \in Requests : CallFits(call[r])' /\ Fresh(call[r])'
    <3>1. \A r \in Requests : CallFits(call'[r]) /\ Fresh(call'[r])
      BY <2>1, Fits
    <3> QED BY <2>1, <3>1 DEF CallFits, Fresh, Free
  <2>3. \A x \in Scheduling!DetectConflicts(board)' : Said(x)'
    <3>1. \A x \in Scheduling!DetectConflicts(board) : Said(x)
      BY DEF AgendaInv
    <3> QED BY <2>1, <3>1 DEF Said, Sees, Scheduling!DetectConflicts
  <2>4. \A s \in Sessions : length'[s] = Lasting(board[s])'
    BY <2>1 DEF AgendaInv, Lasting
  <2> QED BY <2>1, <2>2, <2>3, <2>4 DEF AgendaInv
<1>2. ASSUME NEW r \in Requests, Scheduling!Step(r) PROVE AgendaInv'
  BY <1>2, CheckKeeps, UpdateKeeps, ClearKeeps, RecastKeeps, RowsAreSeen, SpeakersAreSeen, ReportKeeps,
     AnswerKeeps, TakeKeeps DEF Scheduling!Step
<1>3. CASE Scheduling!Next
  BY <1>2, <1>3, CallsBegin, BreakKeeps, TurnKeeps DEF Scheduling!Next
<1> QED BY <1>1, <1>3

(* Nobody under way is about to say it.                                     *)
LEMMA AllIsSaid == AgendaInv => Scheduling!ConflictsSeen
<1> SUFFICES ASSUME AgendaInv, Scheduling!Busy = {}, NEW x \in Scheduling!DetectConflicts(board)
             PROVE  x \in reported \/ x.pair \cap unsaid # {}
  BY DEF Scheduling!ConflictsSeen
<1>1. \A r \in Requests : ~Sees(call[r], x)
  BY DEF Scheduling!Busy, Scheduling!At, Sees
<1> QED BY <1>1 DEF AgendaInv, Said

(* What is written where it was fresh is where it was found free.           *)
SlotTaken(r) ==
  LET c == call[r]
      s == c.session
  IN  /\ Scheduling!DurationMinutes(c.to) =
           c.placed - (IF c.to.start + c.placed = MinutesPerDay THEN 1 ELSE 0)
      /\ \A t \in DOMAIN board \ {s} :
           Scheduling!Clashes([board'[s] EXCEPT !.live = TRUE], board'[t]) = {}

LEMMA OneGoesOn ==
  ASSUME AgendaInv, Scheduling!Next, NEW r \in Requests, call[r].pc = "update", call'[r].pc = "rows"
  PROVE  Scheduling!Update(r)
<1>1. ASSUME NEW k \in Requests \ {r}, NEW c, Scheduling!Set(k, c) PROVE FALSE
  <2>1. call'[r] = call[r]
    BY <1>1 DEF Scheduling!Set, AgendaInv
  <2> QED BY <2>1
<1>2. ASSUME NEW k \in Requests \ {r}, NEW s, NEW row, NEW c, Scheduling!Change(k, s, row, c) PROVE FALSE
  <2>1. call'[r] = [call[r] EXCEPT !.fresh = FALSE]
    BY <1>2 DEF Scheduling!Change
  <2>2. call'[r].pc = call[r].pc
    BY <2>1, Fits DEF CallFits
  <2> QED BY <2>2
<1>3. ASSUME NEW s, Scheduling!Turn(s) PROVE FALSE
  <2>1. call'[r] = [call[r] EXCEPT !.fresh = FALSE]
    BY <1>3 DEF Scheduling!Turn
  <2>2. call'[r].pc = call[r].pc
    BY <2>1, Fits DEF CallFits
  <2> QED BY <2>2
<1>4. ASSUME NEW k \in Requests \ {r}, Scheduling!Step(k) PROVE FALSE
  BY <1>1, <1>2, <1>4
     DEF Scheduling!Step, Scheduling!Check, Scheduling!Update, Scheduling!Clear, Scheduling!DeleteSpeakers,
         Scheduling!InsertSpeakers, Scheduling!Recast, Scheduling!ReadRows, Scheduling!ReadLinks,
         Scheduling!Report, Scheduling!Answer, Scheduling!TakeSlot, Scheduling!Leave, Scheduling!Hang
<1>5. ASSUME NEW k \in Requests, NEW c, Scheduling!Begin(k, c) PROVE FALSE
  <2>1. k # r /\ Scheduling!Set(k, c)
    BY <1>5 DEF Scheduling!Begin, Scheduling!At
  <2> QED BY <1>1, <2>1
<1>6. ASSUME NEW k \in Requests, Scheduling!Break(k) PROVE FALSE
  <2>1. CASE k # r
    BY <1>1, <1>6, <2>1 DEF Scheduling!Break, Scheduling!Hang
  <2>2. CASE k = r
    <3>1. call'[r] = Scheduling!Uncalled
      BY <1>6, <2>2 DEF Scheduling!Break, Scheduling!Hang, Scheduling!Set, AgendaInv
    <3> QED BY <3>1, UncalledFits
  <2> QED BY <2>1, <2>2
<1>7. Scheduling!Step(r)
  BY <1>3, <1>4, <1>5, <1>6
     DEF Scheduling!Next, Scheduling!PlaceSession, Scheduling!UnscheduleSession,
         Scheduling!UpdateSessionSpeakers, Scheduling!SuggestSessionSlot
<1> QED BY <1>7
     DEF Scheduling!Step, Scheduling!Check, Scheduling!Clear, Scheduling!DeleteSpeakers,
         Scheduling!InsertSpeakers, Scheduling!ReadRows, Scheduling!ReadLinks, Scheduling!Report,
         Scheduling!Answer, Scheduling!TakeSlot, Scheduling!Leave, Scheduling!At

LEMMA TakenFits ==
  ASSUME AgendaOK, AgendaInv, NEW r \in Requests, Scheduling!Update(r), call[r].fresh
  PROVE  SlotTaken(r)
<1>0. PICK c : c = call[r]
  OBVIOUS
<1>1. PICK s : s = c.session
  OBVIOUS
<1>2. /\ c.pc = "update" /\ CallFits(c) /\ Free(c) /\ s \in Sessions
      /\ board' = [board EXCEPT ![s] = Scheduling!Put(board[s], c.to)]
  BY <1>0, <1>1, Fits DEF Scheduling!Update, Scheduling!At, Scheduling!Change, CallFits, Fresh
<1>3. board \in [Sessions -> Scheduling!Session]
  BY DEF AgendaInv
<1>4. \A t \in Sessions \ {s} :
        Scheduling!Clashes([board'[s] EXCEPT !.live = TRUE], board'[t]) = {}
  BY <1>1, <1>2, <1>3 DEF Free, Scheduling!Probe
<1> QED BY <1>0, <1>1, <1>2, <1>3, <1>4 DEF SlotTaken, Free

(* In the composition the agenda may be all there is.                      *)
AgendaStays == part = "agenda" => AgendaInv

LEMMA AgendaStaysInv == ASSUME AgendaOK PROVE Screens => []AgendaStays
<1>1. Gather => AgendaStays
  BY AgendaInit DEF Gather, AgendaStays
<1>2. AgendaStays /\ [Work]_<<part, vars, scheduling>> => AgendaStays'
  <2> SUFFICES ASSUME AgendaStays, [Work]_<<part, vars, scheduling>>, part' = "agenda" PROVE AgendaInv'
    BY DEF AgendaStays
  <2>1. part = "agenda" /\ AgendaInv
    BY DEF AgendaStays, Work
  <2>2. [Scheduling!Next]_Scheduling!agendaVars
    BY <2>1 DEF Work, scheduling, Scheduling!agendaVars
  <2> QED BY <2>1, <2>2, AgendaStep
<1> QED BY <1>1, <1>2, PTL DEF Screens

(* However many organizers work on the board at once, whatever breaks off   *)
(* and whatever decisions turn, a double booking that placements have made  *)
(* has been reported to one of those who made it (placeSession,             *)
(* detectConflicts).                                                       *)
THEOREM ConflictsAlwaysSeen ==
  ASSUME AgendaOK
  PROVE  Screens => []ConflictsSeen
<1>1. AgendaStays => ConflictsSeen
  BY AllIsSaid DEF AgendaStays, ConflictsSeen
<1> QED BY <1>1, AgendaStaysInv, PTL

(* A suggested slot that is taken before anything changes books nothing     *)
(* twice and is as long as it was to be, whatever the days, rooms, lengths  *)
(* and windows are (firstConflictFreeSlot, suggestSessionSlot).            *)
THEOREM SuggestionsAlwaysFit ==
  ASSUME AgendaOK
  PROVE  Screens => SuggestionFits
<1>1. ASSUME AgendaStays, [Work]_<<part, vars, scheduling>>, scheduling' # scheduling,
             NEW r \in Requests,
             part = "agenda", call[r].pc = "update", call[r].fresh, call'[r].pc = "rows"
      PROVE  SlotTaken(r)
  <2>1. AgendaInv /\ Scheduling!Next
    BY <1>1 DEF AgendaStays, Work
  <2>2. Scheduling!Update(r)
    BY <1>1, <2>1, OneGoesOn
  <2> QED BY <1>1, <2>1, <2>2, TakenFits
<1>2. AgendaStays /\ [Work]_<<part, vars, scheduling>> =>
        [\A r \in Requests :
           part = "agenda" /\ call[r].pc = "update" /\ call[r].fresh /\ call'[r].pc = "rows" =>
             SlotTaken(r)]_scheduling
  BY <1>1
<1> QED BY <1>2, AgendaStaysInv, PTL DEF Screens, SuggestionFits, SlotTaken
============================================================================
