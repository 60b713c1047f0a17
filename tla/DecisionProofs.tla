--------------------------- MODULE DecisionProofs ---------------------------
(***************************************************************************)
(* Theorems about module Decision, for any sets of requests, proposals,    *)
(* speakers and tasks: types, the two facts about sessions, and what a     *)
(* verdict leaves behind.  An acceptance, or an edit, that runs to its end *)
(* alone leaves the proposal onboarded, the last reversal of a speaker's   *)
(* proposals leaves nothing to do, and every statement is a justified      *)
(* change of module Onboarding.  Then reversals that run at once.          *)
(***************************************************************************)
EXTENDS Decision, TLAPS

AtRest == {"idle", "done", "failed"}
AfterRead == {"held", "session", "clear", "fill", "tasks", "drop", "add"}

(* A request under way knows which proposal it is about; only a decision    *)
(* writes a status; the session is read before anything depends on it.      *)
Control ==
  \A r \in Requests :
    /\ req[r].pc \notin AtRest => req[r].sub \in Submissions
    /\ req[r].pc = "write" => req[r].kind \in Decisions
    /\ req[r].pc \in AfterRead => "session" \in req[r].got

(* A session a request has found exists... *)
FoundExists ==
  \A r \in Requests :
    req[r].pc \notin AtRest /\ req[r].found # None
      => session[<<req[r].sub, req[r].found>>] # "none"

(* ... and where it found none, the proposal had not been converted before  *)
(* the requests started.                                                    *)
NoneMeansNone ==
  \A r \in Requests :
    req[r].pc \notin AtRest /\ "session" \in req[r].got /\ req[r].found = None
      => session[<<req[r].sub, Original>>] = "none"

(* One request at a time: nobody else can convert the proposal between the  *)
(* read that found no session and the statement that creates one.           *)
Alone == \A r, o \in Requests : req[r].pc \notin AtRest /\ req[o].pc \notin AtRest => r = o
NoneMeansFresh ==
  \A r \in Requests :
    req[r].pc \notin AtRest /\ "session" \in req[r].got /\ req[r].found = None
      => Fresh(req[r].sub) = {}
SerialInv == Serial => Alone /\ NoneMeansFresh /\ OneSession

SessionInv == Control /\ FoundExists /\ NoneMeansNone /\ ConvertedOnce /\ SerialInv
IInv == TypeOK /\ SessionInv

----------------------------------------------------------------------------
(* How a step changes the requests *)

LEMMA SetRequest ==
  ASSUME req \in [Requests -> Request], NEW r \in Requests, NEW q \in Request, Set(r, q)
  PROVE  /\ req' \in [Requests -> Request]
         /\ req'[r] = q
         /\ \A o \in Requests \ {r} : req'[o] = req[o]
  BY DEF Set

LEMMA IdleRequest == Idle \in Request
  BY DEF Idle, Request, Labels, Creators

(* A request that comes to rest *)
LEMMA EndRequest ==
  ASSUME TypeOK, NEW r \in Requests, NEW label \in {"done", "failed"}, End(r, label)
  PROVE  /\ req' \in [Requests -> Request]
         /\ req'[r].pc = label
         /\ \A o \in Requests \ {r} : req'[o] = req[o]
<1> DEFINE q == [Idle EXCEPT !.pc = label, !.sub = req[r].sub, !.kind = req[r].kind,
                             !.was = req[r].was, !.seen = req[r].seen]
<1>1. /\ req[r].sub \in Submissions \cup {None}
      /\ req[r].kind \in Decisions \cup {"edit", "none"}
      /\ req[r].was \in {"submitted", "none"} \cup Decisions
      /\ req[r].seen \in {"none", "confirmed", "cancelled"}
  BY DEF TypeOK, Request
<1>2. q \in Request /\ q.pc = label
  BY <1>1 DEF Request, Labels, Idle, Creators
<1> QED BY <1>2, SetRequest DEF End, TypeOK

(* q is what a request under way may become without touching what it knows *)
(* of the session                                                           *)
Onward(r, q) ==
  /\ q \in Request /\ q.pc \notin AtRest \cup {"write"}
  /\ q.sub = req[r].sub /\ q.found = req[r].found
  /\ "session" \in q.got => "session" \in req[r].got
  /\ q.pc \in AfterRead => "session" \in q.got

LEMMA OnwardKeeps ==
  ASSUME IInv, NEW r \in Requests, req[r].pc \notin AtRest,
         NEW q, Onward(r, q), Set(r, q), session' = session
  PROVE  req' \in [Requests -> Request] /\ SessionInv'
<1>1. /\ req' \in [Requests -> Request] /\ req'[r] = q
      /\ \A o \in Requests \ {r} : req'[o] = req[o]
  BY SetRequest DEF IInv, TypeOK, Onward
<1>2. Control'
  BY <1>1 DEF IInv, SessionInv, Control, Onward, AtRest, AfterRead
<1>3. FoundExists'
  BY <1>1 DEF IInv, SessionInv, FoundExists, Onward, AtRest, AfterRead
<1>4. NoneMeansNone'
  BY <1>1 DEF IInv, SessionInv, NoneMeansNone, Onward, AtRest, AfterRead
<1>5. ConvertedOnce'
  BY DEF IInv, SessionInv, ConvertedOnce, Fresh
<1>6. SerialInv'
  <2>1. \A s : Fresh(s)' = Fresh(s)
    BY DEF Fresh
  <2>2. Serial => Alone'
    BY <1>1 DEF IInv, SessionInv, SerialInv, Alone
  <2>3. Serial => NoneMeansFresh'
    BY <1>1, <2>1 DEF IInv, SessionInv, SerialInv, NoneMeansFresh, Onward
  <2>4. Serial => OneSession'
    BY <2>1 DEF IInv, SessionInv, SerialInv, OneSession
  <2> QED BY <2>2, <2>3, <2>4 DEF SerialInv
<1> QED BY <1>1, <1>2, <1>3, <1>4, <1>5, <1>6 DEF SessionInv

LEMMA EndKeeps ==
  ASSUME IInv, NEW r \in Requests, NEW label \in {"done", "failed"}, End(r, label),
         session' = session
  PROVE  req' \in [Requests -> Request] /\ SessionInv'
<1>1. /\ req' \in [Requests -> Request] /\ req'[r].pc = label
      /\ \A o \in Requests \ {r} : req'[o] = req[o]
  BY EndRequest DEF IInv
<1>2. Control'
  BY <1>1 DEF IInv, SessionInv, Control, AtRest, AfterRead
<1>3. FoundExists'
  BY <1>1 DEF IInv, SessionInv, FoundExists, AtRest, AfterRead
<1>4. NoneMeansNone'
  BY <1>1 DEF IInv, SessionInv, NoneMeansNone, AtRest, AfterRead
<1>5. ConvertedOnce'
  BY DEF IInv, SessionInv, ConvertedOnce, Fresh
<1>6. SerialInv'
  <2>1. \A s : Fresh(s)' = Fresh(s)
    BY DEF Fresh
  <2>2. Serial => Alone'
    BY <1>1 DEF IInv, SessionInv, SerialInv, Alone, AtRest
  <2>3. Serial => NoneMeansFresh'
    BY <1>1, <2>1 DEF IInv, SessionInv, SerialInv, NoneMeansFresh, AtRest
  <2>4. Serial => OneSession'
    BY <2>1 DEF IInv, SessionInv, SerialInv, OneSession
  <2> QED BY <2>2, <2>3, <2>4 DEF SerialInv
<1> QED BY <1>1, <1>2, <1>3, <1>4, <1>5, <1>6 DEF SessionInv

(* q is what a request becomes when its read of the session returns c *)
Reads(r, c, q) ==
  /\ q \in Request /\ q.pc \notin AtRest \cup {"write"}
  /\ q.sub = req[r].sub /\ q.found = c
  /\ q.pc \in AfterRead => "session" \in q.got

LEMMA ReadKeeps ==
  ASSUME IInv, NEW r \in Requests, req[r].pc \notin AtRest,
         NEW c \in Creators \cup {None}, FindsSession(r, c),
         NEW q, Reads(r, c, q), Set(r, q), session' = session
  PROVE  req' \in [Requests -> Request] /\ SessionInv'
<1>1. /\ req' \in [Requests -> Request] /\ req'[r] = q
      /\ \A o \in Requests \ {r} : req'[o] = req[o]
  BY SetRequest DEF IInv, TypeOK, Reads
<1>2. Control'
  BY <1>1 DEF IInv, SessionInv, Control, Reads, AtRest, AfterRead
<1>3. c # None => session[<<req[r].sub, c>>] # "none"
  BY DEF FindsSession, Fresh
<1>4. c = None => session[<<req[r].sub, Original>>] = "none"
  BY ConstantsOK DEF FindsSession, Fresh, Creators
<1>5. FoundExists'
  BY <1>1, <1>3 DEF IInv, SessionInv, FoundExists, Reads, AtRest, AfterRead
<1>6. NoneMeansNone'
  BY <1>1, <1>4 DEF IInv, SessionInv, NoneMeansNone, Reads, AtRest, AfterRead
<1>7. ConvertedOnce'
  BY DEF IInv, SessionInv, ConvertedOnce, Fresh
<1>8. SerialInv'
  <2>1. \A s : Fresh(s)' = Fresh(s)
    BY DEF Fresh
  <2>2. Serial => Alone'
    BY <1>1 DEF IInv, SessionInv, SerialInv, Alone
  <2>3. c = None => Fresh(req[r].sub) = {}
    BY ConstantsOK DEF FindsSession, Fresh, Creators
  <2>4. Serial => NoneMeansFresh'
    BY <1>1, <2>1, <2>3 DEF IInv, SessionInv, SerialInv, NoneMeansFresh, Reads
  <2>5. Serial => OneSession'
    BY <2>1 DEF IInv, SessionInv, SerialInv, OneSession
  <2> QED BY <2>2, <2>4, <2>5 DEF SerialInv
<1> QED BY <1>1, <1>2, <1>5, <1>6, <1>7, <1>8 DEF SessionInv

----------------------------------------------------------------------------
(* One lemma per action *)

LEMMA Fields ==
  ASSUME IInv, NEW r \in Requests
  PROVE  /\ req[r] \in Request
         /\ req[r].pc \in Labels
         /\ req[r].sub \in Submissions \cup {None}
         /\ req[r].pc \notin AtRest => req[r].sub \in Submissions
         /\ req[r].found \in Creators \cup {None}
         /\ req[r].people \in SUBSET Speakers
         /\ req[r].rest \in SUBSET Speakers
         /\ req[r].todo \in SUBSET Survey
         /\ req[r].missing \in SUBSET Pairs
         /\ req[r].doomed \in SUBSET Doomed
         /\ req[r].got \in SUBSET {"speakers", "session"}
         /\ req[r].booked \in SUBSET Speakers
  BY DEF IInv, TypeOK, SessionInv, Control, Request

LEMMA InitInv == Init => IInv
<1> SUFFICES ASSUME Init PROVE IInv
  OBVIOUS
<1>1. req \in [Requests -> Request]
  BY IdleRequest DEF Init
<1>2. TypeOK
  BY <1>1, ConstantsOK DEF Init, TypeOK, SessionKeys, Pairs, Row, NoRow, Creators, Decisions
<1>3. \A r \in Requests : req[r].pc = "idle"
  BY DEF Init, Idle
<1>4. Control /\ FoundExists /\ NoneMeansNone
  BY <1>3 DEF Control, FoundExists, NoneMeansNone, AtRest, AfterRead
<1>5. ConvertedOnce
  BY ConstantsOK DEF Init, ConvertedOnce, Fresh, SessionKeys, Creators
<1>6. \A s \in Submissions : Fresh(s) \subseteq {Original}
  BY DEF Init, Fresh, SessionKeys
<1>7. SerialInv
  BY <1>3, <1>6 DEF SerialInv, Alone, NoneMeansFresh, OneSession, AtRest
<1> QED BY <1>2, <1>4, <1>5, <1>7 DEF IInv, SessionInv

(* A request that begins *)
LEMMA BeginInv ==
  ASSUME IInv, NEW r \in Requests, MayBegin(r),
         NEW q \in Request, q.sub \in Submissions, Set(r, q),
         q.pc \in {"write", "relink"}, q.pc = "write" => q.kind \in Decisions,
         q.got = {}, q.found = None, NEW s \in Submissions,
         last' = [last EXCEPT ![s] = r], UNCHANGED db
  PROVE  IInv'
<1>1. /\ req' \in [Requests -> Request] /\ req'[r] = q
      /\ \A o \in Requests \ {r} : req'[o] = req[o]
  BY SetRequest DEF IInv, TypeOK
<1>2. TypeOK'
  BY <1>1 DEF IInv, TypeOK, db
<1>3. Control'
  BY <1>1 DEF IInv, SessionInv, Control, AtRest, AfterRead
<1>4. FoundExists' /\ NoneMeansNone'
  BY <1>1 DEF IInv, SessionInv, FoundExists, NoneMeansNone, AtRest, AfterRead, db
<1>5. ConvertedOnce'
  BY DEF IInv, SessionInv, ConvertedOnce, Fresh, db
<1>6. SerialInv'
  <2>1. \A x : Fresh(x)' = Fresh(x)
    BY DEF Fresh, db
  <2>2. Serial => Alone'
    BY <1>1 DEF MayBegin, InFlight, Alone, AtRest
  <2>3. Serial => NoneMeansFresh'
    BY <1>1, <2>1 DEF IInv, SessionInv, SerialInv, NoneMeansFresh
  <2>4. Serial => OneSession'
    BY <2>1 DEF IInv, SessionInv, SerialInv, OneSession
  <2> QED BY <2>2, <2>3, <2>4 DEF SerialInv
<1> QED BY <1>2, <1>3, <1>4, <1>5, <1>6 DEF IInv, SessionInv

LEMMA DecideInv ==
  ASSUME IInv, NEW r \in Requests, NEW s \in Submissions, NEW d \in Verdicts, Decide(r, s, d)
  PROVE  IInv'
<1> DEFINE q == [Idle EXCEPT !.pc = "write", !.sub = s, !.kind = d, !.was = status[s]]
<1>1. d \in Decisions /\ status[s] \in {"submitted"} \cup Decisions
  BY ConstantsOK DEF IInv, TypeOK
<1>2. q \in Request
  BY <1>1 DEF Request, Labels, Idle, Creators
<1>3. q.sub = s /\ q.pc = "write" /\ q.kind = d /\ q.got = {} /\ q.found = None
  BY DEF Idle
<1>4. MayBegin(r) /\ Set(r, q) /\ last' = [last EXCEPT ![s] = r] /\ UNCHANGED db
  BY DEF Decide
<1> HIDE DEF q
<1> QED BY <1>1, <1>2, <1>3, <1>4, BeginInv

LEMMA EditInv ==
  ASSUME IInv, NEW r \in Requests, NEW s \in Submissions, NEW team \in EditTeams, Edit(r, s, team)
  PROVE  IInv'
<1> DEFINE q == [Idle EXCEPT !.pc = "relink", !.sub = s, !.kind = "edit",
                             !.was = status[s], !.people = team]
<1>1. team \in SUBSET Speakers /\ status[s] \in {"submitted"} \cup Decisions
  BY ConstantsOK DEF IInv, TypeOK
<1>2. q \in Request
  BY <1>1 DEF Request, Labels, Idle, Creators
<1>3. q.sub = s /\ q.pc = "relink" /\ q.got = {} /\ q.found = None
  BY DEF Idle
<1>4. MayBegin(r) /\ Set(r, q) /\ last' = [last EXCEPT ![s] = r] /\ UNCHANGED db
  BY DEF Edit
<1> HIDE DEF q
<1> QED BY <1>2, <1>3, <1>4, BeginInv

LEMMA WriteStatusInv ==
  ASSUME IInv, NEW r \in Requests, WriteStatus(r)
  PROVE  IInv'
<1> DEFINE q == [req[r] EXCEPT !.pc = IF req[r].kind = "approved" THEN "gather" ELSE "find"]
<1>1. req[r].pc = "write" /\ req[r].kind \in Decisions
  BY DEF WriteStatus, At, IInv, SessionInv, Control
<1>2. q \in Request /\ Onward(r, q)
  BY <1>1, Fields DEF Request, Labels, Onward, AtRest, AfterRead
<1>3. Set(r, q) /\ session' = session
  BY DEF WriteStatus, Goto
<1>4. req' \in [Requests -> Request] /\ SessionInv'
  BY <1>1, <1>2, <1>3, OnwardKeeps DEF AtRest, AfterRead
<1>5. TypeOK'
  BY <1>1, <1>4 DEF IInv, TypeOK, WriteStatus
<1> QED BY <1>4, <1>5 DEF IInv

LEMMA GatheredRequest ==
  ASSUME NEW p \in Request, p.pc = "gather"
  PROVE  /\ Gathered(p) \in Request
         /\ Gathered(p).pc \in {"gather", "session", "held"}
         /\ Gathered(p).sub = p.sub /\ Gathered(p).found = p.found
         /\ Gathered(p).got = p.got
         /\ Gathered(p).pc # "gather" => "session" \in p.got
<1>1. CASE p.got # {"speakers", "session"}
  BY <1>1 DEF Gathered
<1>2. CASE p.got = {"speakers", "session"}
  <2>1. p.people \X {"tasks"} \in SUBSET Survey
    BY DEF Request, Survey
  <2>2. Gathered(p) = [p EXCEPT !.pc = IF p.people = {} THEN "session" ELSE "held",
                                !.todo = p.people \X {"tasks"}]
    BY <1>2 DEF Gathered
  <2>3. Gathered(p) \in Request
    BY <2>1, <2>2, ZenonT(60) DEF Request, Labels
  <2> QED BY <1>2, <2>2, <2>3 DEF Request
<1> QED BY <1>1, <1>2

LEMMA ReadSpeakersInv ==
  ASSUME IInv, NEW r \in Requests, ReadSpeakers(r)
  PROVE  IInv'
<1> DEFINE p == [req[r] EXCEPT !.got = @ \cup {"speakers"}, !.people = links[req[r].sub]]
           q == Gathered(p)
<1>1. req[r].pc = "gather"
  BY DEF ReadSpeakers, At
<1>2. links[req[r].sub] \in SUBSET Speakers
  BY <1>1, Fields DEF IInv, TypeOK, AtRest, AfterRead
<1>3. /\ p \in Request /\ p.pc = "gather" /\ p.sub = req[r].sub /\ p.found = req[r].found
      /\ p.got = req[r].got \cup {"speakers"}
  BY <1>1, <1>2, Fields, ZenonT(60) DEF Request
<1>4. Set(r, q) /\ UNCHANGED <<db, last>>
  BY DEF ReadSpeakers
<1> HIDE DEF p
<1>5. /\ q \in Request /\ q.pc \in {"gather", "session", "held"}
      /\ q.sub = req[r].sub /\ q.found = req[r].found
      /\ q.got = req[r].got \cup {"speakers"}
      /\ q.pc \in AfterRead => "session" \in q.got
  BY <1>3, GatheredRequest DEF AfterRead
<1> HIDE DEF q
<1>6. Onward(r, q)
  BY <1>5 DEF Onward, AtRest, AfterRead
<1>7. req' \in [Requests -> Request] /\ SessionInv'
  BY <1>1, <1>4, <1>6, OnwardKeeps DEF AtRest, AfterRead, db
<1> QED BY <1>4, <1>7 DEF IInv, TypeOK, db

LEMMA ReadSessionInv ==
  ASSUME IInv, NEW r \in Requests, ReadSession(r)
  PROVE  IInv'
<1>1. req[r].pc = "gather"
  BY DEF ReadSession, At
<1>2. PICK c \in Creators \cup {None} :
        /\ FindsSession(r, c)
        /\ Set(r, Gathered([req[r] EXCEPT !.got = @ \cup {"session"},
                                          !.found = c, !.seen = StatusOf(r, c)]))
  BY DEF ReadSession
<1> DEFINE p == [req[r] EXCEPT !.got = @ \cup {"session"}, !.found = c, !.seen = StatusOf(r, c)]
           q == Gathered(p)
<1>3. StatusOf(r, c) \in {"none", "confirmed", "cancelled"}
  BY <1>1, Fields DEF IInv, TypeOK, AtRest, AfterRead, StatusOf, SessionKeys
<1>4. /\ p \in Request /\ p.pc = "gather" /\ p.sub = req[r].sub /\ p.found = c
      /\ p.got = req[r].got \cup {"session"}
  BY <1>1, <1>3, Fields, ZenonT(60) DEF Request
<1>5. Reads(r, c, q)
  BY <1>4, GatheredRequest DEF Reads, AtRest, AfterRead
<1>6. UNCHANGED <<db, last>>
  BY DEF ReadSession
<1>7. req' \in [Requests -> Request] /\ SessionInv'
  BY <1>1, <1>2, <1>5, <1>6, ReadKeeps DEF AtRest, AfterRead, db
<1> QED BY <1>6, <1>7 DEF IInv, TypeOK, db

LEMMA GotoOnward ==
  ASSUME IInv, NEW r \in Requests, NEW label \in Labels \ (AtRest \cup {"write"}),
         label \in AfterRead => "session" \in req[r].got
  PROVE  Onward(r, [req[r] EXCEPT !.pc = label])
<1>1. req[r] \in Request
  BY Fields
<1>2. /\ [req[r] EXCEPT !.pc = label] \in Request
      /\ [req[r] EXCEPT !.pc = label].pc = label
  BY <1>1 DEF Request
<1> QED BY <1>1, <1>2 DEF Onward, Request

LEMMA ReadHeldInv ==
  ASSUME IInv, NEW r \in Requests, ReadHeld(r)
  PROVE  IInv'
<1>1. req[r].pc = "held" /\ "session" \in req[r].got
  BY DEF ReadHeld, At, IInv, SessionInv, Control, AfterRead
<1>2. PICK x \in req[r].todo :
        Set(r, [req[r] EXCEPT
                  !.missing = req[r].missing \cup MissingOf(x[1]),
                  !.todo = req[r].todo \ {x},
                  !.pc = IF req[r].todo \ {x} # {} THEN "held"
                         ELSE IF req[r].kind = "edit"
                              THEN AfterTasks(req[r].missing \cup MissingOf(x[1]))
                         ELSE "session"])
  BY DEF ReadHeld
<1> DEFINE label == IF req[r].todo \ {x} # {} THEN "held"
                    ELSE IF req[r].kind = "edit"
                         THEN AfterTasks(req[r].missing \cup MissingOf(x[1]))
                    ELSE "session"
           missing == req[r].missing \cup MissingOf(x[1])
           todo == req[r].todo \ {x}
           q == [req[r] EXCEPT !.missing = missing, !.todo = todo, !.pc = label]
<1>3. label \in {"held", "mail", "tasks", "session"}
  BY DEF AfterTasks
<1>4. missing \in SUBSET Pairs
  BY Fields DEF MissingOf
<1>5. todo \in SUBSET Survey
  BY Fields
<1>6. Set(r, q)
  BY <1>2
<1> HIDE DEF label, missing, todo
<1>7. req[r] \in Request
  BY Fields
<1>8. /\ q \in Request /\ q.pc = label
      /\ q.sub = req[r].sub /\ q.found = req[r].found /\ q.got = req[r].got
  BY <1>3, <1>4, <1>5, <1>7, ZenonT(60) DEF Request, Labels
<1>9. Onward(r, q)
  BY <1>1, <1>3, <1>8 DEF Onward, AtRest, AfterRead
<1>10. UNCHANGED <<db, last>>
  BY DEF ReadHeld
<1> HIDE DEF q
<1>11. req' \in [Requests -> Request] /\ SessionInv'
  BY <1>1, <1>6, <1>9, <1>10, OnwardKeeps DEF AtRest, db
<1> QED BY <1>10, <1>11 DEF IInv, TypeOK, db

(* The one step that creates a session: none was found, so the proposal was *)
(* not converted before the requests started.                               *)
LEMMA CreateSessionInv ==
  ASSUME IInv, NEW r \in Requests, CreateSession(r)
  PROVE  IInv'
<1> DEFINE label == AfterSession(req[r])
           q == [req[r] EXCEPT !.found = r, !.pc = label]
<1>1. /\ req[r].pc = "session" /\ "session" \in req[r].got /\ req[r].found = None
      /\ req[r].sub \in Submissions
  BY DEF CreateSession, At, IInv, SessionInv, Control, AfterRead, AtRest
<1>2. label \in {"mail", "tasks", "clear"}
  BY DEF AfterSession, AfterTasks
<1>4. Set(r, q) /\ session' = [session EXCEPT ![<<req[r].sub, r>>] = "confirmed"]
  BY DEF CreateSession
<1> HIDE DEF label
<1>3. /\ q \in Request /\ q.pc \in {"mail", "tasks", "clear"} /\ q.sub = req[r].sub
      /\ q.found = r /\ q.got = req[r].got
  <2>1. req[r] \in Request /\ r \in Creators
    BY Fields DEF Creators
  <2> QED BY <1>2, <2>1, ZenonT(60) DEF Request, Labels
<1> HIDE DEF q
<1>5. /\ req' \in [Requests -> Request] /\ req'[r] = q
      /\ \A o \in Requests \ {r} : req'[o] = req[o]
  BY <1>3, <1>4, SetRequest DEF IInv, TypeOK
<1>6. r # Original /\ r # None /\ r \in Creators
  BY ConstantsOK DEF Creators
<1>7. session[<<req[r].sub, Original>>] = "none"
  BY <1>1 DEF IInv, SessionInv, NoneMeansNone, AtRest
<1>8. /\ session' \in [SessionKeys -> {"none", "confirmed", "cancelled"}]
      /\ session'[<<req[r].sub, r>>] = "confirmed"
      /\ \A k \in SessionKeys \ {<<req[r].sub, r>>} : session'[k] = session[k]
  BY <1>1, <1>4, <1>6 DEF IInv, TypeOK, SessionKeys
<1>9. TypeOK'
  BY <1>5, <1>8 DEF IInv, TypeOK, CreateSession
<1>10. Control'
  BY <1>1, <1>3, <1>5 DEF IInv, SessionInv, Control, AtRest, AfterRead
<1>11. FoundExists'
  <2> SUFFICES ASSUME NEW o \in Requests, req'[o].pc \notin AtRest, req'[o].found # None
               PROVE  session'[<<req'[o].sub, req'[o].found>>] # "none"
    BY DEF FoundExists
  <2>1. CASE o = r
    BY <2>1, <1>3, <1>5, <1>8
  <2>2. CASE o # r
    <3>1. req'[o] = req[o] /\ session[<<req[o].sub, req[o].found>>] # "none"
      BY <2>2, <1>5 DEF IInv, SessionInv, FoundExists
    <3>2. <<req[o].sub, req[o].found>> \in SessionKeys
      BY <3>1, Fields DEF SessionKeys
    <3> QED BY <3>1, <3>2, <1>8
  <2> QED BY <2>1, <2>2
<1>12. NoneMeansNone'
  <2> SUFFICES ASSUME NEW o \in Requests, req'[o].pc \notin AtRest,
                      "session" \in req'[o].got, req'[o].found = None
               PROVE  session'[<<req'[o].sub, Original>>] = "none"
    BY DEF NoneMeansNone
  <2>1. o # r
    BY <1>3, <1>5, <1>6
  <2>2. req'[o] = req[o] /\ session[<<req[o].sub, Original>>] = "none"
    BY <2>1, <1>5 DEF IInv, SessionInv, NoneMeansNone
  <2>3. <<req[o].sub, Original>> \in SessionKeys \ {<<req[r].sub, r>>}
    BY <2>2, <1>6, Fields DEF SessionKeys, Creators
  <2> QED BY <2>2, <2>3, <1>8
<1>13. ConvertedOnce'
  <2> SUFFICES ASSUME NEW s \in Submissions, session'[<<s, Original>>] # "none"
               PROVE  Fresh(s)' = {Original}
    BY DEF ConvertedOnce
  <2>1. \A c \in Creators : <<s, c>> \in SessionKeys
    BY DEF SessionKeys
  <2>2. <<s, Original>> # <<req[r].sub, r>> /\ session'[<<s, Original>>] = session[<<s, Original>>]
    BY <2>1, <1>6, <1>8 DEF Creators
  <2>3. s # req[r].sub
    BY <2>2, <1>7
  <2>4. \A c \in Creators : session'[<<s, c>>] = session[<<s, c>>]
    BY <2>1, <2>3, <1>8
  <2>5. Fresh(s) = {Original}
    BY <2>2 DEF IInv, SessionInv, ConvertedOnce
  <2> QED BY <2>4, <2>5 DEF Fresh
<1>14. SerialInv'
  <2> SUFFICES ASSUME Serial PROVE (Alone /\ NoneMeansFresh /\ OneSession)'
    BY DEF SerialInv
  <2>1. Alone /\ NoneMeansFresh /\ OneSession
    BY DEF IInv, SessionInv, SerialInv
  <2>2. Alone'
    BY <1>1, <1>5, <2>1 DEF Alone, AtRest
  <2>3. NoneMeansFresh'
    BY <1>1, <1>3, <1>5, <1>6, <2>1 DEF Alone, NoneMeansFresh, AtRest
  <2>4. Fresh(req[r].sub) = {}
    BY <1>1, <2>1 DEF NoneMeansFresh, AtRest
  <2>5. ASSUME NEW s \in Submissions, NEW c \in Creators, NEW e \in Creators,
               session'[<<s, c>>] # "none", session'[<<s, e>>] # "none"
        PROVE  c = e
    <3>1. <<s, c>> \in SessionKeys /\ <<s, e>> \in SessionKeys
      BY DEF SessionKeys
    <3>2. CASE s = req[r].sub
      BY <1>8, <2>4, <2>5, <3>1, <3>2 DEF Fresh
    <3>3. CASE s # req[r].sub
      BY <1>8, <2>1, <2>5, <3>1, <3>3 DEF OneSession, Fresh
    <3> QED BY <3>2, <3>3
  <2>6. OneSession'
    BY <2>5 DEF OneSession, Fresh
  <2> QED BY <2>2, <2>3, <2>6
<1> QED BY <1>9, <1>10, <1>11, <1>12, <1>13, <1>14 DEF IInv, SessionInv

(* The two steps that write the status of a session that was found *)
LEMMA OverwriteInv ==
  ASSUME IInv, NEW r \in Requests, req[r].pc \notin AtRest, req[r].found # None,
         NEW label \in Labels \ (AtRest \cup {"write"}), Goto(r, label),
         label \in AfterRead => "session" \in req[r].got,
         NEW st \in {"confirmed", "cancelled"},
         session' = [session EXCEPT ![<<req[r].sub, req[r].found>>] = st],
         UNCHANGED <<status, links, roster, held, last>>
  PROVE  IInv'
<1> DEFINE q == [req[r] EXCEPT !.pc = label]
           k == <<req[r].sub, req[r].found>>
<1>1. Onward(r, q) /\ Set(r, q)
  BY GotoOnward DEF Goto
<1> HIDE DEF q
<1>2. /\ req' \in [Requests -> Request] /\ req'[r] = q
      /\ \A o \in Requests \ {r} : req'[o] = req[o]
  BY <1>1, SetRequest DEF IInv, TypeOK, Onward
<1>3. k \in SessionKeys /\ session[k] # "none"
  BY Fields DEF IInv, SessionInv, FoundExists, SessionKeys
<1>4. session' = [session EXCEPT ![k] = st]
  OBVIOUS
<1> HIDE DEF k
<1>5. /\ session' \in [SessionKeys -> {"none", "confirmed", "cancelled"}]
      /\ \A j \in SessionKeys : session'[j] = "none" <=> session[j] = "none"
  BY <1>3, <1>4, ZenonT(60) DEF IInv, TypeOK
<1>6. \A o \in Requests : req'[o].pc \notin AtRest =>
        /\ req'[o].sub = req[o].sub /\ req'[o].found = req[o].found
        /\ req[o].pc \notin AtRest
        /\ "session" \in req'[o].got => "session" \in req[o].got
        /\ req[o].sub \in Submissions
        /\ req[o].found \in Creators \cup {None}
  BY <1>1, <1>2, Fields DEF Onward
<1>7. TypeOK'
  BY <1>2, <1>5 DEF IInv, TypeOK
<1>8. Control'
  BY <1>1, <1>2 DEF IInv, SessionInv, Control, Onward, AtRest, AfterRead
<1>9. FoundExists'
  BY <1>5, <1>6 DEF IInv, SessionInv, FoundExists, SessionKeys
<1>10. NoneMeansNone'
  BY <1>5, <1>6 DEF IInv, SessionInv, NoneMeansNone, SessionKeys, Creators
<1>11. ConvertedOnce'
  BY <1>5 DEF IInv, SessionInv, ConvertedOnce, Fresh, SessionKeys, Creators
<1>12. SerialInv'
  <2>1. \A s \in Submissions : Fresh(s)' = Fresh(s)
    BY <1>5 DEF Fresh, SessionKeys
  <2>2. Serial => Alone'
    BY <1>6 DEF IInv, SessionInv, SerialInv, Alone
  <2>3. Serial => NoneMeansFresh'
    BY <1>6, <2>1 DEF IInv, SessionInv, SerialInv, NoneMeansFresh
  <2>4. Serial => OneSession'
    BY <2>1 DEF IInv, SessionInv, SerialInv, OneSession
  <2> QED BY <2>2, <2>3, <2>4 DEF SerialInv
<1> QED BY <1>7, <1>8, <1>9, <1>10, <1>11, <1>12 DEF IInv, SessionInv

(* A step that moves on and leaves the sessions alone *)
LEMMA MoveInv ==
  ASSUME IInv, NEW r \in Requests, req[r].pc \notin AtRest,
         NEW q, Onward(r, q), Set(r, q), UNCHANGED <<session, last>>,
         status' = status, links' \in [Submissions -> SUBSET Speakers],
         roster' \in [SessionKeys -> SUBSET Speakers],
         held' \in [Pairs -> Row \cup {NoRow}]
  PROVE  IInv'
<1>1. req' \in [Requests -> Request] /\ SessionInv'
  BY OnwardKeeps
<1> QED BY <1>1 DEF IInv, TypeOK

LEMMA RepairSessionInv ==
  ASSUME IInv, NEW r \in Requests, RepairSession(r)
  PROVE  IInv'
<1>1. /\ req[r].pc = "session" /\ "session" \in req[r].got /\ req[r].found # None
      /\ Goto(r, AfterSession(req[r])) /\ UNCHANGED <<status, links, roster, held, last>>
  BY DEF RepairSession, At, IInv, SessionInv, Control, AfterRead
<1>2. AfterSession(req[r]) \in {"mail", "tasks", "clear"}
  BY DEF AfterSession, AfterTasks
<1>3. AfterSession(req[r]) \in Labels \ (AtRest \cup {"write"})
  BY <1>2 DEF Labels, AtRest
<1>4. CASE req[r].seen = "confirmed"
  <2>1. session' = session
    BY <1>4 DEF RepairSession
  <2>2. Onward(r, [req[r] EXCEPT !.pc = AfterSession(req[r])])
    BY <1>1, <1>3, GotoOnward
  <2> QED BY <1>1, <2>1, <2>2, MoveInv DEF Goto, AtRest, IInv, TypeOK
<1>5. CASE req[r].seen # "confirmed"
  <2>1. session' = [session EXCEPT ![<<req[r].sub, req[r].found>>] = "confirmed"]
    BY <1>5 DEF RepairSession
  <2> QED BY <1>1, <1>3, <2>1, OverwriteInv DEF AtRest
<1> QED BY <1>4, <1>5

LEMMA CancelSessionInv ==
  ASSUME IInv, NEW r \in Requests, CancelSession(r)
  PROVE  IInv'
<1>1. /\ req[r].pc = "cancel" /\ Goto(r, "people")
      /\ UNCHANGED <<status, links, roster, held, last>>
  BY DEF CancelSession, At
<1>2. Onward(r, [req[r] EXCEPT !.pc = "people"])
  BY GotoOnward DEF Labels, AtRest, AfterRead
<1>3. CASE session' = session
  BY <1>1, <1>2, <1>3, MoveInv DEF Goto, AtRest, IInv, TypeOK
<1>4. CASE session' = [session EXCEPT ![<<req[r].sub, req[r].found>>] = "cancelled"]
  <2>1. CASE req[r].found = None
    <3>1. <<req[r].sub, req[r].found>> \notin SessionKeys
      BY <2>1, ConstantsOK DEF SessionKeys, Creators
    <3>2. session' = session
      BY <1>4, <3>1 DEF IInv, TypeOK
    <3> QED BY <3>2, <1>3
  <2>2. CASE req[r].found # None
    BY <1>1, <1>4, <2>2, OverwriteInv DEF Labels, AtRest, AfterRead
  <2> QED BY <2>1, <2>2
<1> QED BY <1>3, <1>4 DEF CancelSession

LEMMA ClearRosterInv ==
  ASSUME IInv, NEW r \in Requests, ClearRoster(r)
  PROVE  IInv'
<1>1. req[r].pc = "clear" /\ "session" \in req[r].got
  BY DEF ClearRoster, At, IInv, SessionInv, Control, AfterRead
<1>2. Onward(r, [req[r] EXCEPT !.pc = "fill"])
  BY <1>1, GotoOnward DEF Labels, AtRest
<1>3. roster' \in [SessionKeys -> SUBSET Speakers]
  BY DEF ClearRoster, IInv, TypeOK
<1> QED BY <1>1, <1>2, <1>3, MoveInv DEF ClearRoster, Goto, AtRest, IInv, TypeOK

LEMMA FillRosterInv ==
  ASSUME IInv, NEW r \in Requests, FillRoster(r)
  PROVE  IInv'
<1> DEFINE label == AfterFill(req[r])
           todo == IF req[r].kind = "edit" THEN req[r].people \X {"tasks"} ELSE {}
           q == [req[r] EXCEPT !.pc = label, !.todo = todo]
<1>1. req[r].pc = "fill" /\ "session" \in req[r].got
  BY DEF FillRoster, At, IInv, SessionInv, Control, AfterRead
<1>2. label \in {"mail", "tasks", "held"}
  BY DEF AfterFill, AfterTasks
<1>3. todo \in SUBSET Survey
  BY Fields DEF Survey
<1>4. Set(r, q)
  BY DEF FillRoster
<1>5. roster' \in [SessionKeys -> SUBSET Speakers]
  BY Fields DEF FillRoster, IInv, TypeOK
<1> HIDE DEF label, todo
<1>6. req[r] \in Request
  BY Fields
<1>7. /\ q \in Request /\ q.pc = label /\ q.sub = req[r].sub
      /\ q.found = req[r].found /\ q.got = req[r].got
  BY <1>2, <1>3, <1>6, ZenonT(60) DEF Request, Labels
<1> HIDE DEF q
<1>8. Onward(r, q)
  BY <1>1, <1>2, <1>7 DEF Onward, AtRest
<1> QED BY <1>1, <1>4, <1>5, <1>8, MoveInv DEF FillRoster, AtRest, IInv, TypeOK

LEMMA CreateTaskInv ==
  ASSUME IInv, NEW r \in Requests, CreateTask(r)
  PROVE  IInv'
<1>1. req[r].pc = "tasks" /\ "session" \in req[r].got
  BY DEF CreateTask, At, IInv, SessionInv, Control, AfterRead
<1>2. PICK x \in req[r].missing :
        IF held[x] = NoRow
        THEN /\ held' = [held EXCEPT ![x] = [by |-> r, st |-> "pending"]]
             /\ Set(r, [req[r] EXCEPT !.missing = @ \ {x},
                                      !.pc = AfterTasks(req[r].missing \ {x})])
        ELSE held' = held /\ End(r, "failed")
  BY DEF CreateTask
<1>3. UNCHANGED <<status, links, session, roster, last>>
  BY DEF CreateTask
<1>4. CASE held[x] = NoRow
  <2> DEFINE missing == req[r].missing \ {x}
             label == AfterTasks(missing)
             q == [req[r] EXCEPT !.missing = missing, !.pc = label]
  <2>1. label \in {"mail", "tasks"} /\ missing \in SUBSET Pairs
    BY Fields DEF AfterTasks
  <2>2. Set(r, q) /\ held' = [held EXCEPT ![x] = [by |-> r, st |-> "pending"]]
    BY <1>2, <1>4
  <2>3. held' \in [Pairs -> Row \cup {NoRow}]
    BY <2>2 DEF IInv, TypeOK, Row, Creators
  <2> HIDE DEF label, missing
  <2>4. req[r] \in Request
    BY Fields
  <2>5. /\ q \in Request /\ q.pc = label /\ q.sub = req[r].sub
        /\ q.found = req[r].found /\ q.got = req[r].got
    BY <2>1, <2>4, ZenonT(60) DEF Request, Labels
  <2> HIDE DEF q
  <2>6. Onward(r, q)
    BY <1>1, <2>1, <2>5 DEF Onward, AtRest
  <2> QED BY <1>1, <1>3, <2>2, <2>3, <2>6, MoveInv DEF AtRest, IInv, TypeOK
<1>5. CASE held[x] # NoRow
  BY <1>2, <1>3, <1>5, EndKeeps DEF IInv, TypeOK
<1> QED BY <1>4, <1>5

LEMMA FindSessionInv ==
  ASSUME IInv, NEW r \in Requests, FindSession(r)
  PROVE  IInv'
<1>1. req[r].pc = "find"
  BY DEF FindSession, At
<1>2. PICK c \in Creators \cup {None} :
        /\ FindsSession(r, c)
        /\ Set(r, [req[r] EXCEPT
                     !.found = c, !.seen = StatusOf(r, c),
                     !.pc = IF CancelsSession(req[r]) THEN "cancel" ELSE "mail"])
  BY DEF FindSession
<1> DEFINE seen == StatusOf(r, c)
           label == IF CancelsSession(req[r]) THEN "cancel" ELSE "mail"
           q == [req[r] EXCEPT !.found = c, !.seen = seen, !.pc = label]
<1>3. seen \in {"none", "confirmed", "cancelled"}
  BY <1>1, Fields DEF IInv, TypeOK, AtRest, StatusOf, SessionKeys
<1>4. label \in {"cancel", "mail"} /\ label \in Labels
  BY DEF Labels
<1>5. Set(r, q) /\ FindsSession(r, c)
  BY <1>2
<1> HIDE DEF seen, label
<1>6. req[r] \in Request
  BY Fields
<1>7. q \in Request /\ q.pc = label /\ q.sub = req[r].sub /\ q.found = c
  BY <1>3, <1>4, <1>6 DEF Request
<1> HIDE DEF q
<1>8. Reads(r, c, q)
  BY <1>4, <1>7 DEF Reads, AtRest, AfterRead
<1>9. UNCHANGED <<db, last>>
  BY DEF FindSession
<1>10. req' \in [Requests -> Request] /\ SessionInv'
  BY <1>1, <1>5, <1>8, <1>9, ReadKeeps DEF AtRest, db
<1> QED BY <1>9, <1>10 DEF IInv, TypeOK, db

LEMMA EditReadSessionInv ==
  ASSUME IInv, NEW r \in Requests, EditReadSession(r)
  PROVE  IInv'
<1>1. req[r].pc = "relink"
  BY DEF EditReadSession, At
<1>2. PICK c \in Creators \cup {None} :
        /\ FindsSession(r, c)
        /\ Set(r, [req[r] EXCEPT !.got = {"session"}, !.found = c,
                                 !.seen = StatusOf(r, c)])
  BY DEF EditReadSession
<1> DEFINE seen == StatusOf(r, c)
           got == {"session"}
           q == [req[r] EXCEPT !.got = got, !.found = c, !.seen = seen]
<1>3. seen \in {"none", "confirmed", "cancelled"}
  BY <1>1, Fields DEF IInv, TypeOK, AtRest, StatusOf, SessionKeys
<1>4. Set(r, q) /\ FindsSession(r, c) /\ got \in SUBSET {"speakers", "session"}
  BY <1>2
<1> HIDE DEF seen, got
<1>5. req[r] \in Request
  BY Fields
<1>6. q \in Request /\ q.pc = "relink" /\ q.sub = req[r].sub /\ q.found = c
  BY <1>1, <1>3, <1>4, <1>5 DEF Request
<1> HIDE DEF q
<1>7. Reads(r, c, q)
  BY <1>6 DEF Reads, AtRest, AfterRead
<1>8. UNCHANGED <<db, last>>
  BY DEF EditReadSession
<1>9. req' \in [Requests -> Request] /\ SessionInv'
  BY <1>1, <1>4, <1>7, <1>8, ReadKeeps DEF AtRest, db
<1> QED BY <1>8, <1>9 DEF IInv, TypeOK, db

LEMMA ReadReversedInv ==
  ASSUME IInv, NEW r \in Requests, ReadReversed(r)
  PROVE  IInv'
<1> DEFINE people == links[req[r].sub]
           todo == people \X {"tasks", "sessions"}
           label == IF people = {} THEN "mail" ELSE "survey"
           q == [req[r] EXCEPT !.people = people, !.todo = todo, !.pc = label]
<1>1. req[r].pc = "people"
  BY DEF ReadReversed, At
<1>2. people \in SUBSET Speakers
  BY <1>1, Fields DEF IInv, TypeOK, AtRest
<1>3. todo \in SUBSET Survey /\ label \in {"mail", "survey"}
  BY <1>2 DEF Survey
<1>4. Set(r, q) /\ UNCHANGED <<db, last>>
  BY DEF ReadReversed
<1> HIDE DEF people, todo, label
<1>5. req[r] \in Request
  BY Fields
<1>6. /\ q \in Request /\ q.pc = label /\ q.sub = req[r].sub
      /\ q.found = req[r].found /\ q.got = req[r].got
  BY <1>2, <1>3, <1>5, ZenonT(60) DEF Request, Labels
<1> HIDE DEF q
<1>7. Onward(r, q)
  BY <1>3, <1>6 DEF Onward, AtRest, AfterRead
<1> QED BY <1>1, <1>4, <1>7, MoveInv DEF db, AtRest, IInv, TypeOK

LEMMA SurveyedRequest ==
  ASSUME NEW p \in Request, p.pc = "survey"
  PROVE  /\ Surveyed(p) \in Request
         /\ Surveyed(p).pc \in {"survey", "mail", "withdraw"}
         /\ Surveyed(p).sub = p.sub /\ Surveyed(p).found = p.found
         /\ Surveyed(p).got = p.got
<1>1. CASE p.todo # {}
  BY <1>1 DEF Surveyed
<1>2. CASE p.todo = {}
  <2> DEFINE plan == {d \in p.doomed : d[2] \notin p.booked}
             label == AfterDoomed(plan)
  <2>1. plan \in SUBSET Doomed /\ label \in {"mail", "withdraw"}
    BY DEF Request, AfterDoomed
  <2>2. Surveyed(p) = [p EXCEPT !.doomed = plan, !.pc = label]
    BY <1>2 DEF Surveyed
  <2> HIDE DEF plan, label
  <2>3. Surveyed(p) \in Request
    BY <2>1, <2>2 DEF Request, Labels
  <2> QED BY <2>1, <2>2, <2>3 DEF Request
<1> QED BY <1>1, <1>2

(* A read of the survey, whatever it adds to what is already known *)
LEMMA SurveyInv ==
  ASSUME IInv, NEW r \in Requests, req[r].pc = "survey",
         NEW todo \in SUBSET Survey, NEW doomed \in SUBSET Doomed,
         NEW booked \in SUBSET Speakers,
         Set(r, Surveyed([req[r] EXCEPT !.todo = todo, !.doomed = doomed, !.booked = booked])),
         UNCHANGED <<db, last>>
  PROVE  IInv'
<1> DEFINE p == [req[r] EXCEPT !.todo = todo, !.doomed = doomed, !.booked = booked]
           q == Surveyed(p)
<1>1. req[r] \in Request
  BY Fields
<1>2. /\ p \in Request /\ p.pc = "survey" /\ p.sub = req[r].sub
      /\ p.found = req[r].found /\ p.got = req[r].got
  BY <1>1 DEF Request
<1>3. Set(r, q)
  OBVIOUS
<1> HIDE DEF p
<1>4. Onward(r, q)
  BY <1>2, SurveyedRequest DEF Onward, AtRest, AfterRead
<1> HIDE DEF q
<1> QED BY <1>3, <1>4, MoveInv DEF db, AtRest, IInv, TypeOK

LEMMA SurveyTasksInv ==
  ASSUME IInv, NEW r \in Requests, SurveyTasks(r)
  PROVE  IInv'
<1>1. PICK p \in Speakers :
        Set(r, Surveyed([req[r] EXCEPT !.todo = @ \ {<<p, "tasks">>},
                                       !.doomed = @ \cup PendingOf(p)]))
  BY DEF SurveyTasks
<1>2. [req[r] EXCEPT !.todo = @ \ {<<p, "tasks">>}, !.doomed = @ \cup PendingOf(p)]
        = [req[r] EXCEPT !.todo = req[r].todo \ {<<p, "tasks">>},
                         !.doomed = req[r].doomed \cup PendingOf(p),
                         !.booked = req[r].booked]
  BY Fields DEF Request
<1>3. /\ req[r].pc = "survey" /\ UNCHANGED <<db, last>>
      /\ req[r].todo \ {<<p, "tasks">>} \in SUBSET Survey
      /\ req[r].doomed \cup PendingOf(p) \in SUBSET Doomed
      /\ req[r].booked \in SUBSET Speakers
  BY Fields DEF SurveyTasks, At, PendingOf
<1>4. Set(r, Surveyed([req[r] EXCEPT !.todo = req[r].todo \ {<<p, "tasks">>},
                                    !.doomed = req[r].doomed \cup PendingOf(p),
                                    !.booked = req[r].booked]))
  BY <1>1, <1>2
<1> QED BY <1>3, <1>4, SurveyInv

LEMMA SurveySessionsInv ==
  ASSUME IInv, NEW r \in Requests, SurveySessions(r)
  PROVE  IInv'
<1>1. PICK p \in Speakers :
        Set(r, Surveyed([req[r] EXCEPT
                           !.todo = @ \ {<<p, "sessions">>},
                           !.booked = IF BookedElsewhere(r, p) THEN @ \cup {p} ELSE @]))
  BY DEF SurveySessions
<1> DEFINE booked == IF BookedElsewhere(r, p) THEN req[r].booked \cup {p} ELSE req[r].booked
<1>2. [req[r] EXCEPT !.todo = @ \ {<<p, "sessions">>},
                     !.booked = IF BookedElsewhere(r, p) THEN @ \cup {p} ELSE @]
        = [req[r] EXCEPT !.todo = req[r].todo \ {<<p, "sessions">>},
                         !.doomed = req[r].doomed, !.booked = booked]
  BY Fields DEF Request
<1>3. /\ req[r].pc = "survey" /\ UNCHANGED <<db, last>>
      /\ req[r].todo \ {<<p, "sessions">>} \in SUBSET Survey
      /\ req[r].doomed \in SUBSET Doomed
      /\ booked \in SUBSET Speakers
  BY Fields DEF SurveySessions, At
<1>4. Set(r, Surveyed([req[r] EXCEPT !.todo = req[r].todo \ {<<p, "sessions">>},
                                    !.doomed = req[r].doomed, !.booked = booked]))
  BY <1>1, <1>2
<1> QED BY <1>3, <1>4, SurveyInv

LEMMA WithdrawInv ==
  ASSUME IInv, NEW r \in Requests, Withdraw(r)
  PROVE  IInv'
<1>1. PICK d \in req[r].doomed :
        /\ held' = IF held[<<d[1], d[2]>>].by = d[3]
                   THEN [held EXCEPT ![<<d[1], d[2]>>] = NoRow] ELSE held
        /\ Set(r, [req[r] EXCEPT !.doomed = @ \ {d},
                                 !.pc = AfterDoomed(req[r].doomed \ {d})])
  BY DEF Withdraw
<1> DEFINE doomed == req[r].doomed \ {d}
           label == AfterDoomed(doomed)
           q == [req[r] EXCEPT !.doomed = doomed, !.pc = label]
<1>2. req[r].pc = "withdraw" /\ UNCHANGED <<status, links, session, roster, last>>
  BY DEF Withdraw, At
<1>3. doomed \in SUBSET Doomed /\ label \in {"mail", "withdraw"}
  BY Fields DEF AfterDoomed
<1>4. held' \in [Pairs -> Row \cup {NoRow}]
  BY <1>1 DEF IInv, TypeOK
<1>5. Set(r, q)
  BY <1>1
<1> HIDE DEF doomed, label
<1>6. req[r] \in Request
  BY Fields
<1>7. /\ q \in Request /\ q.pc = label /\ q.sub = req[r].sub
      /\ q.found = req[r].found /\ q.got = req[r].got
  BY <1>3, <1>6, ZenonT(60) DEF Request, Labels
<1> HIDE DEF q
<1>8. Onward(r, q)
  BY <1>3, <1>7 DEF Onward, AtRest, AfterRead
<1> QED BY <1>2, <1>4, <1>5, <1>8, MoveInv DEF AtRest, IInv, TypeOK

LEMMA UnlinkedRequest ==
  ASSUME NEW p \in Request
  PROVE  /\ Unlinked(p) \in Request
         /\ Unlinked(p).pc \in {"add", "drop"}
         /\ Unlinked(p).sub = p.sub /\ Unlinked(p).found = p.found
         /\ Unlinked(p).got = p.got
<1>1. p.people \in SUBSET Speakers
  BY DEF Request
<1> QED BY <1>1, ZenonT(60) DEF Unlinked, Request, Labels

LEMMA LinkedRequest ==
  ASSUME NEW p \in Request, p.pc = "add"
  PROVE  /\ Linked(p) \in Request
         /\ Linked(p).pc \in {"add", "mail", "clear"}
         /\ Linked(p).sub = p.sub /\ Linked(p).found = p.found
         /\ Linked(p).got = p.got
  BY DEF Linked, Request, Labels

LEMMA EditReadLinksInv ==
  ASSUME IInv, NEW r \in Requests, EditReadLinks(r)
  PROVE  IInv'
<1> DEFINE rest == links[req[r].sub] \ req[r].people
           p == [req[r] EXCEPT !.rest = rest]
           q == Unlinked(p)
<1>1. req[r].pc = "relink" /\ "session" \in req[r].got /\ Set(r, q) /\ UNCHANGED <<db, last>>
  BY DEF EditReadLinks, At
<1>2. rest \in SUBSET Speakers
  BY <1>1, Fields DEF IInv, TypeOK, AtRest
<1> HIDE DEF rest
<1>3. req[r] \in Request
  BY Fields
<1>4. /\ p \in Request /\ p.sub = req[r].sub /\ p.found = req[r].found
      /\ p.got = req[r].got
  BY <1>2, <1>3 DEF Request
<1> HIDE DEF p
<1>5. Onward(r, q)
  BY <1>1, <1>4, UnlinkedRequest DEF Onward, AtRest
<1> HIDE DEF q
<1> QED BY <1>1, <1>5, MoveInv DEF db, AtRest, IInv, TypeOK

LEMMA EditDropInv ==
  ASSUME IInv, NEW r \in Requests, EditDrop(r)
  PROVE  IInv'
<1>1. PICK x \in req[r].rest :
        /\ links' = [links EXCEPT ![req[r].sub] = @ \ {x}]
        /\ Set(r, Unlinked([req[r] EXCEPT !.rest = @ \ {x}]))
  BY DEF EditDrop
<1> DEFINE rest == req[r].rest \ {x}
           p == [req[r] EXCEPT !.rest = rest]
           q == Unlinked(p)
<1>2. /\ req[r].pc = "drop" /\ "session" \in req[r].got
      /\ UNCHANGED <<status, session, roster, held, last>>
  BY DEF EditDrop, At, IInv, SessionInv, Control, AfterRead
<1>3. Set(r, q) /\ links' \in [Submissions -> SUBSET Speakers]
  BY <1>1 DEF IInv, TypeOK
<1>4. rest \in SUBSET Speakers
  BY Fields
<1> HIDE DEF rest
<1>5. req[r] \in Request
  BY Fields
<1>6. /\ p \in Request /\ p.sub = req[r].sub /\ p.found = req[r].found
      /\ p.got = req[r].got
  BY <1>4, <1>5 DEF Request
<1> HIDE DEF p
<1>7. Onward(r, q)
  BY <1>2, <1>6, UnlinkedRequest DEF Onward, AtRest
<1> HIDE DEF q
<1> QED BY <1>2, <1>3, <1>7, MoveInv DEF AtRest, IInv, TypeOK

LEMMA EditAddInv ==
  ASSUME IInv, NEW r \in Requests, EditAdd(r)
  PROVE  IInv'
<1>1. PICK x \in req[r].rest :
        /\ links' = [links EXCEPT ![req[r].sub] = @ \cup {x}]
        /\ Set(r, Linked([req[r] EXCEPT !.rest = @ \ {x}]))
  BY DEF EditAdd
<1> DEFINE rest == req[r].rest \ {x}
           p == [req[r] EXCEPT !.rest = rest]
           q == Linked(p)
<1>2. /\ req[r].pc = "add" /\ "session" \in req[r].got
      /\ UNCHANGED <<status, session, roster, held, last>>
  BY DEF EditAdd, At, IInv, SessionInv, Control, AfterRead
<1>3. rest \in SUBSET Speakers /\ x \in Speakers
  BY Fields
<1>4. Set(r, q) /\ links' \in [Submissions -> SUBSET Speakers]
  BY <1>1, <1>3 DEF IInv, TypeOK
<1> HIDE DEF rest
<1>5. req[r] \in Request
  BY Fields
<1>6. /\ p \in Request /\ p.pc = "add" /\ p.sub = req[r].sub
      /\ p.found = req[r].found /\ p.got = req[r].got
  BY <1>2, <1>3, <1>5 DEF Request
<1> HIDE DEF p
<1>7. Onward(r, q)
  BY <1>2, <1>6, LinkedRequest DEF Onward, AtRest
<1> HIDE DEF q
<1> QED BY <1>2, <1>4, <1>7, MoveInv DEF AtRest, IInv, TypeOK

LEMMA MailInv ==
  ASSUME IInv, NEW r \in Requests, Mail(r)
  PROVE  IInv'
  BY EndKeeps DEF Mail, db, IInv, TypeOK

LEMMA FailInv ==
  ASSUME IInv, NEW r \in Requests, Fail(r)
  PROVE  IInv'
  BY EndKeeps DEF Fail, db, IInv, TypeOK

LEMMA CompleteInv ==
  ASSUME IInv, NEW x \in Pairs, Complete(x)
  PROVE  IInv'
<1>1. held[x] \in Row
  BY DEF Complete, IInv, TypeOK, NoRow
<1>2. [held[x] EXCEPT !.st = "completed"] \in Row
  BY <1>1 DEF Row
<1>3. held' \in [Pairs -> Row \cup {NoRow}]
  BY <1>2 DEF Complete, IInv, TypeOK
<1> QED
  BY <1>3 DEF Complete, IInv, TypeOK, SessionInv, Control, FoundExists, NoneMeansNone,
              ConvertedOnce, Fresh, SerialInv, Alone, NoneMeansFresh, OneSession

----------------------------------------------------------------------------
(* The theorems *)

LEMMA NextInv == IInv /\ [Next]_vars => IInv'
<1> SUFFICES ASSUME IInv, [Next]_vars PROVE IInv'
  OBVIOUS
<1>1. CASE UNCHANGED vars
  BY <1>1 DEF vars, IInv, TypeOK, SessionInv, Control, FoundExists, NoneMeansNone,
              ConvertedOnce, Fresh, SerialInv, Alone, NoneMeansFresh, OneSession
<1>2. CASE \E r \in Requests, s \in Submissions, d \in Verdicts : Decide(r, s, d)
  BY <1>2, DecideInv
<1>3. CASE \E r \in Requests, s \in Submissions, team \in EditTeams : Edit(r, s, team)
  BY <1>3, EditInv
<1>4. ASSUME NEW r \in Requests, Convert(r) PROVE IInv'
  BY <1>4, ReadSpeakersInv, ReadSessionInv, ReadHeldInv, CreateSessionInv,
     RepairSessionInv, ClearRosterInv, FillRosterInv, CreateTaskInv DEF Convert
<1>5. ASSUME NEW r \in Requests, Reverse(r) PROVE IInv'
  BY <1>5, FindSessionInv, CancelSessionInv, ReadReversedInv, SurveyTasksInv,
     SurveySessionsInv, WithdrawInv DEF Reverse
<1>6. ASSUME NEW r \in Requests, SyncSpeakers(r) PROVE IInv'
  BY <1>6, EditReadSessionInv, EditReadLinksInv, EditDropInv, EditAddInv DEF SyncSpeakers
<1>7. CASE \E r \in Requests : Step(r)
  BY <1>4, <1>5, <1>6, <1>7, WriteStatusInv, MailInv DEF Step
<1>8. CASE \E r \in Requests : Fail(r)
  BY <1>8, FailInv
<1>9. CASE \E x \in Pairs : Complete(x)
  BY <1>9, CompleteInv
<1> QED BY <1>1, <1>2, <1>3, <1>7, <1>8, <1>9 DEF Next

LEMMA SpecInv == Spec => []IInv
<1>1. Init => IInv
  BY InitInv
<1>2. IInv /\ [Next]_vars => IInv'
  BY NextInv
<1> QED BY <1>1, <1>2, PTL DEF Spec

(* Every variable, and every request's own state, keeps to its type: in     *)
(* particular a step never acts on a proposal or a session it has not read  *)
(* (recordDecision in src/domain/review.ts, saveSubmission and syncSpeakers *)
(* in src/domain/submissions.ts).                                           *)
THEOREM TypeCorrect == Spec => []TypeOK
<1>1. IInv => TypeOK
  BY DEF IInv
<1> QED BY <1>1, SpecInv, PTL

(* A proposal already converted when these requests start is never          *)
(* converted again, under any interleaving of any number of decisions,      *)
(* reversals and edits and with failures anywhere (recordDecision in        *)
(* src/domain/review.ts).                                                   *)
THEOREM NeverConvertedAgain == Spec => []ConvertedOnce
<1>1. IInv => ConvertedOnce
  BY DEF IInv, SessionInv
<1> QED BY <1>1, SpecInv, PTL

(* Run one at a time, requests that fail between any two statements still   *)
(* never give a proposal a second session (planAcceptanceConversion and     *)
(* recordDecision in src/domain/review.ts).  Without Serial it is false.    *)
THEOREM OneSessionWhenSerial ==
  ASSUME Serial
  PROVE  Spec => []OneSession
<1>1. IInv => OneSession
  BY DEF IInv, SessionInv, SerialInv
<1> QED BY <1>1, SpecInv, PTL
----------------------------------------------------------------------------
(* What a verdict leaves behind.  Requests run one at a time, failing       *)
(* anywhere.                                                               *)

(* What a request q under way knows, in a state of the statuses, the links, *)
(* the sessions, the rosters and the tasks that are given: which statements *)
(* each kind of request runs ...                                           *)
KindFits(q) ==
  /\ q.pc \in {"gather", "session"} => q.kind = "approved"
  /\ q.pc \in {"relink", "drop", "add"} => q.kind = "edit"
  /\ q.pc \in {"held", "clear", "fill", "tasks"} => q.kind \in {"approved", "edit"}
  /\ q.pc \in {"clear", "fill"} => q.found # None
  /\ q.kind = "edit" /\ q.pc \in {"held", "tasks"} => q.found # None /\ q.seen = "confirmed"
  /\ q.pc = "find" => q.kind \in Decisions \ {"approved"}
  /\ q.pc \in {"cancel", "people", "survey", "withdraw"} => CancelsSession(q)
  /\ q.kind = "edit" => EditTeams # {}

(* ... what it has not read yet, and of whom it has read ...               *)
Unread(q) ==
  /\ q.pc = "write" => q.got = {}
  /\ q.pc \in {"write", "gather", "find", "cancel", "people"} => q.missing = {}
  /\ q.pc \in {"write", "find", "cancel", "people"} => q.booked = {} /\ q.doomed = {}
  /\ q.pc \notin AtRest => \A x \in q.missing : x[2] \in q.people
  /\ q.pc \in {"held", "survey"} => \A x \in q.todo : x[1] \in q.people

(* ... that the status is the one it wrote ...                             *)
KnowsStatus(q, st) ==
  q.pc \notin AtRest \cup {"write"} /\ q.kind # "edit" => st[q.sub] = q.kind

(* ... who is on the proposal ...                                          *)
KnowsPeople(q, l) ==
  /\ /\ q.kind = "approved"
     /\ \/ q.pc \in {"held", "session", "clear", "fill", "tasks", "mail"}
        \/ q.pc = "gather" /\ "speakers" \in q.got
     => q.people = l[q.sub]
  /\ q.kind = "edit" /\ q.pc \in {"clear", "fill", "held", "tasks", "mail"} => q.people = l[q.sub]
  /\ q.pc = "drop" => l[q.sub] \ q.people \subseteq q.rest
  /\ q.pc = "add" => l[q.sub] \cup q.rest = q.people
  /\ CancelsSession(q) /\ q.pc \in {"survey", "withdraw", "mail"} => q.people = l[q.sub]

(* ... how its session stands ...                                          *)
KnowsSession(q, s) ==
  /\ /\ "session" \in q.got
     /\ \/ q.kind = "approved" /\ q.pc \in {"gather", "held", "session"}
        \/ q.kind = "edit" /\ q.pc \notin AtRest
     => q.seen = IF q.found = None THEN "none" ELSE s[<<q.sub, q.found>>]
  /\ q.kind = "edit" /\ q.pc \notin AtRest /\ q.seen # "none" => "session" \in q.got
  /\ q.kind = "approved" /\ q.pc \in {"clear", "fill", "tasks", "mail"} =>
       q.found # None /\ s[<<q.sub, q.found>>] = "confirmed"
  /\ q.pc = "cancel" =>
       /\ q.seen = IF q.found = None THEN "none" ELSE s[<<q.sub, q.found>>]
       /\ q.found = None => \A c \in Creators : s[<<q.sub, c>>] = "none"
  /\ CancelsSession(q) /\ q.pc \in {"people", "survey", "withdraw", "mail"} =>
       \A c \in Creators : s[<<q.sub, c>>] # "confirmed"

(* ... who is on its roster ...                                            *)
KnowsRoster(q, ro) ==
  /\ q.pc = "fill" => ro[<<q.sub, q.found>>] = {}
  /\ q.kind = "approved" /\ q.pc \in {"tasks", "mail"} /\ q.people # {} =>
       ro[<<q.sub, q.found>>] = q.people
  /\ q.kind = "edit" /\ q.found # None /\ q.pc \in {"held", "tasks", "mail"} =>
       ro[<<q.sub, q.found>>] = q.people

(* ... which tasks its speakers still lack ...                             *)
Lacks(q, h) == {x \in Pairs : x[2] \in q.people /\ h[x] = NoRow}
KnowsTasks(q, h) ==
  /\ q.pc = "held" => \A x \in Lacks(q, h) : x \in q.missing \/ <<x[2], "tasks">> \in q.todo
  /\ q.pc = "tasks" \/ (q.kind = "approved" /\ q.pc \in {"session", "clear", "fill"}) =>
       Lacks(q, h) \subseteq q.missing
  /\ q.pc = "mail" /\ \/ q.kind = "approved"
                      \/ q.kind = "edit" /\ q.was = "approved" /\ q.seen = "confirmed"
     => Lacks(q, h) = {}

(* ... and, of a reversal, who speaks elsewhere and what is pending.        *)
Elsewhere(q, p, s, ro) ==
  \E k \in SessionKeys : k # <<q.sub, q.found>> /\ s[k] = "confirmed" /\ p \in ro[k]
Pends(d, h) == h[<<d[1], d[2]>>] = [by |-> d[3], st |-> "pending"]
PendingRows(p, h) == {d \in Doomed : d[2] = p /\ Pends(d, h)}
KnowsReversal(q, s, ro, h) ==
  /\ q.pc = "survey" =>
       /\ \A p \in q.people :
            /\ <<p, "tasks">> \in q.todo \/ PendingRows(p, h) \subseteq q.doomed
            /\ p \in q.booked => Elsewhere(q, p, s, ro)
            /\ Elsewhere(q, p, s, ro) => p \in q.booked \/ <<p, "sessions">> \in q.todo
       /\ \A d \in q.doomed : d[2] \in q.people
  /\ q.pc \in {"survey", "withdraw"} => \A d \in q.doomed : Pends(d, h)
  /\ q.pc = "withdraw" =>
       /\ \A p \in q.people : Elsewhere(q, p, s, ro) \/ PendingRows(p, h) \subseteq q.doomed
       /\ \A d \in q.doomed : ~Elsewhere(q, d[2], s, ro)
  /\ q.pc = "mail" /\ CancelsSession(q) =>
       \A p \in q.people : Elsewhere(q, p, s, ro) \/ PendingRows(p, h) = {}

Knows(q, st, l, s, ro, h) ==
  /\ KindFits(q) /\ Unread(q) /\ KnowsStatus(q, st) /\ KnowsPeople(q, l) /\ KnowsSession(q, s)
  /\ KnowsRoster(q, ro) /\ KnowsTasks(q, h) /\ KnowsReversal(q, s, ro, h)

(* The history: who began last on a proposal is about it.                   *)
LastIsOwn ==
  /\ \A s \in Submissions : last[s] # None => req[last[s]].sub = s /\ req[last[s]].pc # "idle"
  /\ \A r \in Requests : req[r].pc \notin AtRest => last[req[r].sub] = r

(* An acceptance converges wherever the proposal has a speaker: an edit that *)
(* failed half way may have left it without one.                            *)
AcceptedWithSpeakers ==
  \A s \in Submissions :
    Done(last[s]) /\ req[last[s]].kind = "approved" /\ links[s] # {} => Onboarded(s)

(* A proposal whose last request reversed it has no session standing.       *)
ReversedStandsDown ==
  \A s \in Submissions : Reversed(s) => \A c \in Creators : session[<<s, c>>] # "confirmed"

(* Where proposals are not edited, rosters hold only the proposal's own     *)
(* speakers, and nothing is pending for a speaker all of whose proposals    *)
(* were reversed.                                                           *)
Talks(p) == {s \in Submissions : p \in links[s]}
UneditedInv ==
  /\ \A s \in Submissions : links[s] # {}
  /\ \A k \in SessionKeys : roster[k] \subseteq links[k[1]]
  /\ \A p \in Speakers : Talks(p) # {} /\ (\A s \in Talks(p) : Reversed(s)) =>
       \A t \in Tasks : held[<<t, p>>].st # "pending"

VInv ==
  /\ \A r \in Requests : Knows(req[r], status, links, session, roster, held)
  /\ LastIsOwn /\ AcceptedWithSpeakers /\ EditConverges /\ ReversedStandsDown
  /\ EditTeams = {} => UneditedInv
----------------------------------------------------------------------------
(* The definitions, put to use *)

(* A request at rest knows nothing. *)
LEMMA RestKnows ==
  ASSUME NEW q, q.pc \in AtRest, q.kind = "edit" => EditTeams # {},
         NEW st, NEW l, NEW s, NEW ro, NEW h
  PROVE  Knows(q, st, l, s, ro, h)
<1>1. q.pc \in {"idle", "done", "failed"}
  BY DEF AtRest
<1>2. KindFits(q) /\ Unread(q) /\ KnowsStatus(q, st)
  BY <1>1 DEF KindFits, Unread, KnowsStatus, AtRest
<1>3. KnowsPeople(q, l) /\ KnowsSession(q, s) /\ KnowsRoster(q, ro)
  BY <1>1 DEF KnowsPeople, KnowsSession, KnowsRoster, AtRest
<1>4. KnowsTasks(q, h) /\ KnowsReversal(q, s, ro, h)
  BY <1>1 DEF KnowsTasks, KnowsReversal
<1> QED BY <1>2, <1>3, <1>4 DEF Knows

(* What a request may do to the rest of the program: to other proposals     *)
(* nothing, and no row of someone confirmed elsewhere is taken away.        *)
Spares(s) ==
  /\ \A t \in Submissions \ {s} :
       /\ links'[t] = links[t]
       /\ \A c \in Creators : /\ session'[<<t, c>>] = session[<<t, c>>]
                              /\ roster'[<<t, c>>] = roster[<<t, c>>]
  /\ \A x \in Pairs : held[x] # NoRow /\ held'[x] = NoRow =>
       \A k \in SessionKeys : k[1] # s /\ session[k] = "confirmed" => x[2] \notin roster[k]
  /\ EditTeams = {} =>
       /\ links' = links
       /\ \A k \in SessionKeys : roster'[k] \subseteq links[k[1]]
       /\ \A x \in Pairs : held'[x].st = "pending" =>
            held[x].st = "pending" \/ x[2] \in links[s]

LEMMA SparesOnboarded ==
  ASSUME TypeOK, NEW s, Spares(s), NEW t \in Submissions \ {s}, Onboarded(t)
  PROVE  Onboarded(t)'
<1>1. PICK c \in Creators : /\ Fresh(t) = {c} /\ session[<<t, c>>] = "confirmed"
                            /\ roster[<<t, c>>] = links[t]
  BY DEF Onboarded
<1>2. Fresh(t)' = {c} /\ session'[<<t, c>>] = "confirmed" /\ roster'[<<t, c>>] = links'[t]
  BY <1>1 DEF Spares, Fresh
<1>3. ASSUME NEW u \in Tasks, NEW p \in links'[t]
      PROVE  held'[<<u, p>>] # NoRow
  <2>1. p \in links[t] /\ p \in Speakers
    BY DEF Spares, TypeOK
  <2>2. <<u, p>> \in Pairs /\ <<t, c>> \in SessionKeys
    BY <2>1 DEF Pairs, SessionKeys
  <2>3. held[<<u, p>>] # NoRow /\ p \in roster[<<t, c>>]
    BY <1>1, <2>1 DEF Onboarded
  <2> QED BY <1>1, <2>2, <2>3 DEF Spares
<1> QED BY <1>2, <1>3 DEF Onboarded

(* A request that goes on, or fails, and knows what it must, and spares the *)
(* rest: whatever held of the proposals where a request has ended still     *)
(* holds.                                                                   *)
LEMMA Progress ==
  ASSUME IInv, VInv, NEW r \in Requests, NEW q \in Request, Set(r, q),
         q.pc \notin {"idle", "done"}, q.sub \in Submissions,
         Knows(q, status', links', session', roster', held'),
         \A o \in Requests \ {r} : req[o].pc \in AtRest,
         last' = [last EXCEPT ![q.sub] = r], Spares(q.sub),
         req[r].pc = "idle" \/ req[r].sub = q.sub
  PROVE  VInv'
<1>1. /\ req' \in [Requests -> Request] /\ req'[r] = q
      /\ \A o \in Requests \ {r} : req'[o] = req[o]
  BY SetRequest DEF IInv, TypeOK
<1>2. /\ last'[q.sub] = r
      /\ \A s \in Submissions \ {q.sub} : last'[s] = last[s]
  BY DEF IInv, TypeOK
<1>3. \A s \in Submissions \ {q.sub} : last[s] # r
  BY ConstantsOK DEF VInv, LastIsOwn
<1>4. \A s \in Submissions : Done(last[s])' => s # q.sub /\ Done(last[s]) /\ req'[last'[s]] = req[last[s]]
  BY <1>1, <1>2, <1>3 DEF Done, IInv, TypeOK
<1>5. \A o \in Requests : Knows(req'[o], status', links', session', roster', held')
  <2> SUFFICES ASSUME NEW o \in Requests \ {r}
               PROVE  Knows(req'[o], status', links', session', roster', held')
    BY <1>1
  <2>1. req[o].pc \in AtRest /\ (req[o].kind = "edit" => EditTeams # {})
    BY DEF VInv, Knows, KindFits
  <2> QED BY <1>1, <2>1, RestKnows
<1>6. LastIsOwn'
  BY <1>1, <1>2, <1>3 DEF VInv, LastIsOwn, IInv, TypeOK
<1>7. AcceptedWithSpeakers'
  <2> SUFFICES ASSUME NEW s \in Submissions, Done(last[s])', req'[last'[s]].kind = "approved",
                      links'[s] # {}
               PROVE  Onboarded(s)'
    BY DEF AcceptedWithSpeakers
  <2>1. s # q.sub /\ Done(last[s]) /\ req[last[s]].kind = "approved"
    BY <1>4
  <2>2. links[s] # {}
    BY <2>1 DEF Spares
  <2>3. Onboarded(s)
    BY <2>1, <2>2 DEF VInv, AcceptedWithSpeakers
  <2> QED BY <2>1, <2>3, SparesOnboarded DEF IInv
<1>8. EditConverges'
  <2> SUFFICES ASSUME NEW s \in Submissions, Done(last[s])', req'[last'[s]].kind = "edit",
                      req'[last'[s]].was = "approved", req'[last'[s]].seen = "confirmed"
               PROVE  Onboarded(s)'
    BY DEF EditConverges
  <2>1. s # q.sub /\ Onboarded(s)
    BY <1>4 DEF VInv, EditConverges
  <2> QED BY <2>1, SparesOnboarded DEF IInv
<1>9. \A s \in Submissions : Reversed(s)' => s # q.sub /\ Reversed(s)
  BY <1>4 DEF Reversed, CancelsSession
<1>10. ReversedStandsDown'
  BY <1>9 DEF ReversedStandsDown, Spares, VInv
<1>11. EditTeams = {} => UneditedInv'
  <2> SUFFICES ASSUME EditTeams = {} PROVE UneditedInv'
    OBVIOUS
  <2>1. UneditedInv /\ links' = links
    BY DEF VInv, Spares
  <2>2. ASSUME NEW p \in Speakers, Talks(p)' # {}, \A s \in Talks(p)' : Reversed(s)', NEW t \in Tasks
        PROVE  held'[<<t, p>>].st # "pending"
    <3>1. Talks(p) # {} /\ \A s \in Talks(p) : Reversed(s) /\ s # q.sub
      BY <1>9, <2>1, <2>2 DEF Talks
    <3>2. p \notin links[q.sub]
      BY <3>1 DEF Talks
    <3>3. held[<<t, p>>].st # "pending"
      BY <2>1, <3>1 DEF UneditedInv
    <3> QED BY <3>2, <3>3 DEF Spares, Pairs
  <2>3. (\A s \in Submissions : links'[s] # {}) /\ (\A k \in SessionKeys : roster'[k] \subseteq links'[k[1]])
    BY <2>1 DEF UneditedInv, Spares
  <2> QED BY <2>2, <2>3 DEF UneditedInv
<1> QED BY <1>5, <1>6, <1>7, <1>8, <1>10, <1>11 DEF VInv
(* What a request under way has become after a statement *)
Knowing(r) ==
  \E q \in Request :
    /\ Set(r, q) /\ q.pc \notin {"idle", "done"} /\ q.sub = req[r].sub
    /\ Knows(q, status', links', session', roster', held')

LEMMA StepKeeps ==
  ASSUME IInv, VInv, Serial, NEW r \in Requests, req[r].pc \notin AtRest,
         Knowing(r), Spares(req[r].sub), last' = last
  PROVE  VInv'
<1>1. PICK q \in Request :
        /\ Set(r, q) /\ q.pc \notin {"idle", "done"} /\ q.sub = req[r].sub
        /\ Knows(q, status', links', session', roster', held')
  BY DEF Knowing
<1>2. req[r].sub \in Submissions /\ last[req[r].sub] = r
  BY Fields DEF VInv, LastIsOwn
<1>3. last' = [last EXCEPT ![q.sub] = r]
  BY <1>1, <1>2 DEF IInv, TypeOK
<1>4. \A o \in Requests \ {r} : req[o].pc \in AtRest
  BY DEF IInv, SessionInv, SerialInv, Alone
<1> QED BY <1>1, <1>2, <1>3, <1>4, Progress

(* Reading changes nothing of the program. *)
LEMMA ReadSpares ==
  ASSUME VInv, NEW s, UNCHANGED db
  PROVE  Spares(s)
  BY DEF Spares, db, VInv, UneditedInv

(* What a request knows that goes on. *)
LEMMA UnderWay ==
  ASSUME IInv, VInv, NEW r \in Requests, req[r].pc \notin AtRest
  PROVE  /\ Knows(req[r], status, links, session, roster, held)
         /\ req[r] \in Request /\ req[r].sub \in Submissions
         /\ links[req[r].sub] \in SUBSET Speakers
  BY Fields DEF VInv, IInv, TypeOK

LEMMA WriteStatusKnows ==
  ASSUME IInv, VInv, NEW r \in Requests, WriteStatus(r)
  PROVE  Knowing(r) /\ Spares(req[r].sub)
<1> DEFINE label == IF req[r].kind = "approved" THEN "gather" ELSE "find"
           q == [req[r] EXCEPT !.pc = label]
<1>1. /\ req[r].pc = "write" /\ req[r].kind \in Decisions
      /\ status' = [status EXCEPT ![req[r].sub] = req[r].kind]
      /\ UNCHANGED <<links, session, roster, held, last>>
  BY DEF WriteStatus, At, IInv, SessionInv, Control
<1>2. Set(r, q)
  BY DEF WriteStatus, Goto
<1>3. /\ Knows(req[r], status, links, session, roster, held)
      /\ req[r] \in Request /\ req[r].sub \in Submissions
  BY <1>1, UnderWay DEF AtRest
<1>4. label = IF req[r].kind = "approved" THEN "gather" ELSE "find"
  OBVIOUS
<1> HIDE DEF label
<1>5. /\ q \in Request /\ q.pc = label /\ q.sub = req[r].sub /\ q.kind = req[r].kind
      /\ q.was = req[r].was /\ q.got = req[r].got /\ q.found = req[r].found
      /\ q.seen = req[r].seen /\ q.people = req[r].people /\ q.todo = req[r].todo
      /\ q.rest = req[r].rest /\ q.missing = req[r].missing
      /\ q.doomed = req[r].doomed /\ q.booked = req[r].booked
  BY <1>3, <1>4 DEF Request, Labels
<1> HIDE DEF q
<1>6. /\ q.got = {} /\ q.missing = {} /\ q.booked = {} /\ q.doomed = {}
      /\ q.kind \in Decisions /\ q.pc \in {"gather", "find"}
      /\ q.pc = "gather" <=> q.kind = "approved"
  BY <1>1, <1>3, <1>4, <1>5 DEF Knows, Unread
<1>7. status'[q.sub] = q.kind
  BY <1>1, <1>3, <1>5 DEF IInv, TypeOK
<1>8. KindFits(q) /\ Unread(q) /\ KnowsStatus(q, status') /\ KnowsPeople(q, links')
  BY <1>6, <1>7 DEF KindFits, Unread, KnowsStatus, KnowsPeople, Decisions
<1>9. KnowsSession(q, session') /\ KnowsRoster(q, roster')
  BY <1>6 DEF KnowsSession, KnowsRoster, Decisions
<1>10. KnowsTasks(q, held') /\ KnowsReversal(q, session', roster', held')
  BY <1>6 DEF KnowsTasks, KnowsReversal, Decisions
<1>11. Knows(q, status', links', session', roster', held')
  BY <1>8, <1>9, <1>10 DEF Knows
<1>12. Spares(req[r].sub)
  BY <1>1 DEF Spares, VInv, UneditedInv
<1> QED BY <1>2, <1>5, <1>6, <1>11, <1>12 DEF Knowing
LEMMA GatheredKnows ==
  ASSUME NEW p \in Request, p.pc = "gather",
         NEW st, NEW l, NEW s, NEW ro, NEW h, Knows(p, st, l, s, ro, h)
  PROVE  Knows(Gathered(p), st, l, s, ro, h)
<1>1. CASE p.got # {"speakers", "session"}
  BY <1>1 DEF Gathered
<1>2. CASE p.got = {"speakers", "session"}
  <2> DEFINE label == IF p.people = {} THEN "session" ELSE "held"
             todo == p.people \X {"tasks"}
             q == [p EXCEPT !.pc = label, !.todo = todo]
  <2>1. Gathered(p) = q
    BY <1>2 DEF Gathered
  <2>2. label = IF p.people = {} THEN "session" ELSE "held"
    OBVIOUS
  <2>3. \A y \in p.people : <<y, "tasks">> \in todo
    OBVIOUS
  <2>4. \A x \in todo : x[1] \in p.people
    OBVIOUS
  <2> HIDE DEF label, todo
  <2>5. /\ q.pc = label /\ q.sub = p.sub /\ q.kind = p.kind
        /\ q.was = p.was /\ q.got = p.got /\ q.found = p.found
        /\ q.seen = p.seen /\ q.people = p.people /\ q.todo = todo
        /\ q.rest = p.rest /\ q.missing = p.missing
        /\ q.doomed = p.doomed /\ q.booked = p.booked
    BY DEF Request
  <2> HIDE DEF q
  <2>6. p.kind = "approved" /\ p.missing = {} /\ p.people = l[p.sub]
    BY <1>2 DEF Knows, KindFits, Unread, KnowsPeople
  <2>7. KindFits(q) /\ Unread(q) /\ KnowsStatus(q, st) /\ KnowsPeople(q, l)
    BY <2>2, <2>4, <2>5, <2>6 DEF Knows, KindFits, Unread, KnowsStatus, KnowsPeople, CancelsSession, AtRest
  <2>8. KnowsSession(q, s) /\ KnowsRoster(q, ro)
    BY <1>2, <2>2, <2>5, <2>6 DEF Knows, KnowsSession, KnowsRoster, CancelsSession
  <2>9. KnowsTasks(q, h)
    BY <2>2, <2>3, <2>5, <2>6 DEF KnowsTasks, Lacks
  <2>10. KnowsReversal(q, s, ro, h)
    BY <2>2, <2>5 DEF KnowsReversal
  <2> QED BY <2>1, <2>7, <2>8, <2>9, <2>10 DEF Knows
<1> QED BY <1>1, <1>2

LEMMA ReadSpeakersKnows ==
  ASSUME IInv, VInv, NEW r \in Requests, ReadSpeakers(r)
  PROVE  Knowing(r) /\ Spares(req[r].sub)
<1> DEFINE got == req[r].got \cup {"speakers"}
           people == links[req[r].sub]
           p == [req[r] EXCEPT !.got = got, !.people = people]
<1>1. req[r].pc = "gather" /\ Set(r, Gathered(p)) /\ UNCHANGED <<db, last>>
  BY DEF ReadSpeakers, At
<1>2. /\ Knows(req[r], status, links, session, roster, held)
      /\ req[r] \in Request /\ req[r].sub \in Submissions /\ people \in SUBSET Speakers
  BY <1>1, UnderWay DEF AtRest
<1>3. got \in SUBSET {"speakers", "session"} /\ ("session" \in got <=> "session" \in req[r].got)
  BY <1>2 DEF Request
<1>4. people = links[req[r].sub]
  OBVIOUS
<1> HIDE DEF got, people
<1>5. /\ p \in Request /\ p.pc = "gather" /\ p.sub = req[r].sub /\ p.kind = req[r].kind
      /\ p.was = req[r].was /\ p.got = got /\ p.found = req[r].found
      /\ p.seen = req[r].seen /\ p.people = people /\ p.todo = req[r].todo
      /\ p.rest = req[r].rest /\ p.missing = req[r].missing
      /\ p.doomed = req[r].doomed /\ p.booked = req[r].booked
  BY <1>1, <1>2, <1>3 DEF Request
<1> HIDE DEF p
<1>6. req[r].kind = "approved" /\ req[r].missing = {}
  BY <1>1, <1>2 DEF Knows, KindFits, Unread
<1>7. KindFits(p) /\ Unread(p) /\ KnowsStatus(p, status) /\ KnowsPeople(p, links)
  BY <1>1, <1>2, <1>4, <1>5, <1>6 DEF Knows, KindFits, Unread, KnowsStatus, KnowsPeople, CancelsSession, AtRest
<1>8. KnowsSession(p, session) /\ KnowsRoster(p, roster)
  BY <1>1, <1>2, <1>3, <1>5, <1>6 DEF Knows, KnowsSession, KnowsRoster, CancelsSession
<1>9. KnowsTasks(p, held) /\ KnowsReversal(p, session, roster, held)
  BY <1>5, <1>6 DEF KnowsTasks, KnowsReversal
<1>10. Knows(Gathered(p), status, links, session, roster, held)
  BY <1>5, <1>7, <1>8, <1>9, GatheredKnows DEF Knows
<1>11. Gathered(p) \in Request /\ Gathered(p).pc \notin {"idle", "done"} /\ Gathered(p).sub = req[r].sub
  BY <1>5, GatheredRequest
<1>12. Knowing(r)
  BY <1>1, <1>10, <1>11 DEF Knowing, db
<1> QED BY <1>1, <1>12, ReadSpares

LEMMA ReadSessionKnows ==
  ASSUME IInv, VInv, NEW r \in Requests, ReadSession(r)
  PROVE  Knowing(r) /\ Spares(req[r].sub)
<1>1. /\ req[r].pc = "gather" /\ "session" \notin req[r].got /\ UNCHANGED <<db, last>>
      /\ \E c \in Creators \cup {None} :
           /\ FindsSession(r, c)
           /\ Set(r, Gathered([req[r] EXCEPT !.got = req[r].got \cup {"session"},
                                             !.found = c, !.seen = StatusOf(r, c)]))
  BY DEF ReadSession, At
<1>2. PICK c \in Creators \cup {None} :
        /\ FindsSession(r, c)
        /\ Set(r, Gathered([req[r] EXCEPT !.got = req[r].got \cup {"session"},
                                          !.found = c, !.seen = StatusOf(r, c)]))
  BY <1>1
<1> DEFINE got == req[r].got \cup {"session"}
           seen == StatusOf(r, c)
           p == [req[r] EXCEPT !.got = got, !.found = c, !.seen = seen]
<1>3. Set(r, Gathered(p))
  BY <1>2
<1>4. /\ Knows(req[r], status, links, session, roster, held)
      /\ req[r] \in Request /\ req[r].sub \in Submissions
  BY <1>1, UnderWay DEF AtRest
<1>5. got \in SUBSET {"speakers", "session"} /\ ("speakers" \in got <=> "speakers" \in req[r].got)
  BY <1>4 DEF Request
<1>6. /\ seen = IF c = None THEN "none" ELSE session[<<req[r].sub, c>>]
      /\ seen \in {"none", "confirmed", "cancelled"}
  BY <1>4 DEF StatusOf, IInv, TypeOK, SessionKeys
<1> HIDE DEF got, seen
<1>7. /\ p \in Request /\ p.pc = "gather" /\ p.sub = req[r].sub /\ p.kind = req[r].kind
      /\ p.was = req[r].was /\ p.got = got /\ p.found = c
      /\ p.seen = seen /\ p.people = req[r].people /\ p.todo = req[r].todo
      /\ p.rest = req[r].rest /\ p.missing = req[r].missing
      /\ p.doomed = req[r].doomed /\ p.booked = req[r].booked
  BY <1>1, <1>4, <1>5, <1>6 DEF Request
<1> HIDE DEF p
<1>8. req[r].kind = "approved" /\ req[r].missing = {}
  BY <1>1, <1>4 DEF Knows, KindFits, Unread
<1>9. KindFits(p) /\ Unread(p) /\ KnowsStatus(p, status) /\ KnowsPeople(p, links)
  BY <1>1, <1>4, <1>5, <1>7, <1>8 DEF Knows, KindFits, Unread, KnowsStatus, KnowsPeople, CancelsSession, AtRest
<1>10. KnowsSession(p, session) /\ KnowsRoster(p, roster)
  BY <1>6, <1>7, <1>8 DEF KnowsSession, KnowsRoster, CancelsSession
<1>11. KnowsTasks(p, held) /\ KnowsReversal(p, session, roster, held)
  BY <1>7, <1>8 DEF KnowsTasks, KnowsReversal
<1>12. Knows(Gathered(p), status, links, session, roster, held)
  BY <1>7, <1>9, <1>10, <1>11, GatheredKnows DEF Knows
<1>13. Gathered(p) \in Request /\ Gathered(p).pc \notin {"idle", "done"} /\ Gathered(p).sub = req[r].sub
  BY <1>7, GatheredRequest
<1>14. Knowing(r)
  BY <1>1, <1>3, <1>12, <1>13 DEF Knowing, db
<1> QED BY <1>1, <1>14, ReadSpares
LEMMA ReadHeldKnows ==
  ASSUME IInv, VInv, NEW r \in Requests, ReadHeld(r)
  PROVE  Knowing(r) /\ Spares(req[r].sub)
<1>1. req[r].pc = "held" /\ "session" \in req[r].got /\ UNCHANGED <<db, last>>
  BY DEF ReadHeld, At, IInv, SessionInv, Control, AfterRead
<1>2. PICK x \in req[r].todo :
        Set(r, [req[r] EXCEPT
                  !.missing = req[r].missing \cup MissingOf(x[1]),
                  !.todo = req[r].todo \ {x},
                  !.pc = IF req[r].todo \ {x} # {} THEN "held"
                         ELSE IF req[r].kind = "edit"
                              THEN AfterTasks(req[r].missing \cup MissingOf(x[1]))
                         ELSE "session"])
  BY DEF ReadHeld
<1> DEFINE missing == req[r].missing \cup MissingOf(x[1])
           todo == req[r].todo \ {x}
           label == IF req[r].todo \ {x} # {} THEN "held"
                    ELSE IF req[r].kind = "edit"
                         THEN AfterTasks(req[r].missing \cup MissingOf(x[1]))
                    ELSE "session"
           q == [req[r] EXCEPT !.missing = missing, !.todo = todo, !.pc = label]
<1>3. Set(r, q)
  BY <1>2
<1>4. /\ Knows(req[r], status, links, session, roster, held)
      /\ req[r] \in Request /\ req[r].sub \in Submissions
  BY <1>1, UnderWay DEF AtRest
<1>5. x[1] \in req[r].people /\ \A y \in req[r].missing : y[2] \in req[r].people
  BY <1>1, <1>4 DEF Knows, Unread, AtRest
<1>6. missing \in SUBSET Pairs /\ \A y \in missing : y[2] \in req[r].people
  BY <1>5, Fields DEF MissingOf
<1>7. todo \in SUBSET Survey /\ todo \subseteq req[r].todo
  BY Fields
<1>8. \A y \in Lacks(req[r], held) : y \in missing \/ <<y[2], "tasks">> \in todo
  <2> SUFFICES ASSUME NEW y \in Lacks(req[r], held), <<y[2], "tasks">> \notin todo, y \notin req[r].missing
               PROVE  y \in MissingOf(x[1])
    OBVIOUS
  <2>1. <<y[2], "tasks">> = x
    BY <1>1, <1>4 DEF Knows, KnowsTasks
  <2> QED BY <2>1 DEF Lacks, MissingOf
<1>9. /\ todo # {} => label = "held"
      /\ todo = {} /\ req[r].kind = "edit" => label = IF missing = {} THEN "mail" ELSE "tasks"
      /\ todo = {} /\ req[r].kind # "edit" => label = "session"
  BY DEF AfterTasks
<1> HIDE DEF missing, todo, label
<1>10. label \in {"held", "mail", "tasks", "session"}
  BY <1>9
<1>11. /\ q \in Request /\ q.pc = label /\ q.sub = req[r].sub /\ q.kind = req[r].kind
       /\ q.was = req[r].was /\ q.got = req[r].got /\ q.found = req[r].found
       /\ q.seen = req[r].seen /\ q.people = req[r].people /\ q.todo = todo
       /\ q.rest = req[r].rest /\ q.missing = missing
       /\ q.doomed = req[r].doomed /\ q.booked = req[r].booked
  BY <1>4, <1>6, <1>7, <1>10, ZenonT(60) DEF Request, Labels
<1> HIDE DEF q
<1>12. req[r].kind \in {"approved", "edit"}
  BY <1>1, <1>4 DEF Knows, KindFits
<1>13. KindFits(q) /\ Unread(q) /\ KnowsStatus(q, status)
  BY <1>1, <1>4, <1>6, <1>7, <1>9, <1>10, <1>11, <1>12
     DEF Knows, KindFits, Unread, KnowsStatus, AtRest
<1>14. KnowsPeople(q, links) /\ KnowsSession(q, session) /\ KnowsRoster(q, roster)
  BY <1>1, <1>4, <1>9, <1>10, <1>11, <1>12
     DEF Knows, KindFits, KnowsPeople, KnowsSession, KnowsRoster, CancelsSession, AtRest, Decisions
<1>15. Lacks(q, held) = Lacks(req[r], held)
  BY <1>11 DEF Lacks
<1>16. KnowsTasks(q, held)
  BY <1>8, <1>9, <1>10, <1>11, <1>12, <1>15 DEF KnowsTasks
<1>17. KnowsReversal(q, session, roster, held)
  BY <1>10, <1>11, <1>12 DEF KnowsReversal, CancelsSession, Decisions
<1>18. Knows(q, status, links, session, roster, held)
  BY <1>13, <1>14, <1>16, <1>17 DEF Knows
<1>19. Knowing(r)
  BY <1>1, <1>3, <1>10, <1>11, <1>18 DEF Knowing, db
<1> QED BY <1>1, <1>19, ReadSpares

(* A session created or repaired: the acceptance goes on to the roster, if  *)
(* there is anyone to put on it.                                            *)
LEMMA SessionKnows ==
  ASSUME IInv, VInv, NEW r \in Requests, req[r].pc = "session",
         NEW c \in Creators,
         Set(r, [req[r] EXCEPT !.found = c, !.pc = AfterSession(req[r])]),
         session'[<<req[r].sub, c>>] = "confirmed",
         \A k \in SessionKeys : k # <<req[r].sub, c>> => session'[k] = session[k],
         UNCHANGED <<status, links, roster, held>>
  PROVE  Knowing(r) /\ Spares(req[r].sub)
<1> DEFINE label == AfterSession(req[r])
           q == [req[r] EXCEPT !.found = c, !.pc = label]
<1>1. Set(r, q)
  OBVIOUS
<1>2. /\ Knows(req[r], status, links, session, roster, held)
      /\ req[r] \in Request /\ req[r].sub \in Submissions
  BY UnderWay DEF AtRest
<1>3. req[r].kind = "approved" /\ \A x \in req[r].missing : x[2] \in req[r].people
  BY <1>2 DEF Knows, KindFits, Unread, AtRest
<1>4. /\ label \in {"mail", "tasks", "clear"}
      /\ label # "clear" => req[r].people = {}
  BY DEF AfterSession, AfterTasks
<1>5. /\ Lacks(req[r], held) \subseteq req[r].missing
      /\ label = "mail" => Lacks(req[r], held) = {}
  BY <1>2, <1>3, <1>4 DEF Knows, KnowsTasks, Lacks
<1> HIDE DEF label
<1>6. /\ q \in Request /\ q.pc = label /\ q.sub = req[r].sub /\ q.kind = req[r].kind
      /\ q.was = req[r].was /\ q.got = req[r].got /\ q.found = c
      /\ q.seen = req[r].seen /\ q.people = req[r].people /\ q.todo = req[r].todo
      /\ q.rest = req[r].rest /\ q.missing = req[r].missing
      /\ q.doomed = req[r].doomed /\ q.booked = req[r].booked
  BY <1>2, <1>4 DEF Request, Labels
<1> HIDE DEF q
<1>7. c # None
  BY ConstantsOK DEF Creators
<1>8. KindFits(q) /\ Unread(q) /\ KnowsStatus(q, status')
  BY <1>2, <1>3, <1>4, <1>6, <1>7 DEF Knows, KindFits, Unread, KnowsStatus, AtRest
<1>9. KnowsPeople(q, links') /\ KnowsSession(q, session') /\ KnowsRoster(q, roster')
  BY <1>2, <1>3, <1>4, <1>6, <1>7
     DEF Knows, KnowsPeople, KnowsSession, KnowsRoster, CancelsSession
<1>10. Lacks(q, held') = Lacks(req[r], held)
  BY <1>6 DEF Lacks
<1>11. KnowsTasks(q, held') /\ KnowsReversal(q, session', roster', held')
  BY <1>3, <1>4, <1>5, <1>6, <1>10 DEF KnowsTasks, KnowsReversal, CancelsSession
<1>12. Knowing(r)
  BY <1>1, <1>4, <1>6, <1>8, <1>9, <1>11 DEF Knowing, Knows
<1>13. Spares(req[r].sub)
  BY DEF Spares, VInv, UneditedInv, SessionKeys
<1> QED BY <1>12, <1>13

LEMMA CreateSessionKnows ==
  ASSUME IInv, VInv, NEW r \in Requests, CreateSession(r)
  PROVE  Knowing(r) /\ Spares(req[r].sub)
<1>1. /\ req[r].pc = "session" /\ r \in Creators /\ req[r].sub \in Submissions
      /\ session' = [session EXCEPT ![<<req[r].sub, r>>] = "confirmed"]
      /\ Set(r, [req[r] EXCEPT !.found = r, !.pc = AfterSession(req[r])])
      /\ UNCHANGED <<status, links, roster, held>>
  BY Fields DEF CreateSession, At, Creators, AtRest
<1>2. /\ session'[<<req[r].sub, r>>] = "confirmed"
      /\ \A k \in SessionKeys : k # <<req[r].sub, r>> => session'[k] = session[k]
  BY <1>1 DEF IInv, TypeOK, SessionKeys
<1> QED BY <1>1, <1>2, SessionKnows

LEMMA RepairSessionKnows ==
  ASSUME IInv, VInv, NEW r \in Requests, RepairSession(r)
  PROVE  Knowing(r) /\ Spares(req[r].sub)
<1> DEFINE c == req[r].found
<1>1. /\ req[r].pc = "session" /\ c # None /\ Goto(r, AfterSession(req[r]))
      /\ UNCHANGED <<status, links, roster, held>>
      /\ session' = IF req[r].seen = "confirmed" THEN session
                    ELSE [session EXCEPT ![<<req[r].sub, c>>] = "confirmed"]
  BY DEF RepairSession, At
<1>2. /\ Knows(req[r], status, links, session, roster, held)
      /\ req[r] \in Request /\ req[r].sub \in Submissions /\ c \in Creators
  BY <1>1, UnderWay, Fields DEF AtRest
<1>3. "session" \in req[r].got /\ req[r].kind = "approved"
  BY <1>1, <1>2 DEF Knows, KindFits, IInv, SessionInv, Control, AfterRead
<1>4. req[r].seen = session[<<req[r].sub, c>>]
  BY <1>1, <1>2, <1>3 DEF Knows, KnowsSession
<1>5. [req[r] EXCEPT !.found = c, !.pc = AfterSession(req[r])]
        = [req[r] EXCEPT !.pc = AfterSession(req[r])]
  BY <1>2 DEF Request
<1>6. Set(r, [req[r] EXCEPT !.found = c, !.pc = AfterSession(req[r])])
  BY <1>1, <1>5 DEF Goto
<1> HIDE DEF c
<1>7. /\ session'[<<req[r].sub, c>>] = "confirmed"
      /\ \A k \in SessionKeys : k # <<req[r].sub, c>> => session'[k] = session[k]
  BY <1>1, <1>2, <1>4 DEF IInv, TypeOK, SessionKeys
<1> QED BY <1>1, <1>2, <1>6, <1>7, SessionKnows
LEMMA ClearRosterKnows ==
  ASSUME IInv, VInv, NEW r \in Requests, ClearRoster(r)
  PROVE  Knowing(r) /\ Spares(req[r].sub)
<1> DEFINE q == [req[r] EXCEPT !.pc = "fill"]
           k == <<req[r].sub, req[r].found>>
<1>1. /\ req[r].pc = "clear" /\ Set(r, q)
      /\ roster' = [roster EXCEPT ![k] = {}]
      /\ UNCHANGED <<status, links, session, held>>
  BY DEF ClearRoster, At, Goto
<1>2. /\ Knows(req[r], status, links, session, roster, held)
      /\ req[r] \in Request /\ req[r].sub \in Submissions
  BY <1>1, UnderWay DEF AtRest
<1>3. req[r].found # None /\ req[r].kind \in {"approved", "edit"}
  BY <1>1, <1>2 DEF Knows, KindFits
<1>4. k \in SessionKeys
  BY <1>2, <1>3, Fields DEF SessionKeys
<1>5. roster'[k] = {} /\ \A j \in SessionKeys : j # k => roster'[j] = roster[j]
  BY <1>1, <1>4 DEF IInv, TypeOK
<1>6. /\ q \in Request /\ q.pc = "fill" /\ q.sub = req[r].sub /\ q.kind = req[r].kind
      /\ q.was = req[r].was /\ q.got = req[r].got /\ q.found = req[r].found
      /\ q.seen = req[r].seen /\ q.people = req[r].people /\ q.todo = req[r].todo
      /\ q.rest = req[r].rest /\ q.missing = req[r].missing
      /\ q.doomed = req[r].doomed /\ q.booked = req[r].booked
      /\ k = <<q.sub, q.found>>
  BY <1>2 DEF Request, Labels
<1> HIDE DEF q, k
<1>7. KindFits(q) /\ Unread(q) /\ KnowsStatus(q, status') /\ KnowsPeople(q, links')
  BY <1>1, <1>2, <1>3, <1>6
     DEF Knows, KindFits, Unread, KnowsStatus, KnowsPeople, CancelsSession, AtRest, Decisions
<1>8. KnowsSession(q, session') /\ KnowsRoster(q, roster')
  BY <1>1, <1>2, <1>3, <1>5, <1>6
     DEF Knows, KnowsSession, KnowsRoster, CancelsSession, AtRest, Decisions
<1>9. KnowsTasks(q, held') /\ KnowsReversal(q, session', roster', held')
  BY <1>1, <1>2, <1>3, <1>6
     DEF Knows, KnowsTasks, Lacks, KnowsReversal, CancelsSession, Decisions
<1>10. Knowing(r)
  BY <1>1, <1>6, <1>7, <1>8, <1>9 DEF Knowing, Knows
<1>11. Spares(req[r].sub)
  BY <1>1, <1>5, <1>6 DEF Spares, VInv, UneditedInv, SessionKeys
<1> QED BY <1>10, <1>11

LEMMA FillRosterKnows ==
  ASSUME IInv, VInv, NEW r \in Requests, FillRoster(r)
  PROVE  Knowing(r) /\ Spares(req[r].sub)
<1> DEFINE label == AfterFill(req[r])
           todo == IF req[r].kind = "edit" THEN req[r].people \X {"tasks"} ELSE {}
           q == [req[r] EXCEPT !.pc = label, !.todo = todo]
           k == <<req[r].sub, req[r].found>>
<1>1. /\ req[r].pc = "fill" /\ "session" \in req[r].got /\ Set(r, q)
      /\ roster' = [roster EXCEPT ![k] = roster[k] \cup req[r].people]
      /\ UNCHANGED <<status, links, session, held>>
  BY DEF FillRoster, At, IInv, SessionInv, Control, AfterRead
<1>2. /\ Knows(req[r], status, links, session, roster, held)
      /\ req[r] \in Request /\ req[r].sub \in Submissions
  BY <1>1, UnderWay DEF AtRest
<1>3. /\ req[r].found # None /\ req[r].kind \in {"approved", "edit"}
      /\ req[r].people = links[req[r].sub] /\ roster[k] = {}
  BY <1>1, <1>2 DEF Knows, KindFits, KnowsPeople, KnowsRoster
<1>4. k \in SessionKeys
  BY <1>2, <1>3, Fields DEF SessionKeys
<1>5. roster'[k] = req[r].people /\ \A j \in SessionKeys : j # k => roster'[j] = roster[j]
  BY <1>1, <1>3, <1>4 DEF IInv, TypeOK
<1>6. req[r].kind = "edit" => session[k] # "none" /\ req[r].seen = session[k]
  BY <1>1, <1>2, <1>3 DEF Knows, KnowsSession, AtRest, IInv, SessionInv, FoundExists
<1>7. session[k] \in {"none", "confirmed", "cancelled"}
  BY <1>4 DEF IInv, TypeOK
<1>8. /\ req[r].kind = "approved" =>
           label = IF req[r].missing = {} THEN "mail" ELSE "tasks"
      /\ req[r].kind = "edit" =>
           label = IF req[r].was = "approved" /\ req[r].seen = "confirmed" THEN "held" ELSE "mail"
  BY <1>6, <1>7 DEF AfterFill, AfterTasks
<1>9. \A y \in req[r].people : req[r].kind = "edit" => <<y, "tasks">> \in todo
  OBVIOUS
<1>10. todo \in SUBSET Survey /\ \A x \in todo : x[1] \in req[r].people
  BY Fields DEF Survey
<1> HIDE DEF label, todo
<1>11. label \in {"mail", "tasks", "held"}
  BY <1>3, <1>8
<1>12. /\ q \in Request /\ q.pc = label /\ q.sub = req[r].sub /\ q.kind = req[r].kind
       /\ q.was = req[r].was /\ q.got = req[r].got /\ q.found = req[r].found
       /\ q.seen = req[r].seen /\ q.people = req[r].people /\ q.todo = todo
       /\ q.rest = req[r].rest /\ q.missing = req[r].missing
       /\ q.doomed = req[r].doomed /\ q.booked = req[r].booked
       /\ k = <<q.sub, q.found>>
  BY <1>2, <1>10, <1>11, ZenonT(60) DEF Request, Labels
<1> HIDE DEF q, k
<1>13. KindFits(q) /\ Unread(q) /\ KnowsStatus(q, status') /\ KnowsPeople(q, links')
  BY <1>1, <1>2, <1>3, <1>8, <1>10, <1>11, <1>12
     DEF Knows, KindFits, Unread, KnowsStatus, KnowsPeople, CancelsSession, AtRest, Decisions
<1>14. KnowsSession(q, session') /\ KnowsRoster(q, roster')
  BY <1>1, <1>2, <1>3, <1>5, <1>8, <1>11, <1>12
     DEF Knows, KnowsSession, KnowsRoster, CancelsSession, AtRest, Decisions
<1>15. Lacks(q, held') = Lacks(req[r], held)
  BY <1>1, <1>12 DEF Lacks
<1>16. \A x \in Lacks(q, held') : q.kind = "edit" => <<x[2], "tasks">> \in todo
  BY <1>9, <1>12 DEF Lacks
<1>17. KnowsTasks(q, held') /\ KnowsReversal(q, session', roster', held')
  BY <1>1, <1>2, <1>3, <1>8, <1>11, <1>12, <1>15, <1>16
     DEF Knows, KnowsTasks, KnowsReversal, CancelsSession, Decisions
<1>18. Knowing(r)
  BY <1>1, <1>11, <1>12, <1>13, <1>14, <1>17 DEF Knowing, Knows
<1>19. Spares(req[r].sub)
  BY <1>1, <1>3, <1>5, <1>12 DEF Spares, VInv, UneditedInv, SessionKeys
<1> QED BY <1>18, <1>19

(* How a request's memory changes where it works through a list: of tasks   *)
(* to create, of rows to delete, and of what a survey still has to read.    *)
Creating(m, left, l) == [m EXCEPT !.missing = left, !.pc = l]
Dooming(m, left, l) == [m EXCEPT !.doomed = left, !.pc = l]
Surveying(m, left, booked) == [m EXCEPT !.todo = left, !.booked = booked]

LEMMA CreatingFields ==
  ASSUME NEW m \in Request, NEW left \in SUBSET Pairs, NEW l \in Labels
  PROVE  LET q == Creating(m, left, l) IN
         /\ q \in Request /\ q.pc = l /\ q.sub = m.sub /\ q.kind = m.kind
         /\ q.was = m.was /\ q.got = m.got /\ q.found = m.found
         /\ q.seen = m.seen /\ q.people = m.people /\ q.todo = m.todo
         /\ q.rest = m.rest /\ q.missing = left
         /\ q.doomed = m.doomed /\ q.booked = m.booked
  BY DEF Request, Creating

LEMMA DoomingFields ==
  ASSUME NEW m \in Request, NEW left \in SUBSET Doomed, NEW l \in Labels
  PROVE  LET q == Dooming(m, left, l) IN
         /\ q \in Request /\ q.pc = l /\ q.sub = m.sub /\ q.kind = m.kind
         /\ q.was = m.was /\ q.got = m.got /\ q.found = m.found
         /\ q.seen = m.seen /\ q.people = m.people /\ q.todo = m.todo
         /\ q.rest = m.rest /\ q.missing = m.missing
         /\ q.doomed = left /\ q.booked = m.booked
  BY DEF Request, Dooming

LEMMA SurveyingFields ==
  ASSUME NEW m \in Request, NEW left \in SUBSET Survey, NEW booked \in SUBSET Speakers
  PROVE  LET q == Surveying(m, left, booked) IN
         /\ q \in Request /\ q.pc = m.pc /\ q.doomed = m.doomed
         /\ q.todo = left /\ q.booked = booked
  BY DEF Request, Surveying

LEMMA CreateTaskKnows ==
  ASSUME IInv, VInv, NEW r \in Requests, CreateTask(r), NEW x \in req[r].missing, held[x] = NoRow,
         held' = [held EXCEPT ![x] = [by |-> r, st |-> "pending"]],
         Set(r, [req[r] EXCEPT !.missing = req[r].missing \ {x},
                               !.pc = AfterTasks(req[r].missing \ {x})])
  PROVE  Knowing(r) /\ Spares(req[r].sub)
<1> DEFINE missing == req[r].missing \ {x}
           label == AfterTasks(missing)
           q == [req[r] EXCEPT !.missing = missing, !.pc = label]
<1>1. req[r].pc = "tasks" /\ Set(r, q) /\ UNCHANGED <<status, links, session, roster>>
  BY DEF CreateTask, At
<1>2. /\ Knows(req[r], status, links, session, roster, held)
      /\ req[r] \in Request /\ req[r].sub \in Submissions
  BY <1>1, UnderWay DEF AtRest
<1>3. /\ req[r].kind \in {"approved", "edit"} /\ req[r].people = links[req[r].sub]
      /\ req[r].kind = "edit" => EditTeams # {}
      /\ \A y \in req[r].missing : y[2] \in req[r].people
      /\ Lacks(req[r], held) \subseteq req[r].missing
  BY <1>1, <1>2 DEF Knows, KindFits, Unread, KnowsPeople, KnowsTasks, AtRest
<1>4. x \in Pairs /\ missing \in SUBSET Pairs
  BY Fields
<1>5. held'[x] = [by |-> r, st |-> "pending"] /\ \A y \in Pairs : y # x => held'[y] = held[y]
  BY <1>4 DEF IInv, TypeOK
<1>6. held'[x] # NoRow
  BY <1>5 DEF NoRow
<1>7. Lacks(req[r], held') \subseteq missing
  BY <1>3, <1>5, <1>6 DEF Lacks
<1>8. label = IF missing = {} THEN "mail" ELSE "tasks"
  BY DEF AfterTasks
<1>9. missing \subseteq req[r].missing
  OBVIOUS
<1> HIDE DEF missing, label
<1>10. /\ q \in Request /\ q.pc = label /\ q.sub = req[r].sub /\ q.kind = req[r].kind
       /\ q.was = req[r].was /\ q.got = req[r].got /\ q.found = req[r].found
       /\ q.seen = req[r].seen /\ q.people = req[r].people /\ q.todo = req[r].todo
       /\ q.rest = req[r].rest /\ q.missing = missing
       /\ q.doomed = req[r].doomed /\ q.booked = req[r].booked
  <2>1. label \in Labels
    BY <1>8 DEF Labels
  <2>2. q = Creating(req[r], missing, label)
    BY DEF Creating
  <2> HIDE DEF q
  <2> QED BY <1>2, <1>4, <2>1, <2>2, CreatingFields
<1> HIDE DEF q
<1>11. label \in {"mail", "tasks"}
  BY <1>8
<1>12. KindFits(q) /\ Unread(q) /\ KnowsStatus(q, status') /\ KnowsPeople(q, links')
  BY <1>1, <1>2, <1>3, <1>9, <1>10, <1>11
     DEF Knows, KindFits, Unread, KnowsStatus, KnowsPeople, CancelsSession, AtRest, Decisions
<1>13. KnowsSession(q, session') /\ KnowsRoster(q, roster')
  BY <1>1, <1>2, <1>3, <1>10, <1>11
     DEF Knows, KnowsSession, KnowsRoster, CancelsSession, AtRest, Decisions
<1>14. Lacks(q, held') = Lacks(req[r], held')
  BY <1>10 DEF Lacks
<1>15. KnowsTasks(q, held') /\ KnowsReversal(q, session', roster', held')
  BY <1>3, <1>7, <1>8, <1>10, <1>14 DEF KnowsTasks, KnowsReversal, CancelsSession, Decisions
<1>16. Knowing(r)
  BY <1>1, <1>10, <1>11, <1>12, <1>13, <1>15 DEF Knowing, Knows
<1>17. Spares(req[r].sub)
  BY <1>1, <1>3, <1>5, <1>6 DEF Spares, VInv, UneditedInv
<1> QED BY <1>16, <1>17
----------------------------------------------------------------------------
(* What a reversal knows *)

LEMMA FindSessionKnows ==
  ASSUME IInv, VInv, NEW r \in Requests, FindSession(r)
  PROVE  Knowing(r) /\ Spares(req[r].sub)
<1>1. req[r].pc = "find" /\ UNCHANGED <<db, last>>
  BY DEF FindSession, At
<1>2. PICK c \in Creators \cup {None} :
        /\ FindsSession(r, c)
        /\ Set(r, [req[r] EXCEPT
                     !.found = c, !.seen = StatusOf(r, c),
                     !.pc = IF CancelsSession(req[r]) THEN "cancel" ELSE "mail"])
  BY DEF FindSession
<1> DEFINE seen == StatusOf(r, c)
           label == IF CancelsSession(req[r]) THEN "cancel" ELSE "mail"
           q == [req[r] EXCEPT !.found = c, !.seen = seen, !.pc = label]
<1>3. Set(r, q)
  BY <1>2
<1>4. /\ Knows(req[r], status, links, session, roster, held)
      /\ req[r] \in Request /\ req[r].sub \in Submissions
  BY <1>1, UnderWay DEF AtRest
<1>5. /\ seen = IF c = None THEN "none" ELSE session[<<req[r].sub, c>>]
      /\ seen \in {"none", "confirmed", "cancelled"}
  BY <1>4 DEF StatusOf, IInv, TypeOK, SessionKeys
<1>6. c = None => \A e \in Creators : session[<<req[r].sub, e>>] = "none"
  BY <1>2, ConstantsOK DEF FindsSession, Fresh, Creators
<1>7. /\ label \in {"cancel", "mail"} /\ label \in Labels
      /\ label = IF CancelsSession(req[r]) THEN "cancel" ELSE "mail"
  BY DEF Labels
<1> HIDE DEF seen, label
<1>8. /\ q \in Request /\ q.pc = label /\ q.sub = req[r].sub /\ q.kind = req[r].kind
      /\ q.was = req[r].was /\ q.got = req[r].got /\ q.found = c
      /\ q.seen = seen /\ q.people = req[r].people /\ q.todo = req[r].todo
      /\ q.rest = req[r].rest /\ q.missing = req[r].missing
      /\ q.doomed = req[r].doomed /\ q.booked = req[r].booked
  BY <1>4, <1>5, <1>7, ZenonT(60) DEF Request
<1> HIDE DEF q
<1>9. CancelsSession(q) <=> CancelsSession(req[r])
  BY <1>8 DEF CancelsSession
<1>10. /\ q.kind \in Decisions \ {"approved"} /\ q.kind # "edit"
       /\ q.missing = {} /\ q.booked = {} /\ q.doomed = {}
  BY <1>1, <1>4, <1>8 DEF Knows, KindFits, Unread, Decisions
<1>11. KindFits(q) /\ Unread(q)
  BY <1>7, <1>8, <1>9, <1>10 DEF KindFits, Unread
<1>12. KnowsStatus(q, status) /\ KnowsPeople(q, links)
  BY <1>1, <1>4, <1>7, <1>8, <1>10 DEF Knows, KnowsStatus, KnowsPeople, CancelsSession, AtRest
<1>13. KnowsSession(q, session) /\ KnowsRoster(q, roster)
  BY <1>5, <1>6, <1>7, <1>8, <1>9, <1>10 DEF KnowsSession, KnowsRoster
<1>14. KnowsTasks(q, held) /\ KnowsReversal(q, session, roster, held)
  BY <1>7, <1>8, <1>9, <1>10 DEF KnowsTasks, KnowsReversal
<1>15. Knowing(r)
  BY <1>1, <1>3, <1>7, <1>8, <1>11, <1>12, <1>13, <1>14 DEF Knowing, Knows, db
<1> QED BY <1>1, <1>15, ReadSpares

(* Once its session is cancelled the proposal has none confirmed: it never  *)
(* had a second.                                                            *)
LEMMA CancelSessionKnows ==
  ASSUME IInv, VInv, Serial, NEW r \in Requests, CancelSession(r)
  PROVE  Knowing(r) /\ Spares(req[r].sub)
<1> DEFINE q == [req[r] EXCEPT !.pc = "people"]
           c == req[r].found
           k == <<req[r].sub, c>>
<1>1. /\ req[r].pc = "cancel" /\ Set(r, q)
      /\ session' = IF req[r].seen \in {"none", "cancelled"} THEN session
                    ELSE [session EXCEPT ![k] = "cancelled"]
      /\ UNCHANGED <<status, links, roster, held>>
  BY DEF CancelSession, At, Goto
<1>2. /\ Knows(req[r], status, links, session, roster, held)
      /\ req[r] \in Request /\ req[r].sub \in Submissions
      /\ c \in Creators \cup {None}
  BY <1>1, UnderWay, Fields DEF AtRest
<1>3. /\ CancelsSession(req[r])
      /\ req[r].seen = IF c = None THEN "none" ELSE session[k]
      /\ c = None => \A e \in Creators : session[<<req[r].sub, e>>] = "none"
  BY <1>1, <1>2 DEF Knows, KindFits, KnowsSession
<1>4. \A e \in Creators : session'[<<req[r].sub, e>>] # "confirmed"
  <2>1. CASE c = None
    BY <1>1, <1>3, <2>1
  <2>2. CASE c # None
    <3>1. session[k] # "none" /\ c \in Creators /\ k \in SessionKeys
      BY <1>1, <1>2, <2>2 DEF IInv, SessionInv, FoundExists, AtRest, SessionKeys
    <3>2. \A e \in Creators : e # c => session[<<req[r].sub, e>>] = "none"
      BY <1>2, <3>1 DEF IInv, SessionInv, SerialInv, OneSession, Fresh
    <3>3. session'[k] = "cancelled"
      BY <1>1, <1>3, <2>2, <3>1 DEF IInv, TypeOK
    <3>4. \A j \in SessionKeys : j # k => session'[j] = session[j]
      BY <1>1 DEF IInv, TypeOK
    <3> QED BY <1>2, <3>2, <3>3, <3>4 DEF SessionKeys
  <2> QED BY <2>1, <2>2
<1>5. \A j \in SessionKeys : j[1] # req[r].sub => session'[j] = session[j]
  BY <1>1 DEF IInv, TypeOK
<1>6. /\ q \in Request /\ q.pc = "people" /\ q.sub = req[r].sub /\ q.kind = req[r].kind
      /\ q.was = req[r].was /\ q.got = req[r].got /\ q.found = req[r].found
      /\ q.seen = req[r].seen /\ q.people = req[r].people /\ q.todo = req[r].todo
      /\ q.rest = req[r].rest /\ q.missing = req[r].missing
      /\ q.doomed = req[r].doomed /\ q.booked = req[r].booked
  BY <1>2 DEF Request, Labels
<1> HIDE DEF q, c, k
<1>7. CancelsSession(q) /\ q.kind \notin {"approved", "edit"}
  BY <1>3, <1>6 DEF CancelsSession, Decisions
<1>8. KindFits(q) /\ Unread(q) /\ KnowsStatus(q, status') /\ KnowsPeople(q, links')
  BY <1>1, <1>2, <1>6, <1>7 DEF Knows, KindFits, Unread, KnowsStatus, KnowsPeople, AtRest
<1>9. KnowsSession(q, session') /\ KnowsRoster(q, roster')
  BY <1>4, <1>6, <1>7 DEF KnowsSession, KnowsRoster
<1>10. KnowsTasks(q, held') /\ KnowsReversal(q, session', roster', held')
  BY <1>6, <1>7 DEF KnowsTasks, KnowsReversal
<1>11. Knowing(r)
  BY <1>1, <1>6, <1>8, <1>9, <1>10 DEF Knowing, Knows
<1>12. Spares(req[r].sub)
  BY <1>1, <1>5 DEF Spares, VInv, UneditedInv, SessionKeys
<1> QED BY <1>11, <1>12

LEMMA ReadReversedKnows ==
  ASSUME IInv, VInv, NEW r \in Requests, ReadReversed(r)
  PROVE  Knowing(r) /\ Spares(req[r].sub)
<1> DEFINE people == links[req[r].sub]
           todo == people \X {"tasks", "sessions"}
           label == IF people = {} THEN "mail" ELSE "survey"
           q == [req[r] EXCEPT !.people = people, !.todo = todo, !.pc = label]
<1>1. req[r].pc = "people" /\ Set(r, q) /\ UNCHANGED <<db, last>>
  BY DEF ReadReversed, At
<1>2. /\ Knows(req[r], status, links, session, roster, held)
      /\ req[r] \in Request /\ req[r].sub \in Submissions /\ people \in SUBSET Speakers
  BY <1>1, UnderWay DEF AtRest
<1>3. /\ todo \in SUBSET Survey
      /\ \A y \in people : <<y, "tasks">> \in todo /\ <<y, "sessions">> \in todo
      /\ \A x \in todo : x[1] \in people
  BY <1>2 DEF Survey
<1>4. /\ people = links[req[r].sub] /\ label \in Labels
      /\ label = IF people = {} THEN "mail" ELSE "survey"
  BY DEF Labels
<1> HIDE DEF people, todo, label
<1>5. /\ q \in Request /\ q.pc = label /\ q.sub = req[r].sub /\ q.kind = req[r].kind
      /\ q.was = req[r].was /\ q.got = req[r].got /\ q.found = req[r].found
      /\ q.seen = req[r].seen /\ q.people = people /\ q.todo = todo
      /\ q.rest = req[r].rest /\ q.missing = req[r].missing
      /\ q.doomed = req[r].doomed /\ q.booked = req[r].booked
  BY <1>2, <1>3, <1>4 DEF Request
<1> HIDE DEF q
<1>6. /\ CancelsSession(q) /\ CancelsSession(req[r]) /\ q.kind \notin {"approved", "edit"}
      /\ q.missing = {} /\ q.booked = {} /\ q.doomed = {}
  BY <1>1, <1>2, <1>5 DEF Knows, KindFits, Unread, CancelsSession, Decisions
<1>7. KindFits(q) /\ Unread(q) /\ KnowsStatus(q, status) /\ KnowsPeople(q, links)
  BY <1>1, <1>2, <1>3, <1>4, <1>5, <1>6
     DEF Knows, KindFits, Unread, KnowsStatus, KnowsPeople, AtRest
<1>8. KnowsSession(q, session) /\ KnowsRoster(q, roster)
  BY <1>1, <1>2, <1>4, <1>5, <1>6 DEF Knows, KnowsSession, KnowsRoster
<1>9. KnowsTasks(q, held) /\ KnowsReversal(q, session, roster, held)
  BY <1>3, <1>4, <1>5, <1>6 DEF KnowsTasks, KnowsReversal
<1>10. Knowing(r)
  BY <1>1, <1>4, <1>5, <1>7, <1>8, <1>9 DEF Knowing, Knows, db
<1> QED BY <1>1, <1>10, ReadSpares

(* The plan of a finished survey: nobody with another session loses a row,  *)
(* everybody without one loses all that is pending.                         *)
LEMMA SurveyedKnows ==
  ASSUME NEW p \in Request, p.pc = "survey",
         NEW st, NEW l, NEW s, NEW ro, NEW h, Knows(p, st, l, s, ro, h)
  PROVE  Knows(Surveyed(p), st, l, s, ro, h)
<1>1. CASE p.todo # {}
  BY <1>1 DEF Surveyed
<1>2. CASE p.todo = {}
  <2> DEFINE plan == {d \in p.doomed : d[2] \notin p.booked}
             label == AfterDoomed(plan)
             q == [p EXCEPT !.doomed = plan, !.pc = label]
  <2>1. Surveyed(p) = q
    BY <1>2 DEF Surveyed
  <2>2. label = IF plan = {} THEN "mail" ELSE "withdraw"
    BY DEF AfterDoomed
  <2>3. \A d : d \in plan <=> d \in p.doomed /\ d[2] \notin p.booked
    OBVIOUS
  <2> HIDE DEF plan, label
  <2>4. /\ q.pc = label /\ q.sub = p.sub /\ q.kind = p.kind
        /\ q.was = p.was /\ q.got = p.got /\ q.found = p.found
        /\ q.seen = p.seen /\ q.people = p.people /\ q.todo = p.todo
        /\ q.rest = p.rest /\ q.missing = p.missing
        /\ q.doomed = plan /\ q.booked = p.booked
    BY DEF Request
  <2> HIDE DEF q
  <2>5. label \in {"mail", "withdraw"}
    BY <2>2
  <2>6. CancelsSession(q) /\ CancelsSession(p) /\ q.kind \notin {"approved", "edit"}
    BY <2>4 DEF Knows, KindFits, CancelsSession, Decisions
  <2>7. KindFits(q) /\ Unread(q) /\ KnowsStatus(q, st) /\ KnowsPeople(q, l)
    BY <2>4, <2>5, <2>6 DEF Knows, KindFits, Unread, KnowsStatus, KnowsPeople, AtRest
  <2>8. KnowsSession(q, s) /\ KnowsRoster(q, ro) /\ KnowsTasks(q, h)
    BY <2>4, <2>5, <2>6 DEF Knows, KnowsSession, KnowsRoster, KnowsTasks
  <2>9. \A y : Elsewhere(q, y, s, ro) <=> Elsewhere(p, y, s, ro)
    BY <2>4 DEF Elsewhere
  <2>10. /\ \A y \in p.people : /\ PendingRows(y, h) \subseteq p.doomed
                                /\ Elsewhere(p, y, s, ro) <=> y \in p.booked
         /\ \A d \in p.doomed : d[2] \in p.people /\ Pends(d, h)
    BY <1>2 DEF Knows, KnowsReversal
  <2>11. \A y \in q.people : Elsewhere(q, y, s, ro) \/ PendingRows(y, h) \subseteq plan
    <3> SUFFICES ASSUME NEW y \in p.people, y \notin p.booked, NEW d \in PendingRows(y, h)
                 PROVE  d \in plan
      BY <2>4, <2>9, <2>10
    <3>1. d[2] = y
      BY DEF PendingRows
    <3> QED BY <2>3, <2>10, <3>1
  <2>12. \A d \in plan : ~Elsewhere(q, d[2], s, ro) /\ Pends(d, h)
    BY <2>3, <2>9, <2>10
  <2>13. KnowsReversal(q, s, ro, h)
    BY <2>2, <2>4, <2>11, <2>12 DEF KnowsReversal
  <2> QED BY <2>1, <2>7, <2>8, <2>13 DEF Knows
<1> QED BY <1>1, <1>2
(* A read of the survey that leaves what it knows true *)
LEMMA SurveyKnows ==
  ASSUME IInv, VInv, NEW r \in Requests, req[r].pc = "survey", UNCHANGED db,
         NEW p \in Request, Set(r, Surveyed(p)), p.pc = "survey", p.sub = req[r].sub,
         p.kind = req[r].kind, p.was = req[r].was, p.got = req[r].got,
         p.found = req[r].found, p.seen = req[r].seen, p.people = req[r].people,
         p.missing = req[r].missing, p.todo \subseteq req[r].todo,
         KnowsReversal(p, session, roster, held)
  PROVE  Knowing(r) /\ Spares(req[r].sub)
<1>1. /\ Knows(req[r], status, links, session, roster, held)
      /\ req[r] \in Request /\ req[r].sub \in Submissions
  BY UnderWay DEF AtRest
<1>2. CancelsSession(p) /\ CancelsSession(req[r]) /\ p.kind \notin {"approved", "edit"}
  BY <1>1 DEF Knows, KindFits, CancelsSession, Decisions
<1>3. KindFits(p) /\ Unread(p) /\ KnowsStatus(p, status) /\ KnowsPeople(p, links)
  BY <1>1, <1>2 DEF Knows, KindFits, Unread, KnowsStatus, KnowsPeople, AtRest
<1>4. KnowsSession(p, session) /\ KnowsRoster(p, roster) /\ KnowsTasks(p, held)
  BY <1>1, <1>2 DEF Knows, KnowsSession, KnowsRoster, KnowsTasks
<1>5. Knows(Surveyed(p), status, links, session, roster, held)
  BY <1>3, <1>4, SurveyedKnows DEF Knows
<1>6. Surveyed(p) \in Request /\ Surveyed(p).pc \notin {"idle", "done"} /\ Surveyed(p).sub = req[r].sub
  BY SurveyedRequest
<1>7. Knowing(r)
  BY <1>5, <1>6 DEF Knowing, db
<1> QED BY <1>7, ReadSpares

LEMMA SurveyTasksKnows ==
  ASSUME IInv, VInv, NEW r \in Requests, SurveyTasks(r)
  PROVE  Knowing(r) /\ Spares(req[r].sub)
<1>1. req[r].pc = "survey" /\ UNCHANGED db
  BY DEF SurveyTasks, At
<1>2. PICK y \in Speakers :
        /\ <<y, "tasks">> \in req[r].todo
        /\ Set(r, Surveyed([req[r] EXCEPT !.todo = req[r].todo \ {<<y, "tasks">>},
                                          !.doomed = req[r].doomed \cup PendingOf(y)]))
  BY DEF SurveyTasks
<1> DEFINE todo == req[r].todo \ {<<y, "tasks">>}
           doomed == req[r].doomed \cup PendingOf(y)
           p == [req[r] EXCEPT !.todo = todo, !.doomed = doomed]
<1>3. Set(r, Surveyed(p))
  BY <1>2
<1>4. /\ Knows(req[r], status, links, session, roster, held)
      /\ req[r] \in Request
  BY <1>1, UnderWay DEF AtRest
<1>5. \A d : d \in PendingOf(y) <=> d \in Doomed /\ d[2] = y /\ Pends(d, held)
  BY DEF PendingOf, Pends
<1>6. PendingOf(y) = PendingRows(y, held)
  BY <1>5 DEF PendingRows
<1>7. y \in req[r].people
  BY <1>1, <1>2, <1>4 DEF Knows, Unread
<1>8. /\ todo \in SUBSET Survey /\ todo \subseteq req[r].todo
      /\ \A z, w : <<z, w>> \in req[r].todo => <<z, w>> \in todo \/ (z = y /\ w = "tasks")
      /\ doomed \in SUBSET Doomed /\ req[r].doomed \subseteq doomed
      /\ PendingRows(y, held) \subseteq doomed
      /\ \A d \in doomed : d \in req[r].doomed \/ (d[2] = y /\ Pends(d, held))
  BY <1>5, <1>6, Fields
<1> HIDE DEF todo, doomed
<1>9. /\ p \in Request /\ p.pc = "survey" /\ p.sub = req[r].sub /\ p.kind = req[r].kind
      /\ p.was = req[r].was /\ p.got = req[r].got /\ p.found = req[r].found
      /\ p.seen = req[r].seen /\ p.people = req[r].people /\ p.todo = todo
      /\ p.rest = req[r].rest /\ p.missing = req[r].missing
      /\ p.doomed = doomed /\ p.booked = req[r].booked
  BY <1>1, <1>4, <1>8 DEF Request, Labels
<1> HIDE DEF p
<1>10. \A z : Elsewhere(p, z, session, roster) <=> Elsewhere(req[r], z, session, roster)
  BY <1>9 DEF Elsewhere
<1>11. KnowsReversal(req[r], session, roster, held)
  BY <1>4 DEF Knows
<1>12. /\ \A z \in p.people : /\ <<z, "tasks">> \in todo \/ PendingRows(z, held) \subseteq doomed
                              /\ z \in p.booked => Elsewhere(p, z, session, roster)
                              /\ Elsewhere(p, z, session, roster) => z \in p.booked \/ <<z, "sessions">> \in todo
       /\ \A d \in doomed : d[2] \in p.people /\ Pends(d, held)
  BY <1>1, <1>7, <1>8, <1>9, <1>10, <1>11 DEF KnowsReversal
<1>13. KnowsReversal(p, session, roster, held)
  BY <1>9, <1>12 DEF KnowsReversal
<1> QED BY <1>1, <1>3, <1>8, <1>9, <1>13, SurveyKnows

LEMMA SurveySessionsKnows ==
  ASSUME IInv, VInv, NEW r \in Requests, SurveySessions(r)
  PROVE  Knowing(r) /\ Spares(req[r].sub)
<1>1. req[r].pc = "survey" /\ UNCHANGED db
  BY DEF SurveySessions, At
<1>2. PICK y \in Speakers :
        /\ <<y, "sessions">> \in req[r].todo /\ <<y, "tasks">> \notin req[r].todo
        /\ Set(r, Surveyed([req[r] EXCEPT
                              !.todo = req[r].todo \ {<<y, "sessions">>},
                              !.booked = IF BookedElsewhere(r, y)
                                         THEN req[r].booked \cup {y} ELSE req[r].booked]))
  BY DEF SurveySessions
<1> DEFINE todo == req[r].todo \ {<<y, "sessions">>}
           booked == IF BookedElsewhere(r, y) THEN req[r].booked \cup {y} ELSE req[r].booked
           p == [req[r] EXCEPT !.todo = todo, !.booked = booked]
<1>3. Set(r, Surveyed(p))
  BY <1>2
<1>4. /\ Knows(req[r], status, links, session, roster, held)
      /\ req[r] \in Request
  BY <1>1, UnderWay DEF AtRest
<1>5. BookedElsewhere(r, y) <=> Elsewhere(req[r], y, session, roster)
  BY DEF BookedElsewhere, Elsewhere
<1>6. /\ todo \in SUBSET Survey /\ todo \subseteq req[r].todo
      /\ \A z, w : <<z, w>> \in req[r].todo => <<z, w>> \in todo \/ (z = y /\ w = "sessions")
      /\ booked \in SUBSET Speakers
      /\ \A z : z \in booked <=> z \in req[r].booked \/ (z = y /\ BookedElsewhere(r, y))
  BY Fields
<1> HIDE DEF todo, booked
<1>7. /\ p \in Request /\ p.pc = "survey" /\ p.sub = req[r].sub /\ p.kind = req[r].kind
      /\ p.was = req[r].was /\ p.got = req[r].got /\ p.found = req[r].found
      /\ p.seen = req[r].seen /\ p.people = req[r].people /\ p.todo = todo
      /\ p.rest = req[r].rest /\ p.missing = req[r].missing
      /\ p.doomed = req[r].doomed /\ p.booked = booked
  BY <1>1, <1>4, <1>6 DEF Request, Labels
<1> HIDE DEF p
<1>8. \A z : Elsewhere(p, z, session, roster) <=> Elsewhere(req[r], z, session, roster)
  BY <1>7 DEF Elsewhere
<1>9. KnowsReversal(req[r], session, roster, held)
  BY <1>4 DEF Knows
<1>10. "tasks" # "sessions"
  OBVIOUS
<1>11. /\ \A z \in p.people : /\ <<z, "tasks">> \in todo \/ PendingRows(z, held) \subseteq p.doomed
                              /\ z \in p.booked => Elsewhere(p, z, session, roster)
                              /\ Elsewhere(p, z, session, roster) => z \in p.booked \/ <<z, "sessions">> \in todo
       /\ \A d \in p.doomed : d[2] \in p.people /\ Pends(d, held)
  BY <1>1, <1>5, <1>6, <1>7, <1>8, <1>9, <1>10 DEF KnowsReversal
<1>12. KnowsReversal(p, session, roster, held)
  BY <1>7, <1>11 DEF KnowsReversal
<1> QED BY <1>1, <1>3, <1>6, <1>7, <1>12, SurveyKnows

(* A row withdrawn was pending, and its speaker speaks nowhere else. *)
LEMMA WithdrawKnows ==
  ASSUME IInv, VInv, NEW r \in Requests, Withdraw(r)
  PROVE  Knowing(r) /\ Spares(req[r].sub)
<1>1. req[r].pc = "withdraw" /\ UNCHANGED <<status, links, session, roster, last>>
  BY DEF Withdraw, At
<1>2. PICK d \in req[r].doomed :
        /\ held' = IF held[<<d[1], d[2]>>].by = d[3]
                   THEN [held EXCEPT ![<<d[1], d[2]>>] = NoRow] ELSE held
        /\ Set(r, [req[r] EXCEPT !.doomed = req[r].doomed \ {d},
                                 !.pc = AfterDoomed(req[r].doomed \ {d})])
  BY DEF Withdraw
<1> DEFINE doomed == req[r].doomed \ {d}
           label == AfterDoomed(doomed)
           q == [req[r] EXCEPT !.doomed = doomed, !.pc = label]
           x == <<d[1], d[2]>>
<1>3. Set(r, q)
  BY <1>2
<1>4. /\ Knows(req[r], status, links, session, roster, held)
      /\ req[r] \in Request /\ req[r].sub \in Submissions
  BY <1>1, UnderWay DEF AtRest
<1>5. /\ \A e \in req[r].doomed : Pends(e, held) /\ ~Elsewhere(req[r], e[2], session, roster)
      /\ \A y \in req[r].people : Elsewhere(req[r], y, session, roster)
                                    \/ PendingRows(y, held) \subseteq req[r].doomed
  BY <1>1, <1>4 DEF Knows, KnowsReversal
<1>6. x \in Pairs /\ d \in Doomed /\ doomed \in SUBSET Doomed
  BY Fields DEF Doomed, Pairs
<1>7. held[x].by = d[3]
  <2>1. Pends(d, held)
    BY <1>5
  <2> QED BY <2>1 DEF Pends
<1>8. held'[x] = NoRow /\ \A z \in Pairs : z # x => held'[z] = held[z]
  BY <1>2, <1>6, <1>7 DEF IInv, TypeOK
<1>9. \A e \in Doomed : Pends(e, held') <=> Pends(e, held) /\ e # d
  <2> SUFFICES ASSUME NEW e \in Doomed PROVE Pends(e, held') <=> Pends(e, held) /\ e # d
    OBVIOUS
  <2>1. <<e[1], e[2]>> \in Pairs /\ e = <<e[1], e[2], e[3]>> /\ d = <<d[1], d[2], d[3]>>
    BY <1>6 DEF Doomed, Pairs
  <2>2. CASE <<e[1], e[2]>> = x
    <3>1. ~Pends(e, held')
      BY <1>8, <2>2 DEF Pends, NoRow
    <3>2. Pends(e, held) => e[3] = d[3]
      BY <1>7, <2>2 DEF Pends
    <3>3. Pends(e, held) => e = d
      BY <2>1, <2>2, <3>2
    <3> QED BY <3>1, <3>3
  <2>3. CASE <<e[1], e[2]>> # x
    BY <1>8, <2>1, <2>3 DEF Pends
  <2> QED BY <2>2, <2>3
<1>10. \A e : e \in doomed <=> e \in req[r].doomed /\ e # d
  OBVIOUS
<1>11. label = IF doomed = {} THEN "mail" ELSE "withdraw"
  BY DEF AfterDoomed
<1> HIDE DEF doomed, label
<1>12. /\ q \in Request /\ q.pc = label /\ q.sub = req[r].sub /\ q.kind = req[r].kind
       /\ q.was = req[r].was /\ q.got = req[r].got /\ q.found = req[r].found
       /\ q.seen = req[r].seen /\ q.people = req[r].people /\ q.todo = req[r].todo
       /\ q.rest = req[r].rest /\ q.missing = req[r].missing
       /\ q.doomed = doomed /\ q.booked = req[r].booked
  <2>1. label \in Labels
    BY <1>11 DEF Labels
  <2>2. q = Dooming(req[r], doomed, label)
    BY DEF Dooming
  <2> HIDE DEF q
  <2> QED BY <1>4, <1>6, <2>1, <2>2, DoomingFields
<1> HIDE DEF q
<1>13. \A y : Elsewhere(q, y, session', roster') <=> Elsewhere(req[r], y, session, roster)
  BY <1>1, <1>12 DEF Elsewhere
<1>14. \A y : PendingRows(y, held') = PendingRows(y, held) \ {d}
  BY <1>9 DEF PendingRows
<1>15. \A y \in q.people : Elsewhere(q, y, session', roster') \/ PendingRows(y, held') \subseteq doomed
  BY <1>5, <1>10, <1>12, <1>13, <1>14
<1>16. \A e \in doomed : ~Elsewhere(q, e[2], session', roster') /\ Pends(e, held')
  BY <1>5, <1>6, <1>9, <1>10, <1>13
<1>17. KnowsReversal(q, session', roster', held')
  BY <1>11, <1>12, <1>15, <1>16 DEF KnowsReversal
<1>18. CancelsSession(q) /\ CancelsSession(req[r]) /\ q.kind \notin {"approved", "edit"}
  BY <1>1, <1>4, <1>12 DEF Knows, KindFits, CancelsSession, Decisions
<1>19. label \in {"mail", "withdraw"}
  BY <1>11
<1>20. KindFits(q) /\ Unread(q) /\ KnowsStatus(q, status') /\ KnowsPeople(q, links')
  BY <1>1, <1>4, <1>12, <1>18, <1>19 DEF Knows, KindFits, Unread, KnowsStatus, KnowsPeople, AtRest
<1>21. KnowsSession(q, session') /\ KnowsRoster(q, roster') /\ KnowsTasks(q, held')
  BY <1>1, <1>4, <1>12, <1>18, <1>19 DEF Knows, KnowsSession, KnowsRoster, KnowsTasks
<1>22. Knowing(r)
  BY <1>3, <1>12, <1>17, <1>19, <1>20, <1>21 DEF Knowing, Knows
<1>23. Spares(req[r].sub)
  <2>1. ASSUME NEW k \in SessionKeys, k[1] # req[r].sub, session[k] = "confirmed"
        PROVE  d[2] \notin roster[k]
    <3>1. k # <<req[r].sub, req[r].found>>
      BY <2>1
    <3> QED BY <1>5, <2>1, <3>1 DEF Elsewhere
  <2>2. x[2] = d[2] /\ held'[x].st # "pending"
    BY <1>8 DEF NoRow
  <2> HIDE DEF x
  <2> QED BY <1>1, <1>8, <2>1, <2>2 DEF Spares, VInv, UneditedInv
<1> QED BY <1>22, <1>23
----------------------------------------------------------------------------
(* What an edit knows *)

LEMMA EditReadSessionKnows ==
  ASSUME IInv, VInv, NEW r \in Requests, EditReadSession(r)
  PROVE  Knowing(r) /\ Spares(req[r].sub)
<1>1. req[r].pc = "relink" /\ UNCHANGED <<db, last>>
  BY DEF EditReadSession, At
<1>2. PICK c \in Creators \cup {None} :
        /\ FindsSession(r, c)
        /\ Set(r, [req[r] EXCEPT !.got = {"session"}, !.found = c, !.seen = StatusOf(r, c)])
  BY DEF EditReadSession
<1> DEFINE seen == StatusOf(r, c)
           got == {"session"}
           q == [req[r] EXCEPT !.got = got, !.found = c, !.seen = seen]
<1>3. Set(r, q)
  BY <1>2
<1>4. /\ Knows(req[r], status, links, session, roster, held)
      /\ req[r] \in Request /\ req[r].sub \in Submissions
  BY <1>1, UnderWay DEF AtRest
<1>5. /\ seen = IF c = None THEN "none" ELSE session[<<req[r].sub, c>>]
      /\ seen \in {"none", "confirmed", "cancelled"}
  BY <1>4 DEF StatusOf, IInv, TypeOK, SessionKeys
<1>6. got \in SUBSET {"speakers", "session"} /\ "session" \in got
  OBVIOUS
<1> HIDE DEF seen, got
<1>7. /\ q \in Request /\ q.pc = "relink" /\ q.sub = req[r].sub /\ q.kind = req[r].kind
      /\ q.was = req[r].was /\ q.got = got /\ q.found = c
      /\ q.seen = seen /\ q.people = req[r].people /\ q.todo = req[r].todo
      /\ q.rest = req[r].rest /\ q.missing = req[r].missing
      /\ q.doomed = req[r].doomed /\ q.booked = req[r].booked
  BY <1>1, <1>4, <1>5, <1>6, ZenonT(60) DEF Request, Labels
<1> HIDE DEF q
<1>8. req[r].kind = "edit"
  BY <1>1, <1>4 DEF Knows, KindFits
<1>9. KindFits(q) /\ Unread(q) /\ KnowsStatus(q, status) /\ KnowsPeople(q, links)
  BY <1>1, <1>4, <1>7, <1>8 DEF Knows, KindFits, Unread, KnowsStatus, KnowsPeople, CancelsSession, AtRest, Decisions
<1>10. KnowsSession(q, session) /\ KnowsRoster(q, roster)
  BY <1>5, <1>6, <1>7, <1>8 DEF KnowsSession, KnowsRoster, CancelsSession, Decisions
<1>11. KnowsTasks(q, held) /\ KnowsReversal(q, session, roster, held)
  BY <1>7, <1>8 DEF KnowsTasks, KnowsReversal
<1>12. Knowing(r)
  BY <1>1, <1>3, <1>7, <1>9, <1>10, <1>11 DEF Knowing, Knows, db
<1> QED BY <1>1, <1>12, ReadSpares

(* An edit that has dropped or added a link, or read them: what is left to  *)
(* do accounts for the difference between the links and those it wants.     *)
LEMMA LinksKnow ==
  ASSUME IInv, VInv, NEW r \in Requests, req[r].pc \in {"relink", "drop", "add"},
         "session" \in req[r].got,
         NEW q \in Request, Set(r, q), q.sub = req[r].sub, q.kind = req[r].kind,
         q.was = req[r].was, q.got = req[r].got, q.found = req[r].found,
         q.seen = req[r].seen, q.people = req[r].people, q.missing = req[r].missing,
         q.pc \in {"drop", "add", "clear", "mail"},
         q.pc = "clear" => q.found # None,
         q.pc = "mail" => q.found = None,
         KnowsPeople(q, links'),
         links' \in [Submissions -> SUBSET Speakers],
         \A t \in Submissions : t # req[r].sub => links'[t] = links[t],
         UNCHANGED <<status, session, roster, held>>
  PROVE  Knowing(r) /\ Spares(req[r].sub)
<1>1. /\ Knows(req[r], status, links, session, roster, held)
      /\ req[r] \in Request /\ req[r].sub \in Submissions
  BY UnderWay DEF AtRest
<1>2. q.kind = "edit" /\ EditTeams # {}
  BY <1>1 DEF Knows, KindFits
<1>3. KindFits(q) /\ Unread(q) /\ KnowsStatus(q, status')
  BY <1>1, <1>2 DEF Knows, KindFits, Unread, KnowsStatus, AtRest
<1>4. KnowsSession(q, session') /\ KnowsRoster(q, roster')
  BY <1>1, <1>2 DEF Knows, KnowsSession, KnowsRoster, CancelsSession, AtRest, Decisions
<1>5. q.pc = "mail" => q.seen = "none"
  BY <1>1, <1>2 DEF Knows, KnowsSession, AtRest
<1>6. KnowsTasks(q, held') /\ KnowsReversal(q, session', roster', held')
  BY <1>2, <1>5 DEF KnowsTasks, KnowsReversal, CancelsSession, Decisions
<1>7. Knowing(r)
  BY <1>3, <1>4, <1>6 DEF Knowing, Knows
<1>8. Spares(req[r].sub)
  BY <1>2 DEF Spares
<1> QED BY <1>7, <1>8

LEMMA UnlinkedFields ==
  ASSUME NEW p \in Request
  PROVE  /\ Unlinked(p).kind = p.kind /\ Unlinked(p).was = p.was
         /\ Unlinked(p).seen = p.seen /\ Unlinked(p).people = p.people
         /\ Unlinked(p).missing = p.missing
         /\ p.rest = {} => Unlinked(p).pc = "add" /\ Unlinked(p).rest = p.people
         /\ p.rest # {} => Unlinked(p).pc = "drop" /\ Unlinked(p).rest = p.rest
<1>1. CASE p.rest = {}
  BY <1>1 DEF Unlinked, Request
<1>2. CASE p.rest # {}
  BY <1>2 DEF Unlinked, Request
<1> QED BY <1>1, <1>2

LEMMA EditReadLinksKnows ==
  ASSUME IInv, VInv, NEW r \in Requests, EditReadLinks(r)
  PROVE  Knowing(r) /\ Spares(req[r].sub)
<1> DEFINE rest == links[req[r].sub] \ req[r].people
           p == [req[r] EXCEPT !.rest = rest]
           q == Unlinked(p)
<1>1. /\ req[r].pc = "relink" /\ "session" \in req[r].got /\ Set(r, q)
      /\ UNCHANGED <<db, last>>
  BY DEF EditReadLinks, At
<1>2. /\ Knows(req[r], status, links, session, roster, held)
      /\ req[r] \in Request /\ req[r].sub \in Submissions
      /\ links[req[r].sub] \in SUBSET Speakers
  BY <1>1, UnderWay DEF AtRest
<1>3. rest \in SUBSET Speakers /\ links[req[r].sub] \subseteq rest \cup req[r].people
  BY <1>2
<1> HIDE DEF rest
<1>4. /\ p \in Request /\ p.sub = req[r].sub /\ p.kind = req[r].kind
      /\ p.was = req[r].was /\ p.got = req[r].got /\ p.found = req[r].found
      /\ p.seen = req[r].seen /\ p.people = req[r].people /\ p.missing = req[r].missing
      /\ p.rest = rest
  BY <1>2, <1>3 DEF Request
<1> HIDE DEF p
<1>5. /\ q \in Request /\ q.sub = req[r].sub /\ q.kind = req[r].kind
      /\ q.was = req[r].was /\ q.got = req[r].got /\ q.found = req[r].found
      /\ q.seen = req[r].seen /\ q.people = req[r].people /\ q.missing = req[r].missing
      /\ rest = {} => q.pc = "add" /\ q.rest = req[r].people
      /\ rest # {} => q.pc = "drop" /\ q.rest = rest
  BY <1>4, UnlinkedRequest, UnlinkedFields
<1> HIDE DEF q
<1>6. KnowsPeople(q, links')
  <2>1. CASE rest = {}
    BY <1>1, <1>3, <1>5, <2>1 DEF KnowsPeople, db
  <2>2. CASE rest # {}
    BY <1>1, <1>3, <1>5, <2>2 DEF KnowsPeople, db
  <2> QED BY <2>1, <2>2
<1> QED BY <1>1, <1>5, <1>6, LinksKnow DEF db, IInv, TypeOK

LEMMA EditDropKnows ==
  ASSUME IInv, VInv, NEW r \in Requests, EditDrop(r)
  PROVE  Knowing(r) /\ Spares(req[r].sub)
<1>1. PICK x \in req[r].rest :
        /\ links' = [links EXCEPT ![req[r].sub] = links[req[r].sub] \ {x}]
        /\ Set(r, Unlinked([req[r] EXCEPT !.rest = req[r].rest \ {x}]))
  BY DEF EditDrop
<1> DEFINE rest == req[r].rest \ {x}
           p == [req[r] EXCEPT !.rest = rest]
           q == Unlinked(p)
<1>2. /\ req[r].pc = "drop" /\ "session" \in req[r].got
      /\ UNCHANGED <<status, session, roster, held, last>>
  BY DEF EditDrop, At, IInv, SessionInv, Control, AfterRead
<1>3. Set(r, q) /\ links' \in [Submissions -> SUBSET Speakers]
  BY <1>1 DEF IInv, TypeOK
<1>4. /\ Knows(req[r], status, links, session, roster, held)
      /\ req[r] \in Request /\ req[r].sub \in Submissions
      /\ links[req[r].sub] \in SUBSET Speakers
  BY <1>2, UnderWay DEF AtRest
<1>5. rest \in SUBSET Speakers /\ links'[req[r].sub] \subseteq rest \cup req[r].people
  <2>1. links'[req[r].sub] = links[req[r].sub] \ {x}
    BY <1>1, <1>4 DEF IInv, TypeOK
  <2>2. links[req[r].sub] \ req[r].people \subseteq req[r].rest
    BY <1>2, <1>4 DEF Knows, KnowsPeople
  <2> QED BY <2>1, <2>2, Fields
<1>6. \A t \in Submissions : t # req[r].sub => links'[t] = links[t]
  BY <1>1 DEF IInv, TypeOK
<1> HIDE DEF rest
<1>7. /\ p \in Request /\ p.sub = req[r].sub /\ p.kind = req[r].kind
      /\ p.was = req[r].was /\ p.got = req[r].got /\ p.found = req[r].found
      /\ p.seen = req[r].seen /\ p.people = req[r].people /\ p.missing = req[r].missing
      /\ p.rest = rest
  BY <1>4, <1>5 DEF Request
<1> HIDE DEF p
<1>8. /\ q \in Request /\ q.sub = req[r].sub /\ q.kind = req[r].kind
      /\ q.was = req[r].was /\ q.got = req[r].got /\ q.found = req[r].found
      /\ q.seen = req[r].seen /\ q.people = req[r].people /\ q.missing = req[r].missing
      /\ rest = {} => q.pc = "add" /\ q.rest = req[r].people
      /\ rest # {} => q.pc = "drop" /\ q.rest = rest
  BY <1>7, UnlinkedRequest, UnlinkedFields
<1> HIDE DEF q
<1>9. KnowsPeople(q, links')
  <2>1. CASE rest = {}
    BY <1>5, <1>8, <2>1 DEF KnowsPeople
  <2>2. CASE rest # {}
    BY <1>5, <1>8, <2>2 DEF KnowsPeople
  <2> QED BY <2>1, <2>2
<1> QED BY <1>2, <1>3, <1>6, <1>8, <1>9, LinksKnow

LEMMA EditAddKnows ==
  ASSUME IInv, VInv, NEW r \in Requests, EditAdd(r)
  PROVE  Knowing(r) /\ Spares(req[r].sub)
<1>1. PICK x \in req[r].rest :
        /\ links' = [links EXCEPT ![req[r].sub] = links[req[r].sub] \cup {x}]
        /\ Set(r, Linked([req[r] EXCEPT !.rest = req[r].rest \ {x}]))
  BY DEF EditAdd
<1> DEFINE rest == req[r].rest \ {x}
           p == [req[r] EXCEPT !.rest = rest]
           q == Linked(p)
<1>2. /\ req[r].pc = "add" /\ "session" \in req[r].got
      /\ UNCHANGED <<status, session, roster, held, last>>
  BY DEF EditAdd, At, IInv, SessionInv, Control, AfterRead
<1>3. Set(r, q) /\ links' \in [Submissions -> SUBSET Speakers]
  <2>1. x \in Speakers
    BY <1>1, Fields
  <2> QED BY <1>1, <2>1 DEF IInv, TypeOK
<1>4. /\ Knows(req[r], status, links, session, roster, held)
      /\ req[r] \in Request /\ req[r].sub \in Submissions
      /\ links[req[r].sub] \in SUBSET Speakers
  BY <1>2, UnderWay DEF AtRest
<1>5. /\ rest \in SUBSET Speakers
      /\ links'[req[r].sub] \cup rest = req[r].people
  <2>1. links'[req[r].sub] = links[req[r].sub] \cup {x}
    BY <1>1, <1>4 DEF IInv, TypeOK
  <2>2. links[req[r].sub] \cup req[r].rest = req[r].people
    BY <1>2, <1>4 DEF Knows, KnowsPeople
  <2> QED BY <2>1, <2>2, Fields
<1>6. \A t \in Submissions : t # req[r].sub => links'[t] = links[t]
  BY <1>1 DEF IInv, TypeOK
<1> HIDE DEF rest
<1>7. /\ p \in Request /\ p.pc = "add" /\ p.sub = req[r].sub /\ p.kind = req[r].kind
      /\ p.was = req[r].was /\ p.got = req[r].got /\ p.found = req[r].found
      /\ p.seen = req[r].seen /\ p.people = req[r].people /\ p.missing = req[r].missing
      /\ p.rest = rest
  BY <1>2, <1>4, <1>5 DEF Request
<1> HIDE DEF p
<1>8. /\ q \in Request /\ q.sub = req[r].sub /\ q.found = req[r].found /\ q.got = req[r].got
      /\ q.pc \in {"add", "mail", "clear"}
  BY <1>7, LinkedRequest
<1>9. /\ q.kind = req[r].kind /\ q.was = req[r].was
      /\ q.seen = req[r].seen /\ q.people = req[r].people /\ q.missing = req[r].missing
      /\ q.rest = rest
      /\ rest # {} => q.pc = "add"
      /\ rest = {} => q.pc = IF req[r].found = None THEN "mail" ELSE "clear"
  <2>1. CASE rest = {}
    BY <1>7, <2>1 DEF Linked, Request
  <2>2. CASE rest # {}
    BY <1>7, <2>2 DEF Linked, Request
  <2> QED BY <2>1, <2>2
<1> HIDE DEF q
<1>10. q.kind = "edit"
  BY <1>2, <1>4, <1>9 DEF Knows, KindFits
<1>11. KnowsPeople(q, links')
  <2>1. CASE rest = {}
    <3>1. links'[q.sub] = q.people
      BY <1>5, <1>8, <1>9, <2>1
    <3> QED BY <1>9, <1>10, <2>1, <3>1 DEF KnowsPeople, CancelsSession, Decisions
  <2>2. CASE rest # {}
    BY <1>5, <1>8, <1>9, <1>10, <2>2 DEF KnowsPeople, CancelsSession, Decisions
  <2> QED BY <2>1, <2>2
<1> QED BY <1>2, <1>3, <1>6, <1>8, <1>9, <1>11, LinksKnow
----------------------------------------------------------------------------
(* Beginnings and ends *)

LEMMA InitKeeps == Init => VInv
<1> SUFFICES ASSUME Init PROVE VInv
  OBVIOUS
<1>1. /\ \A r \in Requests : req[r] = Idle
      /\ \A s \in Submissions : last[s] = None
  BY DEF Init
<1>2. Idle.pc = "idle" /\ Idle.kind = "none"
  BY DEF Idle
<1>3. \A r \in Requests : Knows(req[r], status, links, session, roster, held)
  BY <1>1, <1>2, RestKnows DEF AtRest
<1>4. LastIsOwn
  BY <1>1, <1>2 DEF LastIsOwn, AtRest
<1>5. AcceptedWithSpeakers /\ EditConverges /\ ReversedStandsDown
  BY <1>1 DEF AcceptedWithSpeakers, EditConverges, ReversedStandsDown, Reversed, Done
<1>6. UneditedInv
  <2>1. \A s \in Submissions : ~Reversed(s)
    BY <1>1 DEF Reversed, Done
  <2>2. \A p \in Speakers : Talks(p) # {} => \E s \in Talks(p) : ~Reversed(s)
    BY <2>1 DEF Talks
  <2>3. /\ \A s \in Submissions : links[s] # {}
        /\ \A k \in SessionKeys : roster[k] \subseteq links[k[1]]
    BY DEF Init, SessionKeys
  <2> QED BY <2>2, <2>3 DEF UneditedInv
<1> QED BY <1>3, <1>4, <1>5, <1>6 DEF VInv

(* A request that begins knows nothing yet, and nothing has changed. *)
LEMMA BeginKeeps ==
  ASSUME IInv, VInv, Serial, NEW r \in Requests, MayBegin(r), NEW s \in Submissions,
         NEW q \in Request, Set(r, q), q.sub = s, q.pc \in {"write", "relink"},
         q.pc = "relink" <=> q.kind = "edit", q.kind = "edit" => EditTeams # {},
         q.got = {}, q.seen = "none", q.missing = {}, q.booked = {}, q.doomed = {},
         last' = [last EXCEPT ![s] = r], UNCHANGED db
  PROVE  VInv'
<1>1. KindFits(q) /\ Unread(q) /\ KnowsStatus(q, status') /\ KnowsPeople(q, links')
  BY DEF KindFits, Unread, KnowsStatus, KnowsPeople
<1>2. KnowsSession(q, session') /\ KnowsRoster(q, roster')
  BY DEF KnowsSession, KnowsRoster
<1>3. KnowsTasks(q, held') /\ KnowsReversal(q, session', roster', held')
  BY DEF KnowsTasks, KnowsReversal
<1>4. Knows(q, status', links', session', roster', held')
  BY <1>1, <1>2, <1>3 DEF Knows
<1>5. \A o \in Requests : req[o].pc \in AtRest
  BY DEF MayBegin, InFlight, AtRest
<1> QED BY <1>4, <1>5, Progress, ReadSpares DEF MayBegin, At

LEMMA DecideKeeps ==
  ASSUME IInv, VInv, Serial, NEW r \in Requests, NEW s \in Submissions, NEW d \in Verdicts,
         Decide(r, s, d)
  PROVE  VInv'
<1> DEFINE q == [Idle EXCEPT !.pc = "write", !.sub = s, !.kind = d, !.was = status[s]]
<1>1. d \in Decisions /\ status[s] \in {"submitted"} \cup Decisions
  BY ConstantsOK DEF IInv, TypeOK
<1>2. q \in Request
  BY <1>1 DEF Request, Labels, Idle, Creators
<1>3. /\ q.sub = s /\ q.pc = "write" /\ q.kind = d /\ q.got = {} /\ q.seen = "none"
      /\ q.missing = {} /\ q.booked = {} /\ q.doomed = {}
  BY DEF Idle
<1>4. MayBegin(r) /\ Set(r, q) /\ last' = [last EXCEPT ![s] = r] /\ UNCHANGED db
  BY DEF Decide
<1>5. d # "edit"
  BY <1>1 DEF Decisions
<1> HIDE DEF q
<1> QED BY <1>2, <1>3, <1>4, <1>5, BeginKeeps

LEMMA EditKeeps ==
  ASSUME IInv, VInv, Serial, NEW r \in Requests, NEW s \in Submissions, NEW team \in EditTeams,
         Edit(r, s, team)
  PROVE  VInv'
<1> DEFINE q == [Idle EXCEPT !.pc = "relink", !.sub = s, !.kind = "edit",
                             !.was = status[s], !.people = team]
<1>1. team \in SUBSET Speakers /\ status[s] \in {"submitted"} \cup Decisions
  BY ConstantsOK DEF IInv, TypeOK
<1>2. q \in Request
  BY <1>1 DEF Request, Labels, Idle, Creators
<1>3. /\ q.sub = s /\ q.pc = "relink" /\ q.kind = "edit" /\ q.got = {} /\ q.seen = "none"
      /\ q.missing = {} /\ q.booked = {} /\ q.doomed = {}
  BY DEF Idle
<1>4. MayBegin(r) /\ Set(r, q) /\ last' = [last EXCEPT ![s] = r] /\ UNCHANGED db
  BY DEF Edit
<1> HIDE DEF q
<1> QED BY <1>2, <1>3, <1>4, BeginKeeps

(* The record of a request that has ended *)
LEMMA Ended ==
  ASSUME IInv, NEW r \in Requests, NEW label \in {"done", "failed"}, End(r, label)
  PROVE  \E q \in Request :
           /\ Set(r, q) /\ q.pc = label /\ q.sub = req[r].sub
           /\ q.kind = req[r].kind /\ q.was = req[r].was /\ q.seen = req[r].seen
<1> DEFINE q == [Idle EXCEPT !.pc = label, !.sub = req[r].sub, !.kind = req[r].kind,
                             !.was = req[r].was, !.seen = req[r].seen]
<1>1. /\ req[r].sub \in Submissions \cup {None}
      /\ req[r].kind \in Decisions \cup {"edit", "none"}
      /\ req[r].was \in {"submitted", "none"} \cup Decisions
      /\ req[r].seen \in {"none", "confirmed", "cancelled"}
  BY DEF IInv, TypeOK, Request
<1>2. q \in Request /\ q.pc = label
  BY <1>1 DEF Request, Labels, Idle, Creators
<1>3. /\ q.sub = req[r].sub /\ q.kind = req[r].kind
      /\ q.was = req[r].was /\ q.seen = req[r].seen
  BY DEF Idle
<1>4. Set(r, q)
  BY DEF End
<1> QED BY <1>2, <1>3, <1>4

LEMMA FailureKeeps ==
  ASSUME IInv, VInv, Serial, NEW r \in Requests, req[r].pc \notin AtRest,
         End(r, "failed"), UNCHANGED <<db, last>>
  PROVE  VInv'
<1>1. PICK q \in Request :
        /\ Set(r, q) /\ q.pc = "failed" /\ q.sub = req[r].sub
        /\ q.kind = req[r].kind /\ q.was = req[r].was /\ q.seen = req[r].seen
  BY Ended
<1>2. req[r].kind = "edit" => EditTeams # {}
  BY DEF VInv, Knows, KindFits
<1>3. Knows(q, status', links', session', roster', held')
  BY <1>1, <1>2, RestKnows DEF AtRest
<1>4. Knowing(r)
  BY <1>1, <1>3 DEF Knowing
<1> QED BY <1>4, StepKeeps, ReadSpares

(* A request that runs to its end has done what its verdict asks for.       *)
LEMMA MailKeeps ==
  ASSUME IInv, VInv, Serial, NEW r \in Requests, Mail(r)
  PROVE  VInv'
<1>1. req[r].pc = "mail" /\ req[r].pc \notin AtRest /\ End(r, "done") /\ UNCHANGED <<db, last>>
  BY DEF Mail, At, AtRest
<1>2. PICK q \in Request :
        /\ Set(r, q) /\ q.pc = "done" /\ q.sub = req[r].sub
        /\ q.kind = req[r].kind /\ q.was = req[r].was /\ q.seen = req[r].seen
  BY <1>1, Ended
<1>3. Set(r, q)
  BY <1>2
<1>4. /\ req' \in [Requests -> Request] /\ req'[r] = q
      /\ \A o \in Requests \ {r} : req'[o] = req[o]
  BY <1>3, SetRequest DEF IInv, TypeOK
<1>5. /\ Knows(req[r], status, links, session, roster, held)
      /\ req[r] \in Request /\ req[r].sub \in Submissions
  BY <1>1, UnderWay
<1> DEFINE c == req[r].found
           k == <<req[r].sub, c>>
<1>6. PICK s \in Submissions : s = req[r].sub
  BY <1>5
<1>7. last[s] = r /\ \A t \in Submissions : last[t] = r => t = s
  BY <1>1, <1>6, ConstantsOK DEF VInv, LastIsOwn
<1>8. \A t \in Submissions : Done(last[t])' => t = s \/ (Done(last[t]) /\ last[t] # r)
  BY <1>1, <1>4, <1>7 DEF Done, IInv, TypeOK
<1>9. \A t \in Submissions : last[t] # None /\ last[t] # r => req'[last'[t]] = req[last[t]]
  BY <1>1, <1>4 DEF IInv, TypeOK
<1>10. \A o \in Requests : Knows(req'[o], status', links', session', roster', held')
  <2> SUFFICES ASSUME NEW o \in Requests
               PROVE  req'[o].pc \in AtRest /\ (req'[o].kind = "edit" => EditTeams # {})
    BY RestKnows
  <2>1. req[o].kind = "edit" => EditTeams # {}
    BY DEF VInv, Knows, KindFits
  <2>2. o # r => req[o].pc \in AtRest
    BY <1>1 DEF IInv, SessionInv, SerialInv, Alone
  <2> QED BY <1>2, <1>4, <2>1, <2>2 DEF AtRest
<1>11. LastIsOwn'
  BY <1>1, <1>2, <1>4, <1>7 DEF VInv, LastIsOwn, AtRest, IInv, TypeOK
<1>12. ASSUME c # None, session[k] = "confirmed", roster[k] = links[s], req[r].people = links[s],
              Lacks(req[r], held) = {}
       PROVE  Onboarded(s)
  <2>1. c \in Creators /\ Fresh(s) = {c}
    BY <1>5, <1>6, <1>12, Fields DEF IInv, SessionInv, SerialInv, OneSession, Fresh
  <2>2. \A t \in Tasks, p \in links[s] : held[<<t, p>>] # NoRow
    BY <1>5, <1>6, <1>12, UnderWay DEF Lacks, Pairs, IInv, TypeOK
  <2> QED BY <1>6, <1>12, <2>1, <2>2 DEF Onboarded
<1>13. \A t \in Submissions : Onboarded(t)' <=> Onboarded(t)
  BY <1>1 DEF Onboarded, Fresh, db
<1>14. AcceptedWithSpeakers'
  <2> SUFFICES ASSUME NEW t \in Submissions, Done(last[t])', req'[last'[t]].kind = "approved",
                      links'[t] # {}
               PROVE  Onboarded(t)
    BY <1>13 DEF AcceptedWithSpeakers
  <2>1. CASE t = s
    <3>1. q.kind = "approved" /\ links[s] # {}
      BY <1>1, <1>4, <1>7, <2>1 DEF db
    <3>2. /\ c # None /\ session[k] = "confirmed" /\ roster[k] = links[s]
          /\ req[r].people = links[s] /\ Lacks(req[r], held) = {}
      BY <1>1, <1>2, <1>5, <1>6, <3>1 DEF Knows, KnowsPeople, KnowsSession, KnowsRoster, KnowsTasks
    <3> QED BY <1>12, <2>1, <3>2
  <2>2. CASE t # s
    <3>1. Done(last[t]) /\ req[last[t]].kind = "approved" /\ links[t] # {}
      BY <1>1, <1>7, <1>8, <1>9, <2>2 DEF Done, db
    <3> QED BY <3>1 DEF VInv, AcceptedWithSpeakers
  <2> QED BY <2>1, <2>2
<1>15. EditConverges'
  <2> SUFFICES ASSUME NEW t \in Submissions, Done(last[t])', req'[last'[t]].kind = "edit",
                      req'[last'[t]].was = "approved", req'[last'[t]].seen = "confirmed"
               PROVE  Onboarded(t)
    BY <1>13 DEF EditConverges
  <2>1. CASE t = s
    <3>1. req[r].kind = "edit" /\ req[r].was = "approved" /\ req[r].seen = "confirmed"
      BY <1>1, <1>2, <1>4, <1>7, <2>1
    <3>2. c # None /\ session[k] = "confirmed"
      BY <1>1, <1>5, <1>6, <3>1 DEF Knows, KnowsSession
    <3>3. roster[k] = links[s] /\ req[r].people = links[s] /\ Lacks(req[r], held) = {}
      BY <1>1, <1>5, <1>6, <3>1, <3>2 DEF Knows, KnowsPeople, KnowsRoster, KnowsTasks
    <3> QED BY <1>12, <2>1, <3>2, <3>3
  <2>2. CASE t # s
    <3>1. /\ Done(last[t]) /\ req[last[t]].kind = "edit"
          /\ req[last[t]].was = "approved" /\ req[last[t]].seen = "confirmed"
      BY <1>7, <1>8, <1>9, <2>2 DEF Done
    <3> QED BY <3>1 DEF VInv, EditConverges
  <2> QED BY <2>1, <2>2
<1>16. CancelsSession(q) <=> CancelsSession(req[r])
  BY <1>2 DEF CancelsSession
<1>17. \A t \in Submissions : t # s /\ Reversed(t)' => Reversed(t)
  BY <1>7, <1>8, <1>9 DEF Reversed, Done, CancelsSession
<1>18. Reversed(s)' => CancelsSession(req[r])
  BY <1>1, <1>4, <1>7, <1>16 DEF Reversed, CancelsSession
<1>19. \A t \in Submissions : Reversed(t)' => \A e \in Creators : session[<<t, e>>] # "confirmed"
  <2>1. Reversed(s)' => \A e \in Creators : session[<<s, e>>] # "confirmed"
    BY <1>1, <1>5, <1>6, <1>18 DEF Knows, KnowsSession
  <2> QED BY <1>17, <2>1 DEF VInv, ReversedStandsDown
<1>20. ReversedStandsDown'
  BY <1>1, <1>19 DEF ReversedStandsDown, db
<1>21. EditTeams = {} => UneditedInv'
  <2> SUFFICES ASSUME EditTeams = {} PROVE UneditedInv'
    OBVIOUS
  <2>1. UneditedInv
    BY DEF VInv
  <2>2. ASSUME NEW p \in Speakers, Talks(p) # {}, \A t \in Talks(p) : Reversed(t)',
               NEW u \in Tasks, held[<<u, p>>].st = "pending"
        PROVE  FALSE
    <3>1. s \in Talks(p)
      <4> SUFFICES ASSUME s \notin Talks(p) PROVE FALSE
        OBVIOUS
      <4>1. \A t \in Talks(p) : Reversed(t)
        BY <1>17, <2>2 DEF Talks
      <4> QED BY <2>1, <2>2, <4>1 DEF UneditedInv
    <3>2. CancelsSession(req[r]) /\ p \in links[s]
      BY <1>18, <2>2, <3>1 DEF Talks
    <3>3. p \in req[r].people
      BY <1>1, <1>5, <1>6, <3>2 DEF Knows, KnowsPeople
    <3>4. ~Elsewhere(req[r], p, session, roster)
      <4> SUFFICES ASSUME NEW j \in SessionKeys, session[j] = "confirmed", p \in roster[j]
                   PROVE  FALSE
        BY DEF Elsewhere
      <4>1. j[1] \in Submissions /\ j[2] \in Creators /\ j = <<j[1], j[2]>>
        BY DEF SessionKeys
      <4>2. j[1] \in Talks(p)
        BY <2>1, <4>1 DEF UneditedInv, Talks
      <4> QED BY <1>19, <2>2, <4>1, <4>2
    <3>5. PendingRows(p, held) = {}
      BY <1>1, <1>5, <1>6, <3>2, <3>3, <3>4 DEF Knows, KnowsReversal
    <3>6. <<u, p>> \in Pairs /\ held[<<u, p>>] \in Row
      BY <2>2 DEF Pairs, IInv, TypeOK, NoRow
    <3>7. held[<<u, p>>] = [by |-> held[<<u, p>>].by, st |-> "pending"] /\ held[<<u, p>>].by \in Creators
      BY <2>2, <3>6 DEF Row
    <3> DEFINE d == <<u, p, held[<<u, p>>].by>>
    <3>8. d \in Doomed /\ d[1] = u /\ d[2] = p /\ d[3] = held[<<u, p>>].by
      BY <3>7 DEF Doomed
    <3> HIDE DEF d
    <3>9. d \in PendingRows(p, held)
      BY <3>7, <3>8 DEF PendingRows, Pends
    <3> QED BY <3>5, <3>9
  <2>3. \A p : Talks(p)' = Talks(p)
    BY <1>1 DEF Talks, db
  <2>4. ASSUME NEW p \in Speakers, Talks(p)' # {}, \A t \in Talks(p)' : Reversed(t)', NEW u \in Tasks
        PROVE  held'[<<u, p>>].st # "pending"
    BY <1>1, <2>2, <2>3, <2>4 DEF db
  <2> QED BY <1>1, <2>1, <2>4 DEF UneditedInv, db
<1> QED BY <1>10, <1>11, <1>14, <1>15, <1>20, <1>21 DEF VInv
(* A task completed while no request runs *)
LEMMA CompleteKeeps ==
  ASSUME IInv, VInv, Serial, NEW x \in Pairs, Complete(x)
  PROVE  VInv'
<1>1. /\ InFlight = {} /\ held[x].st = "pending"
      /\ held' = [held EXCEPT ![x] = [held[x] EXCEPT !.st = "completed"]]
      /\ UNCHANGED <<status, links, session, roster, req, last>>
  BY DEF Complete
<1>2. held[x] \in Row
  BY <1>1 DEF IInv, TypeOK, NoRow
<1>3. [held[x] EXCEPT !.st = "completed"].st = "completed"
  BY <1>2 DEF Row
<1>4. held'[x].st = "completed" /\ \A y \in Pairs : y # x => held'[y] = held[y]
  BY <1>1, <1>3 DEF IInv, TypeOK
<1>5. \A y \in Pairs : /\ held'[y] = NoRow => held[y] = NoRow
                       /\ held'[y].st = "pending" => held[y].st = "pending"
  BY <1>4 DEF NoRow
<1>6. \A o \in Requests : Knows(req'[o], status', links', session', roster', held')
  <2> SUFFICES ASSUME NEW o \in Requests
               PROVE  req[o].pc \in AtRest /\ (req[o].kind = "edit" => EditTeams # {})
    BY <1>1, RestKnows
  <2>1. req[o].kind = "edit" => EditTeams # {}
    BY DEF VInv, Knows, KindFits
  <2> QED BY <1>1, <2>1 DEF InFlight, AtRest
<1>7. \A s \in Submissions : Onboarded(s) => Onboarded(s)'
  <2> SUFFICES ASSUME NEW s \in Submissions, Onboarded(s) PROVE Onboarded(s)'
    OBVIOUS
  <2>1. \A t \in Tasks, p \in links[s] : <<t, p>> \in Pairs
    BY DEF Pairs, IInv, TypeOK
  <2>2. \A t \in Tasks, p \in links[s] : held'[<<t, p>>] # NoRow
    BY <1>5, <2>1 DEF Onboarded
  <2> QED BY <1>1, <2>2 DEF Onboarded, Fresh
<1>8. LastIsOwn' /\ AcceptedWithSpeakers' /\ EditConverges' /\ ReversedStandsDown'
  BY <1>1, <1>7 DEF VInv, LastIsOwn, AcceptedWithSpeakers, EditConverges, ReversedStandsDown,
                    Reversed, Done
<1>9. EditTeams = {} => UneditedInv'
  <2> SUFFICES ASSUME EditTeams = {} PROVE UneditedInv'
    OBVIOUS
  <2>1. UneditedInv
    BY DEF VInv
  <2>2. /\ \A s \in Submissions : Reversed(s)' <=> Reversed(s)
        /\ \A p : Talks(p)' = Talks(p)
    BY <1>1 DEF Reversed, Done, Talks
  <2>3. ASSUME NEW p \in Speakers, Talks(p)' # {}, \A s \in Talks(p)' : Reversed(s)', NEW t \in Tasks
        PROVE  held'[<<t, p>>].st # "pending"
    <3>1. held[<<t, p>>].st # "pending"
      BY <2>1, <2>2, <2>3 DEF UneditedInv, Talks
    <3> QED BY <1>5, <3>1 DEF Pairs
  <2> QED BY <1>1, <2>1, <2>3 DEF UneditedInv
<1> QED BY <1>6, <1>8, <1>9 DEF VInv

----------------------------------------------------------------------------
(* The theorems *)

LEMMA StepSpares ==
  ASSUME IInv, VInv, Serial, NEW r \in Requests, Step(r)
  PROVE  VInv'
<1>1. CASE WriteStatus(r)
  BY <1>1, WriteStatusKnows, StepKeeps DEF WriteStatus, At, AtRest
<1>2. CASE ReadSpeakers(r) \/ ReadSession(r) \/ ReadHeld(r)
  BY <1>2, ReadSpeakersKnows, ReadSessionKnows, ReadHeldKnows, StepKeeps
     DEF ReadSpeakers, ReadSession, ReadHeld, At, AtRest
<1>3. CASE CreateSession(r) \/ RepairSession(r) \/ ClearRoster(r) \/ FillRoster(r)
  BY <1>3, CreateSessionKnows, RepairSessionKnows, ClearRosterKnows, FillRosterKnows, StepKeeps
     DEF CreateSession, RepairSession, ClearRoster, FillRoster, At, AtRest
<1>4. CASE CreateTask(r)
  <2>1. /\ req[r].pc \notin AtRest /\ UNCHANGED <<status, links, session, roster, last>>
        /\ \E x \in req[r].missing :
             IF held[x] = NoRow
             THEN /\ held' = [held EXCEPT ![x] = [by |-> r, st |-> "pending"]]
                  /\ Set(r, [req[r] EXCEPT !.missing = req[r].missing \ {x},
                                           !.pc = AfterTasks(req[r].missing \ {x})])
             ELSE held' = held /\ End(r, "failed")
    BY <1>4 DEF CreateTask, At, AtRest
  <2>2. CASE held' = held /\ End(r, "failed")
    BY <2>1, <2>2, FailureKeeps DEF db
  <2>3. ASSUME NEW x \in req[r].missing, held[x] = NoRow,
               held' = [held EXCEPT ![x] = [by |-> r, st |-> "pending"]],
               Set(r, [req[r] EXCEPT !.missing = req[r].missing \ {x},
                                     !.pc = AfterTasks(req[r].missing \ {x})])
        PROVE  VInv'
    BY <1>4, <2>1, <2>3, CreateTaskKnows, StepKeeps
  <2> QED BY <2>1, <2>2, <2>3
<1>5. CASE FindSession(r) \/ CancelSession(r) \/ ReadReversed(r)
  BY <1>5, FindSessionKnows, CancelSessionKnows, ReadReversedKnows, StepKeeps
     DEF FindSession, CancelSession, ReadReversed, At, AtRest
<1>6. CASE SurveyTasks(r) \/ SurveySessions(r) \/ Withdraw(r)
  BY <1>6, SurveyTasksKnows, SurveySessionsKnows, WithdrawKnows, StepKeeps
     DEF SurveyTasks, SurveySessions, Withdraw, At, AtRest
<1>7. CASE SyncSpeakers(r)
  BY <1>7, EditReadSessionKnows, EditReadLinksKnows, EditDropKnows, EditAddKnows, StepKeeps
     DEF SyncSpeakers, EditReadSession, EditReadLinks, EditDrop, EditAdd, At, AtRest
<1> QED BY <1>1, <1>2, <1>3, <1>4, <1>5, <1>6, <1>7, MailKeeps DEF Step, Convert, Reverse

LEMMA NextKeeps ==
  ASSUME Serial, IInv, VInv, [Next]_vars
  PROVE  VInv'
<1>1. CASE UNCHANGED vars
  <2>1. VInv' <=> VInv
    BY <1>1 DEF vars, VInv, LastIsOwn, AcceptedWithSpeakers, EditConverges, ReversedStandsDown,
                Reversed, Done, Onboarded, Fresh, UneditedInv, Talks
  <2> QED BY <2>1
<1>2. CASE \E r \in Requests, s \in Submissions, d \in Verdicts : Decide(r, s, d)
  BY <1>2, DecideKeeps
<1>3. CASE \E r \in Requests, s \in Submissions, team \in EditTeams : Edit(r, s, team)
  BY <1>3, EditKeeps
<1>4. CASE \E r \in Requests : Step(r)
  BY <1>4, StepSpares
<1>5. CASE \E r \in Requests : Fail(r)
  BY <1>5, FailureKeeps DEF Fail, InFlight, AtRest
<1>6. CASE \E x \in Pairs : Complete(x)
  BY <1>6, CompleteKeeps
<1> QED BY <1>1, <1>2, <1>3, <1>4, <1>5, <1>6 DEF Next

LEMMA SpecKeeps ==
  ASSUME Serial
  PROVE  Spec => []VInv
<1>1. Init => VInv
  BY InitKeeps
<1>2. IInv /\ VInv /\ [Next]_vars => VInv'
  BY NextKeeps
<1> QED BY <1>1, <1>2, SpecInv, PTL DEF Spec

(* Requests run one at a time and fail between any two statements: whoever  *)
(* ran to its end as an acceptance of a proposal with speakers has left it  *)
(* one confirmed session, all of them on its roster and holding every task; *)
(* so has an edit of an accepted proposal (recordDecision in                *)
(* src/domain/review.ts, syncSpeakers in src/domain/submissions.ts).        *)
THEOREM VerdictsConverge ==
  ASSUME Serial
  PROVE  Spec => [](AcceptedWithSpeakers /\ EditConverges)
<1>1. VInv => AcceptedWithSpeakers /\ EditConverges
  BY DEF VInv
<1> QED BY <1>1, SpecKeeps, PTL

(* Where proposals keep their speakers, a verdict that ran to its end holds *)
(* in full: an acceptance has onboarded everyone on the proposal, and once  *)
(* all of a speaker's proposals are reversed nothing is left for them to do *)
(* and no session to be on (recordDecision and planReversalCleanup in       *)
(* src/domain/review.ts).                                                   *)
THEOREM VerdictsAlwaysTakeHold ==
  ASSUME Serial, EditTeams = {}
  PROVE  Spec => []VerdictsTakeHold
<1>1. VInv => AcceptConverges
  BY DEF VInv, UneditedInv, AcceptedWithSpeakers, AcceptConverges
<1>2. VInv => ReversalWithdraws
  <2> SUFFICES ASSUME VInv, NEW p \in Speakers, Talks(p) # {}, \A s \in Talks(p) : Reversed(s)
               PROVE  /\ Live(p) = {}
                      /\ \A t \in Tasks : held[<<t, p>>].st # "pending"
    BY DEF ReversalWithdraws, Talks
  <2>1. UneditedInv
    BY DEF VInv
  <2>2. ASSUME NEW k \in SessionKeys, session[k] = "confirmed", p \in roster[k]
        PROVE  FALSE
    <3>1. k[1] \in Submissions /\ k[2] \in Creators /\ k = <<k[1], k[2]>>
      BY DEF SessionKeys
    <3>2. k[1] \in Talks(p)
      BY <2>1, <2>2, <3>1 DEF UneditedInv, Talks
    <3> QED BY <2>2, <3>1, <3>2 DEF VInv, ReversedStandsDown
  <2> QED BY <2>1, <2>2 DEF UneditedInv, Live
<1>3. VInv => VerdictsTakeHold
  BY <1>1, <1>2 DEF VerdictsTakeHold
<1> QED BY <1>3, SpecKeeps, PTL
----------------------------------------------------------------------------
(* Every statement is a justified change of module Onboarding *)

(* The sessions and the rosters as Onboarding sees them, and the tasks *)
Grid(f) == [s \in Submissions |-> [c \in Creators |-> f[<<s, c>>]]]
Statuses(h) == [x \in Pairs |-> h[x].st]
Put(grid, s, c, v) == [grid EXCEPT ![s][c] = v]

LEMMA GridExcept ==
  ASSUME NEW f, NEW R, f \in [SessionKeys -> R], NEW s \in Submissions, NEW c \in Creators, NEW v
  PROVE  Grid([f EXCEPT ![<<s, c>>] = v]) = Put(Grid(f), s, c, v)
<1> DEFINE g == [f EXCEPT ![<<s, c>>] = v]
           row == [Grid(f)[s] EXCEPT ![c] = v]
<1>1. \A t \in Submissions, e \in Creators :
        g[<<t, e>>] = IF t = s /\ e = c THEN v ELSE f[<<t, e>>]
  BY DEF SessionKeys
<1> HIDE DEF g
<1>2. row = [e \in Creators |-> IF e = c THEN v ELSE f[<<s, e>>]]
  BY DEF Grid
<1>3. [e \in Creators |-> g[<<s, e>>]] = row
  BY <1>1, <1>2
<1>4. \A t \in Submissions : t # s => [e \in Creators |-> g[<<t, e>>]] = Grid(f)[t]
  BY <1>1 DEF Grid
<1>5. Put(Grid(f), s, c, v) = [t \in Submissions |-> IF t = s THEN row ELSE Grid(f)[t]]
  BY DEF Grid, Put
<1> HIDE DEF row
<1>6. Grid(g) = [t \in Submissions |-> IF t = s THEN row ELSE Grid(f)[t]]
  BY <1>3, <1>4 DEF Grid
<1> QED BY <1>5, <1>6 DEF g

LEMMA StatusesExcept ==
  ASSUME NEW h, NEW R, h \in [Pairs -> R], NEW x \in Pairs, NEW v
  PROVE  Statuses([h EXCEPT ![x] = v]) = [Statuses(h) EXCEPT ![x] = v.st]
  BY DEF Statuses

(* A step of Onboarding, or none *)
Justified == Promise!Next \/ UNCHANGED Promise!vars

LEMMA NothingPromised ==
  ASSUME UNCHANGED <<status, session, roster, held>>
  PROVE  Justified
  BY DEF Justified, Promise!vars

LEMMA WriteStatusJustified ==
  ASSUME IInv, VInv, NEW r \in Requests, WriteStatus(r)
  PROVE  Justified
<1>1. /\ req[r].pc = "write" /\ req[r].kind \in Decisions /\ req[r].sub \in Submissions
      /\ status' = [status EXCEPT ![req[r].sub] = req[r].kind]
      /\ UNCHANGED <<session, roster, held>>
  BY DEF WriteStatus, At, AtRest, IInv, SessionInv, Control
<1>2. Promise!Rule(req[r].sub, req[r].kind)
  BY <1>1 DEF Promise!Rule
<1> QED BY <1>1, <1>2 DEF Justified, Promise!Next, Decisions

LEMMA SessionJustified ==
  ASSUME NEW s \in Submissions, NEW c \in Creators,
         Promise!Convert(s, c) \/ Promise!Restore(s, c) \/ Promise!StandDown(s, c)
         \/ (\E team \in SUBSET Speakers : Promise!Recast(s, c, team))
  PROVE  Justified
  BY DEF Justified, Promise!Next

LEMMA TaskJustified ==
  ASSUME NEW x \in Pairs, Promise!Assign(x) \/ Promise!Finish(x) \/ Promise!Withdraw(x)
  PROVE  Justified
  BY DEF Justified, Promise!Next, Pairs

LEMMA CreateSessionJustified ==
  ASSUME IInv, VInv, Serial, NEW r \in Requests, CreateSession(r)
  PROVE  Justified
<1>1. /\ req[r].pc = "session" /\ req[r].found = None /\ "session" \in req[r].got
      /\ session' = [session EXCEPT ![<<req[r].sub, r>>] = "confirmed"]
      /\ UNCHANGED <<status, links, roster, held, last>>
  BY DEF CreateSession, At, IInv, SessionInv, Control, AfterRead
<1>2. /\ Knows(req[r], status, links, session, roster, held)
      /\ req[r].sub \in Submissions /\ r \in Creators
  BY <1>1, UnderWay DEF AtRest, Creators
<1>3. status[req[r].sub] = "approved"
  BY <1>1, <1>2 DEF Knows, KindFits, KnowsStatus, AtRest
<1>4. \A e \in Creators : session[<<req[r].sub, e>>] = "none"
  BY <1>1, <1>2 DEF IInv, SessionInv, SerialInv, NoneMeansFresh, Fresh, AtRest
<1>5. PICK s \in Submissions : s = req[r].sub
  BY <1>2
<1>6. session \in [SessionKeys -> {"none", "confirmed", "cancelled"}]
  BY DEF IInv, TypeOK
<1>7. Grid(session') = Put(Grid(session), s, r, "confirmed")
  BY <1>1, <1>2, <1>5, <1>6, GridExcept
<1>8. Promise!Convert(s, r)
  BY <1>1, <1>3, <1>4, <1>5, <1>7 DEF Promise!Convert, Grid, Put
<1> QED BY <1>2, <1>8, SessionJustified

LEMMA RepairSessionJustified ==
  ASSUME IInv, VInv, NEW r \in Requests, RepairSession(r)
  PROVE  Justified
<1>1. /\ req[r].pc = "session" /\ req[r].found # None /\ "session" \in req[r].got
      /\ session' = IF req[r].seen = "confirmed" THEN session
                    ELSE [session EXCEPT ![<<req[r].sub, req[r].found>>] = "confirmed"]
      /\ UNCHANGED <<status, links, roster, held, last>>
  BY DEF RepairSession, At, IInv, SessionInv, Control, AfterRead
<1>2. CASE req[r].seen = "confirmed"
  BY <1>1, <1>2, NothingPromised
<1>3. CASE req[r].seen # "confirmed"
  <2>1. /\ Knows(req[r], status, links, session, roster, held)
        /\ req[r].sub \in Submissions /\ req[r].found \in Creators
    BY <1>1, UnderWay, Fields DEF AtRest
  <2>2. PICK s \in Submissions, c \in Creators : s = req[r].sub /\ c = req[r].found
    BY <2>1
  <2>3. status[s] = "approved" /\ session[<<s, c>>] = req[r].seen
    BY <1>1, <2>1, <2>2 DEF Knows, KindFits, KnowsStatus, KnowsSession, AtRest
  <2>4. session \in [SessionKeys -> {"none", "confirmed", "cancelled"}]
    BY DEF IInv, TypeOK
  <2>5. session[<<s, c>>] \in {"none", "confirmed", "cancelled"}
    BY <2>4 DEF SessionKeys
  <2>6. session[<<s, c>>] = "cancelled"
    BY <1>1, <1>3, <2>2, <2>3, <2>5 DEF IInv, SessionInv, FoundExists, AtRest
  <2>7. Grid(session') = Put(Grid(session), s, c, "confirmed")
    BY <1>1, <1>3, <2>2, <2>4, GridExcept
  <2>8. Promise!Restore(s, c)
    BY <1>1, <2>3, <2>6, <2>7 DEF Promise!Restore, Grid, Put
  <2> QED BY <2>8, SessionJustified
<1> QED BY <1>2, <1>3

LEMMA CancelSessionJustified ==
  ASSUME IInv, VInv, NEW r \in Requests, CancelSession(r)
  PROVE  Justified
<1>1. /\ req[r].pc = "cancel"
      /\ session' = IF req[r].seen \in {"none", "cancelled"} THEN session
                    ELSE [session EXCEPT ![<<req[r].sub, req[r].found>>] = "cancelled"]
      /\ UNCHANGED <<status, links, roster, held, last>>
  BY DEF CancelSession, At
<1>2. CASE req[r].seen \in {"none", "cancelled"}
  BY <1>1, <1>2, NothingPromised
<1>3. CASE req[r].seen \notin {"none", "cancelled"}
  <2>1. /\ Knows(req[r], status, links, session, roster, held)
        /\ req[r].sub \in Submissions /\ req[r].found \in Creators \cup {None}
    BY <1>1, UnderWay, Fields DEF AtRest
  <2>2. /\ CancelsSession(req[r])
        /\ req[r].seen = IF req[r].found = None THEN "none"
                         ELSE session[<<req[r].sub, req[r].found>>]
    BY <1>1, <2>1 DEF Knows, KindFits, KnowsSession
  <2>3. PICK s \in Submissions, c \in Creators : s = req[r].sub /\ c = req[r].found
    BY <1>3, <2>1, <2>2
  <2>4. session \in [SessionKeys -> {"none", "confirmed", "cancelled"}]
    BY DEF IInv, TypeOK
  <2>5. c # None
    BY ConstantsOK DEF Creators
  <2>6. session[<<s, c>>] = "confirmed"
    <3>1. session[<<s, c>>] \in {"none", "confirmed", "cancelled"}
      BY <2>4 DEF SessionKeys
    <3> QED BY <1>3, <2>2, <2>3, <2>5, <3>1
  <2>7. status[s] # "approved"
    BY <1>1, <2>1, <2>2, <2>3 DEF Knows, KnowsStatus, CancelsSession, Decisions, AtRest
  <2>8. Grid(session') = Put(Grid(session), s, c, "cancelled")
    BY <1>1, <1>3, <2>3, <2>4, GridExcept, ZenonT(60)
  <2>9. Promise!StandDown(s, c)
    BY <1>1, <2>6, <2>7, <2>8 DEF Promise!StandDown, Promise!Confirmed, Grid, Put
  <2> QED BY <2>9, SessionJustified
<1> QED BY <1>2, <1>3

LEMMA RosterJustified ==
  ASSUME IInv, NEW s \in Submissions, NEW c \in Creators, NEW team \in SUBSET Speakers,
         session[<<s, c>>] # "none", roster' = [roster EXCEPT ![<<s, c>>] = team],
         UNCHANGED <<status, session, held>>
  PROVE  Justified
<1>1. roster \in [SessionKeys -> SUBSET Speakers]
  BY DEF IInv, TypeOK
<1>2. Grid(roster') = Put(Grid(roster), s, c, team)
  BY <1>1, GridExcept
<1>3. Promise!Recast(s, c, team)
  BY <1>2 DEF Promise!Recast, Grid, Put
<1> QED BY <1>3, SessionJustified

LEMMA SetSpeakersJustified ==
  ASSUME IInv, VInv, NEW r \in Requests, ClearRoster(r) \/ FillRoster(r)
  PROVE  Justified
<1>1. req[r].pc \in {"clear", "fill"} /\ UNCHANGED <<status, session, held>>
  BY DEF ClearRoster, FillRoster, At
<1>2. /\ Knows(req[r], status, links, session, roster, held)
      /\ req[r].sub \in Submissions /\ req[r].found \in Creators \cup {None}
      /\ req[r].people \in SUBSET Speakers
  BY <1>1, UnderWay, Fields DEF AtRest
<1>3. PICK s \in Submissions, c \in Creators : s = req[r].sub /\ c = req[r].found
  BY <1>1, <1>2 DEF Knows, KindFits
<1>4. session[<<s, c>>] # "none"
  BY <1>1, <1>3, ConstantsOK DEF IInv, SessionInv, FoundExists, AtRest, Creators
<1>5. CASE ClearRoster(r)
  <2>1. PICK team \in SUBSET Speakers : team = {}
    OBVIOUS
  <2>2. roster' = [roster EXCEPT ![<<s, c>>] = team]
    BY <1>3, <1>5, <2>1 DEF ClearRoster
  <2> QED BY <1>1, <1>4, <2>2, RosterJustified
<1>6. CASE FillRoster(r)
  <2>1. PICK team \in SUBSET Speakers : team = roster[<<s, c>>] \cup req[r].people
    BY <1>2 DEF IInv, TypeOK, SessionKeys
  <2>2. roster' = [roster EXCEPT ![<<s, c>>] = team]
    BY <1>3, <1>6, <2>1 DEF FillRoster
  <2> QED BY <1>1, <1>4, <2>2, RosterJustified
<1> QED BY <1>5, <1>6

LEMMA CreateTaskJustified ==
  ASSUME IInv, VInv, NEW r \in Requests, CreateTask(r)
  PROVE  Justified
<1>1. /\ req[r].pc = "tasks"
      /\ UNCHANGED <<status, links, session, roster, last>>
      /\ \E x \in req[r].missing :
           IF held[x] = NoRow
           THEN held' = [held EXCEPT ![x] = [by |-> r, st |-> "pending"]]
           ELSE held' = held
  BY DEF CreateTask, At
<1>2. CASE held' = held
  BY <1>1, <1>2, NothingPromised
<1>3. ASSUME NEW x \in req[r].missing, held[x] = NoRow,
             held' = [held EXCEPT ![x] = [by |-> r, st |-> "pending"]]
      PROVE  Justified
  <2>1. /\ Knows(req[r], status, links, session, roster, held)
        /\ req[r].sub \in Submissions /\ req[r].found \in Creators \cup {None}
        /\ req[r].missing \in SUBSET Pairs
    BY <1>1, UnderWay, Fields DEF AtRest
  <2>2. x \in Pairs /\ x[2] \in req[r].people
    BY <1>1, <1>3, <2>1 DEF Knows, Unread, AtRest
  <2>3. /\ req[r].found \in Creators
        /\ session[<<req[r].sub, req[r].found>>] = "confirmed"
        /\ roster[<<req[r].sub, req[r].found>>] = req[r].people
    <3>1. CASE req[r].kind = "approved"
      BY <1>1, <2>1, <2>2, <3>1 DEF Knows, KnowsSession, KnowsRoster
    <3>2. CASE req[r].kind = "edit"
      <4>1. req[r].found # None /\ req[r].seen = "confirmed"
        BY <1>1, <2>1, <3>2 DEF Knows, KindFits
      <4>2. "session" \in req[r].got
        BY <1>1, <2>1, <3>2, <4>1 DEF Knows, KnowsSession, AtRest
      <4>3. req[r].seen = session[<<req[r].sub, req[r].found>>]
        BY <1>1, <2>1, <3>2, <4>1, <4>2 DEF Knows, KnowsSession, AtRest
      <4>4. roster[<<req[r].sub, req[r].found>>] = req[r].people
        BY <1>1, <2>1, <3>2, <4>1 DEF Knows, KnowsRoster
      <4> QED BY <2>1, <4>1, <4>3, <4>4
    <3> QED BY <1>1, <2>1, <3>1, <3>2 DEF Knows, KindFits
  <2>4. Promise!Speaking(x[2])
    BY <2>1, <2>2, <2>3 DEF Promise!Speaking, Promise!Confirmed
  <2>5. held \in [Pairs -> Row \cup {NoRow}]
    BY DEF IInv, TypeOK
  <2>6. Statuses(held') = [Statuses(held) EXCEPT ![x] = "pending"]
    BY <1>3, <2>2, <2>5 DEF Statuses
  <2>7. Promise!Assign(x)
    BY <1>1, <1>3, <2>2, <2>4, <2>6 DEF Promise!Assign, Statuses, NoRow
  <2> QED BY <2>2, <2>7, TaskJustified
<1> QED BY <1>1, <1>2, <1>3

LEMMA WithdrawJustified ==
  ASSUME IInv, VInv, NEW r \in Requests, Withdraw(r)
  PROVE  Justified
<1>1. /\ req[r].pc = "withdraw"
      /\ UNCHANGED <<status, links, session, roster, last>>
      /\ \E d \in req[r].doomed :
           held' = IF held[<<d[1], d[2]>>].by = d[3]
                   THEN [held EXCEPT ![<<d[1], d[2]>>] = NoRow] ELSE held
  BY DEF Withdraw, At
<1>2. CASE held' = held
  BY <1>1, <1>2, NothingPromised
<1>3. ASSUME NEW d \in req[r].doomed, held' = [held EXCEPT ![<<d[1], d[2]>>] = NoRow]
      PROVE  Justified
  <2>1. /\ Knows(req[r], status, links, session, roster, held)
        /\ req[r].sub \in Submissions /\ req[r].doomed \in SUBSET Doomed
    BY <1>1, UnderWay, Fields DEF AtRest
  <2>2. Pends(d, held) /\ ~Elsewhere(req[r], d[2], session, roster)
    BY <1>1, <1>3, <2>1 DEF Knows, KnowsReversal
  <2>3. \A c \in Creators : session[<<req[r].sub, c>>] # "confirmed"
    BY <1>1, <2>1 DEF Knows, KindFits, KnowsSession
  <2>4. PICK x \in Pairs : x = <<d[1], d[2]>>
    BY <2>1 DEF Doomed, Pairs
  <2>5. x[2] = d[2]
    BY <2>4
  <2>6. ASSUME NEW s \in Submissions, NEW c \in Creators, session[<<s, c>>] = "confirmed",
               x[2] \in roster[<<s, c>>]
        PROVE  FALSE
    <3>1. <<s, c>> \in SessionKeys
      BY DEF SessionKeys
    <3>2. <<s, c>> = <<req[r].sub, req[r].found>>
      BY <2>2, <2>5, <2>6, <3>1 DEF Elsewhere
    <3>3. s = req[r].sub
      BY <3>2
    <3> QED BY <2>3, <2>6, <3>3
  <2>7. ~Promise!Speaking(x[2])
    BY <2>6 DEF Promise!Speaking, Promise!Confirmed
  <2>8. held \in [Pairs -> Row \cup {NoRow}]
    BY DEF IInv, TypeOK
  <2>9. Statuses(held') = [Statuses(held) EXCEPT ![x] = "none"]
    BY <1>3, <2>4, <2>8 DEF Statuses, NoRow
  <2>10. held[x].st = "pending"
    BY <2>2, <2>4 DEF Pends
  <2>11. Promise!Withdraw(x)
    BY <1>1, <2>7, <2>9, <2>10 DEF Promise!Withdraw, Statuses
  <2> QED BY <2>11, TaskJustified
<1> QED BY <1>1, <1>2, <1>3

LEMMA CompleteJustified ==
  ASSUME IInv, NEW x \in Pairs, Complete(x)
  PROVE  Justified
<1>1. /\ held[x].st = "pending" /\ held' = [held EXCEPT ![x].st = "completed"]
      /\ UNCHANGED <<status, session, roster>>
  BY DEF Complete
<1>2. held \in [Pairs -> Row \cup {NoRow}]
  BY DEF IInv, TypeOK
<1>3. held[x] \in Row
  BY <1>1, <1>2 DEF NoRow
<1>4. \A y \in Pairs : held'[y].st = IF y = x THEN "completed" ELSE held[y].st
  BY <1>1, <1>2, <1>3 DEF Row
<1>5. Statuses(held') = [Statuses(held) EXCEPT ![x] = "completed"]
  BY <1>4 DEF Statuses
<1>6. Promise!Finish(x)
  BY <1>1, <1>5 DEF Promise!Finish, Statuses
<1> QED BY <1>6, TaskJustified

LEMMA NextJustified ==
  ASSUME Serial, IInv, VInv, [Next]_vars
  PROVE  [Promise!Next]_Promise!vars
<1>1. CASE UNCHANGED vars
  BY <1>1, NothingPromised DEF vars, Justified
<1>2. CASE \E r \in Requests, s \in Submissions, d \in Verdicts : Decide(r, s, d)
  BY <1>2, NothingPromised DEF Decide, db, Justified
<1>3. CASE \E r \in Requests, s \in Submissions, team \in EditTeams : Edit(r, s, team)
  BY <1>3, NothingPromised DEF Edit, db, Justified
<1>4. CASE \E r \in Requests : Fail(r)
  BY <1>4, NothingPromised DEF Fail, db, Justified
<1>5. CASE \E x \in Pairs : Complete(x)
  BY <1>5, CompleteJustified DEF Justified
<1>6. ASSUME NEW r \in Requests, Step(r)
      PROVE  Justified
  <2>1. CASE WriteStatus(r)
    BY <2>1, WriteStatusJustified
  <2>2. CASE CreateSession(r) \/ RepairSession(r) \/ ClearRoster(r) \/ FillRoster(r) \/ CreateTask(r)
    BY <2>2, CreateSessionJustified, RepairSessionJustified, SetSpeakersJustified, CreateTaskJustified
  <2>3. CASE CancelSession(r) \/ Withdraw(r)
    BY <2>3, CancelSessionJustified, WithdrawJustified
  <2>4. CASE ReadSpeakers(r) \/ ReadSession(r) \/ ReadHeld(r)
    BY <2>4, NothingPromised DEF ReadSpeakers, ReadSession, ReadHeld, db
  <2>5. CASE FindSession(r) \/ ReadReversed(r) \/ SurveyTasks(r) \/ SurveySessions(r) \/ Mail(r)
    BY <2>5, NothingPromised DEF FindSession, ReadReversed, SurveyTasks, SurveySessions, Mail, db
  <2>6. CASE SyncSpeakers(r)
    BY <2>6, NothingPromised
       DEF SyncSpeakers, EditReadSession, EditReadLinks, EditDrop, EditAdd, db
  <2> QED BY <1>6, <2>1, <2>2, <2>3, <2>4, <2>5, <2>6 DEF Step, Convert, Reverse
<1> QED BY <1>1, <1>2, <1>3, <1>4, <1>5, <1>6 DEF Next, Justified

LEMMA InitPromised == Init => Promise!Init
<1> SUFFICES ASSUME Init PROVE Promise!Init
  OBVIOUS
<1>1. PICK accepted \in SUBSET Submissions :
        /\ status = [s \in Submissions |-> IF s \in accepted THEN "approved" ELSE "submitted"]
        /\ session = [k \in SessionKeys |->
                        IF k[1] \in accepted /\ k[2] = Original THEN "confirmed" ELSE "none"]
        /\ roster = [k \in SessionKeys |->
                       IF k[1] \in accepted /\ k[2] = Original THEN links[k[1]] ELSE {}]
        /\ held = [x \in Pairs |->
                     IF \E s \in accepted : x[2] \in links[s]
                     THEN [by |-> Original, st |-> "pending"] ELSE NoRow]
  BY DEF Init
<1>2. links \in [Submissions -> SUBSET Speakers]
  BY DEF Init
<1>3. \A s \in Submissions, c \in Creators :
        /\ session[<<s, c>>] = IF s \in accepted /\ c = Original THEN "confirmed" ELSE "none"
        /\ roster[<<s, c>>] = IF s \in accepted /\ c = Original THEN links[s] ELSE {}
  BY <1>1 DEF SessionKeys
<1>4. \A x \in Pairs : held[x].st = IF \E s \in accepted : x[2] \in links[s]
                                    THEN "pending" ELSE "none"
  BY <1>1 DEF NoRow
<1>5. Original \in Creators
  BY DEF Creators
<1>6. status \in [Submissions -> {"submitted", "approved"}]
  BY <1>1
<1>7. Grid(session) \in [Submissions -> [Creators -> {"none", "confirmed"}]]
  BY <1>3 DEF Grid
<1>8. Grid(roster) \in [Submissions -> [Creators -> SUBSET Speakers]]
  BY <1>2, <1>3 DEF Grid
<1>9. Statuses(held) \in [Pairs -> {"none", "pending"}]
  BY <1>4 DEF Statuses
<1>10. \A s \in Submissions :
         (\E c \in Creators : Promise!Confirmed(s, c)) <=> status[s] = "approved"
  <2>1. \A s \in Submissions, c \in Creators :
          Promise!Confirmed(s, c) <=> s \in accepted /\ c = Original
    BY <1>3 DEF Promise!Confirmed
  <2>2. \A s \in Submissions : status[s] = "approved" <=> s \in accepted
    BY <1>1
  <2> QED BY <1>5, <2>1, <2>2
<1>11. \A p \in Speakers : Promise!Speaking(p) <=> \E s \in accepted : p \in links[s]
  BY <1>3, <1>5 DEF Promise!Speaking, Promise!Confirmed
<1>12. \A x \in Pairs : Statuses(held)[x] = "pending" <=> Promise!Speaking(x[2])
  BY <1>4, <1>11 DEF Pairs, Statuses
<1> QED BY <1>6, <1>7, <1>8, <1>9, <1>10, <1>12 DEF Promise!Init, Grid, Statuses, Pairs

(* One request at a time, with failures anywhere, every statement is a      *)
(* justified change: a proposal becomes a session once and while accepted,  *)
(* the session comes back or is stood down only as the status says, work is *)
(* handed only to someone speaking and taken back only unfinished, from     *)
(* someone who no longer is (recordDecision, syncSpeakers and the portal's  *)
(* completions).                                                            *)
THEOREM OnboardingImplemented ==
  ASSUME Serial
  PROVE  Spec => ImplementsPromise
<1>1. Init => Promise!Init
  BY InitPromised
<1>2. IInv /\ VInv /\ [Next]_vars => [Promise!Next]_Promise!vars
  BY NextJustified
<1> QED BY <1>1, <1>2, SpecInv, SpecKeeps, PTL DEF Spec, ImplementsPromise, Promise!Spec

----------------------------------------------------------------------------
(* Reversals that overlap *)

(* While proposals are only turned down, a session that stands has on its   *)
(* roster whoever is on its proposal, every row is as old as the sessions,  *)
(* a request counts nobody as booked before it has looked, and ...          *)
Untouched ==
  /\ \A k \in SessionKeys : session[k] = "confirmed" => roster[k] = links[k[1]]
  /\ \A x \in Pairs : held[x] # NoRow => held[x].by = Original
  /\ \A r \in Requests :
       /\ req[r].pc \in {"idle", "write", "find", "cancel", "people", "survey", "withdraw", "mail", "done"}
       /\ req[r].pc = "write" => req[r].kind # "approved"
       /\ req[r].pc \in {"write", "find", "cancel", "people"} => req[r].booked = {}

(* ... where a speaker who is on no standing session has onboarding to do,  *)
(* some request has yet to look at it, or has it on its list.               *)
Withdraws(q, t, p) ==
  \/ q.pc = "people" /\ p \in links[q.sub]
  \/ /\ q.pc = "survey" /\ p \notin q.booked
     /\ <<p, "tasks">> \in q.todo \/ <<t, p, Original>> \in q.doomed
  \/ q.pc = "withdraw" /\ <<t, p, Original>> \in q.doomed
Owed ==
  \A t \in Tasks, p \in Speakers :
    held[<<t, p>>].st = "pending" /\ Live(p) = {} => \E r \in Requests : Withdraws(req[r], t, p)

OnlyReversals == "approved" \notin Verdicts /\ EditTeams = {} /\ ~MayFail
RInv == Untouched /\ Owed

LEMMA InitReversals == Init => RInv
<1> SUFFICES ASSUME Init PROVE RInv
  OBVIOUS
<1> PICK accepted \in SUBSET Submissions :
      /\ session = [k \in SessionKeys |->
                      IF k[1] \in accepted /\ k[2] = Original THEN "confirmed" ELSE "none"]
      /\ roster = [k \in SessionKeys |->
                     IF k[1] \in accepted /\ k[2] = Original THEN links[k[1]] ELSE {}]
      /\ held = [x \in Pairs |->
                   IF \E s \in accepted : x[2] \in links[s]
                   THEN [by |-> Original, st |-> "pending"] ELSE NoRow]
  BY DEF Init
<1>1. Untouched
  <2>1. \A r \in Requests : req[r].pc = "idle"
    BY DEF Init, Idle
  <2> QED BY <2>1 DEF Untouched
<1>2. Owed
  <2> SUFFICES ASSUME NEW t \in Tasks, NEW p \in Speakers,
                      held[<<t, p>>].st = "pending", Live(p) = {}
               PROVE  FALSE
    BY DEF Owed
  <2>1. <<t, p>> \in Pairs /\ <<t, p>>[2] = p
    BY DEF Pairs
  <2>2. PICK s \in accepted : p \in links[s]
    BY <2>1 DEF NoRow
  <2>3. <<s, Original>> \in SessionKeys
    BY DEF SessionKeys, Creators
  <2>4. session[<<s, Original>>] = "confirmed" /\ p \in roster[<<s, Original>>]
    BY <2>2, <2>3
  <2> QED BY <2>3, <2>4 DEF Live
<1> QED BY <1>1, <1>2 DEF RInv

(* A step of one request that neither adds a row nor touches a session, and *)
(* after which the request still sees to what it saw to                     *)
LEMMA MoveReversals ==
  ASSUME IInv, RInv, NEW r \in Requests, NEW q, Set(r, q),
         UNCHANGED <<links, session, roster>>,
         \A x \in Pairs : held'[x] \in {held[x], NoRow},
         q.pc \in {"write", "find", "cancel", "people", "survey", "withdraw", "mail", "done"},
         q.pc = "write" => q.kind # "approved",
         q.pc \in {"write", "find", "cancel", "people"} => q.booked = {},
         \A t \in Tasks, p \in Speakers :
           held'[<<t, p>>].st = "pending" /\ Live(p) = {} /\ Withdraws(req[r], t, p)
             => Withdraws(q, t, p)
  PROVE  RInv'
<1>1. req'[r] = q /\ \A o \in Requests \ {r} : req'[o] = req[o]
  BY DEF Set, IInv, TypeOK
<1>2. Untouched'
  BY <1>1 DEF RInv, Untouched
<1>3. Owed'
  <2> SUFFICES ASSUME NEW t \in Tasks, NEW p \in Speakers,
                      held'[<<t, p>>].st = "pending", Live(p)' = {}
               PROVE  \E o \in Requests : Withdraws(req[o], t, p)'
    BY DEF Owed
  <2>1. Live(p) = {}
    BY DEF Live
  <2>2. held[<<t, p>>].st = "pending"
    BY DEF Pairs, NoRow
  <2>3. PICK o \in Requests : Withdraws(req[o], t, p)
    BY <2>1, <2>2 DEF RInv, Owed
  <2>4. IF o = r THEN req'[o] = q /\ Withdraws(q, t, p) ELSE req'[o] = req[o]
    BY <1>1, <2>1, <2>3
  <2> QED BY <2>3, <2>4 DEF Withdraws
<1> QED BY <1>2, <1>3 DEF RInv

LEMMA DecideReversals ==
  ASSUME IInv, RInv, OnlyReversals,
         NEW r \in Requests, NEW s \in Submissions, NEW d \in Verdicts, Decide(r, s, d)
  PROVE  RInv'
<1> DEFINE q == [Idle EXCEPT !.pc = "write", !.sub = s, !.kind = d, !.was = status[s]]
<1>1. q.pc = "write" /\ q.kind = d /\ q.booked = {}
  BY DEF Idle
<1>2. Set(r, q) /\ UNCHANGED <<links, session, roster, held>> /\ req[r].pc = "idle"
  BY DEF Decide, MayBegin, At, db
<1>3. \A t, p : ~Withdraws(req[r], t, p)
  BY <1>2 DEF Withdraws
<1> HIDE DEF q
<1> QED BY <1>1, <1>2, <1>3, MoveReversals DEF OnlyReversals

LEMMA WriteStatusReversals ==
  ASSUME IInv, RInv, NEW r \in Requests, WriteStatus(r)
  PROVE  RInv'
<1> DEFINE q == [req[r] EXCEPT !.pc = "find"]
<1>1. req[r].pc = "write" /\ req[r].kind # "approved" /\ req[r].booked = {}
  BY DEF WriteStatus, At, RInv, Untouched
<1>2. q.pc = "find" /\ q.booked = {}
  BY <1>1, Fields DEF Request
<1>3. Set(r, q) /\ UNCHANGED <<links, session, roster, held>>
  BY <1>1 DEF WriteStatus, Goto
<1>4. \A t, p : ~Withdraws(req[r], t, p)
  BY <1>1 DEF Withdraws
<1> HIDE DEF q
<1> QED BY <1>2, <1>3, <1>4, MoveReversals

LEMMA FindSessionReversals ==
  ASSUME IInv, RInv, NEW r \in Requests, FindSession(r)
  PROVE  RInv'
<1>1. req[r].pc = "find" /\ req[r].booked = {}
  BY DEF FindSession, At, RInv, Untouched
<1>2. PICK c \in Creators \cup {None} :
        Set(r, [req[r] EXCEPT !.found = c, !.seen = StatusOf(r, c),
                              !.pc = IF CancelsSession(req[r]) THEN "cancel" ELSE "mail"])
  BY DEF FindSession
<1> DEFINE q == [req[r] EXCEPT !.found = c, !.seen = StatusOf(r, c),
                               !.pc = IF CancelsSession(req[r]) THEN "cancel" ELSE "mail"]
<1>3. q.pc \in {"cancel", "mail"} /\ q.booked = {}
  BY <1>1, Fields DEF Request
<1>4. UNCHANGED <<links, session, roster, held>>
  BY DEF FindSession, db
<1>5. \A t, p : ~Withdraws(req[r], t, p)
  BY <1>1 DEF Withdraws
<1>6. Set(r, q)
  BY <1>2
<1> HIDE DEF q
<1> QED BY <1>3, <1>4, <1>5, <1>6, MoveReversals

(* The one statement after which a speaker may be on no standing session:   *)
(* whoever is on the cancelled one is on the proposal, which is read next.  *)
LEMMA CancelSessionReversals ==
  ASSUME IInv, RInv, NEW r \in Requests, CancelSession(r)
  PROVE  RInv'
<1> DEFINE q == [req[r] EXCEPT !.pc = "people"]
           k == <<req[r].sub, req[r].found>>
<1>1. req[r].pc = "cancel" /\ req[r].booked = {} /\ req[r].sub \in Submissions
  BY Fields DEF CancelSession, At, RInv, Untouched, AtRest
<1>2. q.pc = "people" /\ q.booked = {} /\ q.sub = req[r].sub
  BY <1>1, Fields DEF Request
<1>3. Set(r, q) /\ UNCHANGED <<links, roster, held>>
  BY DEF CancelSession, Goto
<1>4. \/ session' = session
      \/ session' = [session EXCEPT ![k] = "cancelled"]
  BY DEF CancelSession
<1>5. req'[r] = q /\ \A o \in Requests \ {r} : req'[o] = req[o]
  BY <1>3 DEF Set, IInv, TypeOK
<1> HIDE DEF k
<1>6. \A j \in SessionKeys : session'[j] = IF session' = session \/ j # k THEN session[j] ELSE "cancelled"
  <2>1. session = [j \in SessionKeys |-> session[j]]
    BY DEF IInv, TypeOK
  <2> QED BY <1>4, <2>1
<1> HIDE DEF q
<1>7. Untouched'
  BY <1>2, <1>3, <1>5, <1>6 DEF RInv, Untouched
<1>8. Owed'
  <2> SUFFICES ASSUME NEW t \in Tasks, NEW p \in Speakers,
                      held'[<<t, p>>].st = "pending", Live(p)' = {}
               PROVE  \E o \in Requests : Withdraws(req[o], t, p)'
    BY DEF Owed
  <2>1. CASE p \in links[req[r].sub]
    <3>1. Withdraws(req[r], t, p)'
      BY <1>2, <1>3, <1>5, <2>1 DEF Withdraws
    <3> QED BY <3>1
  <2>2. CASE p \notin links[req[r].sub]
    <3>1. Live(p) = {}
      <4> SUFFICES ASSUME NEW j \in SessionKeys, session[j] = "confirmed", p \in roster[j]
                   PROVE  FALSE
        BY DEF Live
      <4>1. p \in links[j[1]]
        BY DEF RInv, Untouched
      <4>2. j # k
        BY <2>2, <4>1 DEF k
      <4>3. session'[j] = "confirmed" /\ p \in roster'[j]
        BY <1>3, <1>6, <4>2
      <4> QED BY <4>3 DEF Live
    <3>2. PICK o \in Requests : Withdraws(req[o], t, p)
      BY <1>3, <3>1 DEF RInv, Owed
    <3>3. o # r
      BY <1>1, <3>2 DEF Withdraws
    <3>4. Withdraws(req[o], t, p)'
      BY <1>3, <1>5, <3>2, <3>3 DEF Withdraws
    <3> QED BY <3>4
  <2> QED BY <2>1, <2>2
<1> QED BY <1>7, <1>8 DEF RInv

LEMMA ReadReversedReversals ==
  ASSUME IInv, RInv, NEW r \in Requests, ReadReversed(r)
  PROVE  RInv'
<1> DEFINE people == links[req[r].sub]
           q == [req[r] EXCEPT !.people = people, !.todo = people \X {"tasks", "sessions"},
                               !.pc = IF people = {} THEN "mail" ELSE "survey"]
<1>1. req[r].pc = "people" /\ req[r].booked = {}
  BY DEF ReadReversed, At, RInv, Untouched
<1>2. /\ q.pc = IF people = {} THEN "mail" ELSE "survey"
      /\ q.booked = {} /\ q.todo = people \X {"tasks", "sessions"}
  BY <1>1, Fields DEF Request
<1>3. Set(r, q) /\ UNCHANGED <<links, session, roster, held>>
  BY DEF ReadReversed, db
<1> HIDE DEF q
<1>4. ASSUME NEW t \in Tasks, NEW p \in Speakers, Withdraws(req[r], t, p)
      PROVE  Withdraws(q, t, p)
  BY <1>1, <1>2, <1>4 DEF Withdraws
<1> QED BY <1>2, <1>3, <1>4, MoveReversals

(* The end of the survey, where whoever is booked elsewhere is left out *)
LEMMA SurveyedWithdraws ==
  ASSUME NEW q \in Request, q.pc = "survey"
  PROVE  /\ Surveyed(q).pc \in {"survey", "withdraw", "mail"}
         /\ \A t \in Tasks, p \in Speakers : Withdraws(q, t, p) => Withdraws(Surveyed(q), t, p)
<1> DEFINE plan == {d \in q.doomed : d[2] \notin q.booked}
           done == [q EXCEPT !.doomed = plan, !.pc = AfterDoomed(plan)]
<1>1. CASE q.todo # {}
  BY <1>1 DEF Surveyed
<1>2. CASE q.todo = {}
  <2>1. Surveyed(q) = done
    BY <1>2 DEF Surveyed
  <2>2. done.pc = AfterDoomed(plan) /\ done.doomed = plan
    BY DEF Request
  <2>3. ASSUME NEW t \in Tasks, NEW p \in Speakers, Withdraws(q, t, p)
        PROVE  Withdraws(done, t, p)
    <3>1. <<t, p, Original>> \in plan
      BY <1>2, <2>3 DEF Withdraws
    <3> QED BY <2>2, <3>1 DEF Withdraws, AfterDoomed
  <2> QED BY <2>1, <2>2, <2>3 DEF AfterDoomed
<1> QED BY <1>1, <1>2

LEMMA SurveyTasksReversals ==
  ASSUME IInv, RInv, NEW r \in Requests, SurveyTasks(r)
  PROVE  RInv'
<1>1. PICK y \in Speakers :
        Set(r, Surveyed([req[r] EXCEPT !.todo = @ \ {<<y, "tasks">>},
                                       !.doomed = @ \cup PendingOf(y)]))
  BY DEF SurveyTasks
<1> DEFINE q == [req[r] EXCEPT !.todo = @ \ {<<y, "tasks">>}, !.doomed = @ \cup PendingOf(y)]
<1>2. req[r].pc = "survey" /\ UNCHANGED <<links, session, roster, held>>
  BY DEF SurveyTasks, At, db
<1>3. /\ q.pc = "survey" /\ q.booked = req[r].booked
      /\ q.todo = req[r].todo \ {<<y, "tasks">>} /\ q.doomed = req[r].doomed \cup PendingOf(y)
  BY <1>2, Fields DEF Request
<1>4. q \in Request
  BY Fields, ZenonT(60) DEF Request, PendingOf
<1>5. Set(r, Surveyed(q))
  BY <1>1
<1> HIDE DEF q
<1>6. ASSUME NEW t \in Tasks, NEW p \in Speakers,
             held[<<t, p>>].st = "pending", Withdraws(req[r], t, p)
      PROVE  Withdraws(q, t, p)
  <2>1. CASE p # y
    BY <1>2, <1>3, <1>6, <2>1 DEF Withdraws
  <2>2. CASE p = y
    <3>1. held[<<t, p>>] = [by |-> Original, st |-> "pending"]
      <4>1. <<t, p>> \in Pairs /\ held[<<t, p>>] \in Row \cup {NoRow}
        BY DEF Pairs, IInv, TypeOK
      <4>2. held[<<t, p>>] # NoRow
        BY <1>6 DEF NoRow
      <4>3. held[<<t, p>>].by = Original
        BY <4>1, <4>2 DEF RInv, Untouched
      <4> QED BY <1>6, <4>1, <4>2, <4>3 DEF Row
    <3>2. <<t, p, Original>> \in PendingOf(y)
      BY <2>2, <3>1 DEF PendingOf, Doomed, Creators
    <3> QED BY <1>2, <1>3, <1>6, <3>2 DEF Withdraws
  <2> QED BY <2>1, <2>2
<1> QED BY <1>2, <1>3, <1>4, <1>5, <1>6, SurveyedWithdraws, MoveReversals

LEMMA SurveySessionsReversals ==
  ASSUME IInv, RInv, NEW r \in Requests, SurveySessions(r)
  PROVE  RInv'
<1>1. PICK y \in Speakers :
        Set(r, Surveyed([req[r] EXCEPT !.todo = @ \ {<<y, "sessions">>},
                                       !.booked = IF BookedElsewhere(r, y)
                                                  THEN @ \cup {y} ELSE @]))
  BY DEF SurveySessions
<1> DEFINE q == [req[r] EXCEPT !.todo = @ \ {<<y, "sessions">>},
                               !.booked = IF BookedElsewhere(r, y) THEN @ \cup {y} ELSE @]
<1>2. req[r].pc = "survey" /\ UNCHANGED <<links, session, roster, held>>
  BY DEF SurveySessions, At, db
<1>3. /\ q \in Request /\ q.pc = "survey" /\ q.doomed = req[r].doomed
      /\ q.todo = req[r].todo \ {<<y, "sessions">>}
      /\ q.booked = IF BookedElsewhere(r, y) THEN req[r].booked \cup {y} ELSE req[r].booked
  <2>1. /\ req[r] \in Request /\ req[r].todo \ {<<y, "sessions">>} \in SUBSET Survey
        /\ (IF BookedElsewhere(r, y) THEN req[r].booked \cup {y} ELSE req[r].booked) \in SUBSET Speakers
    BY Fields
  <2>2. q = Surveying(req[r], req[r].todo \ {<<y, "sessions">>},
                      IF BookedElsewhere(r, y) THEN req[r].booked \cup {y} ELSE req[r].booked)
    BY DEF Surveying
  <2> HIDE DEF q
  <2> QED BY <1>2, <2>1, <2>2, SurveyingFields
<1>4. q \in Request
  BY <1>3
<1>5. Set(r, Surveyed(q))
  BY <1>1
<1> HIDE DEF q
<1>6. ASSUME NEW t \in Tasks, NEW p \in Speakers, Live(p) = {}, Withdraws(req[r], t, p)
      PROVE  Withdraws(q, t, p)
  <2>1. p # y \/ ~BookedElsewhere(r, y)
    BY <1>6 DEF BookedElsewhere, Live
  <2> QED BY <1>2, <1>3, <1>6, <2>1 DEF Withdraws
<1> QED BY <1>2, <1>3, <1>4, <1>5, <1>6, SurveyedWithdraws, MoveReversals

LEMMA WithdrawReversals ==
  ASSUME IInv, RInv, NEW r \in Requests, Withdraw(r)
  PROVE  RInv'
<1>1. PICK d \in req[r].doomed :
        /\ held' = IF held[<<d[1], d[2]>>].by = d[3]
                   THEN [held EXCEPT ![<<d[1], d[2]>>] = NoRow] ELSE held
        /\ Set(r, [req[r] EXCEPT !.doomed = @ \ {d}, !.pc = AfterDoomed(req[r].doomed \ {d})])
  BY DEF Withdraw
<1> DEFINE q == [req[r] EXCEPT !.doomed = @ \ {d}, !.pc = AfterDoomed(req[r].doomed \ {d})]
<1>2. req[r].pc = "withdraw" /\ UNCHANGED <<links, session, roster>>
  BY DEF Withdraw, At
<1>3. q.doomed = req[r].doomed \ {d} /\ q.pc = AfterDoomed(req[r].doomed \ {d})
  BY Fields DEF Request
<1>4. Set(r, q)
  BY <1>1
<1> HIDE DEF q
<1>5. \A x \in Pairs : held'[x] \in {held[x], NoRow}
  BY <1>1 DEF IInv, TypeOK
<1>6. ASSUME NEW t \in Tasks, NEW p \in Speakers,
             held'[<<t, p>>].st = "pending", Withdraws(req[r], t, p)
      PROVE  Withdraws(q, t, p)
  <2>1. <<t, p, Original>> \in req[r].doomed
    BY <1>2, <1>6 DEF Withdraws
  <2>2. d # <<t, p, Original>>
    <3> SUFFICES ASSUME d = <<t, p, Original>> PROVE FALSE
      OBVIOUS
    <3>1. <<t, p>> \in Pairs /\ held'[<<t, p>>] # NoRow
      BY <1>6 DEF Pairs, NoRow
    <3>2. held[<<t, p>>].by = Original
      BY <1>5, <3>1 DEF RInv, Untouched
    <3>3. held' = [held EXCEPT ![<<t, p>>] = NoRow]
      BY <1>1, <3>2
    <3> QED BY <3>1, <3>3 DEF IInv, TypeOK
  <2> QED BY <1>3, <2>1, <2>2 DEF Withdraws, AfterDoomed
<1>7. q.pc \in {"withdraw", "mail"}
  BY <1>3 DEF AfterDoomed
<1> QED BY <1>2, <1>4, <1>5, <1>6, <1>7, MoveReversals

LEMMA MailReversals ==
  ASSUME IInv, RInv, NEW r \in Requests, Mail(r)
  PROVE  RInv'
<1> DEFINE q == [Idle EXCEPT !.pc = "done", !.sub = req[r].sub, !.kind = req[r].kind,
                             !.was = req[r].was, !.seen = req[r].seen]
<1>1. req[r].pc = "mail" /\ Set(r, q) /\ UNCHANGED <<links, session, roster, held>>
  BY DEF Mail, At, End, db
<1>2. q.pc = "done"
  BY DEF Idle
<1>3. \A t, p : ~Withdraws(req[r], t, p)
  BY <1>1 DEF Withdraws
<1> HIDE DEF q
<1> QED BY <1>1, <1>2, <1>3, MoveReversals

LEMMA CompleteReversals ==
  ASSUME IInv, RInv, NEW x \in Pairs, Complete(x)
  PROVE  RInv'
<1>1. UNCHANGED <<links, session, roster, req>> /\ held[x].st = "pending"
      /\ held' = [held EXCEPT ![x].st = "completed"]
  BY DEF Complete
<1>2. /\ held[x] \in Row
      /\ \A y \in Pairs : held'[y] = IF y = x THEN [held[x] EXCEPT !.st = "completed"] ELSE held[y]
  BY <1>1 DEF IInv, TypeOK, NoRow
<1>3. held'[x].st = "completed" /\ held'[x].by = held[x].by /\ held[x] # NoRow
  BY <1>1, <1>2 DEF Row, NoRow
<1>4. Untouched'
  BY <1>1, <1>2, <1>3 DEF RInv, Untouched
<1>5. Owed'
  <2> SUFFICES ASSUME NEW t \in Tasks, NEW p \in Speakers,
                      held'[<<t, p>>].st = "pending", Live(p)' = {}
               PROVE  \E o \in Requests : Withdraws(req[o], t, p)'
    BY DEF Owed
  <2>1. Live(p) = {}
    BY <1>1 DEF Live
  <2>2. held[<<t, p>>].st = "pending"
    BY <1>2, <1>3 DEF Pairs
  <2>3. PICK o \in Requests : Withdraws(req[o], t, p)
    BY <2>1, <2>2 DEF RInv, Owed
  <2> QED BY <1>1, <2>3 DEF Withdraws
<1> QED BY <1>4, <1>5 DEF RInv

LEMMA NextReversals ==
  ASSUME IInv, RInv, OnlyReversals, [Next]_vars
  PROVE  RInv'
<1>1. CASE UNCHANGED vars
  BY <1>1 DEF vars, RInv, Untouched, Owed, Withdraws, Live
<1>2. CASE \E r \in Requests, s \in Submissions, d \in Verdicts : Decide(r, s, d)
  BY <1>2, DecideReversals
<1>3. ASSUME NEW r \in Requests, Convert(r) \/ SyncSpeakers(r)
      PROVE  FALSE
  <2>1. req[r].pc \notin {"gather", "held", "session", "clear", "fill", "tasks", "relink", "drop", "add"}
    BY DEF RInv, Untouched
  <2> QED BY <1>3, <2>1 DEF Convert, SyncSpeakers, ReadSpeakers, ReadSession, ReadHeld, CreateSession,
        RepairSession, ClearRoster, FillRoster, CreateTask, EditReadSession, EditReadLinks,
        EditDrop, EditAdd, At
<1>4. ASSUME NEW r \in Requests, Reverse(r) PROVE RInv'
  BY <1>4, FindSessionReversals, CancelSessionReversals, ReadReversedReversals,
     SurveyTasksReversals, SurveySessionsReversals, WithdrawReversals DEF Reverse
<1>5. CASE \E r \in Requests : Step(r)
  BY <1>3, <1>4, <1>5, WriteStatusReversals, MailReversals DEF Step
<1>6. CASE \E x \in Pairs : Complete(x)
  BY <1>6, CompleteReversals
<1>7. ~\E r \in Requests, s \in Submissions, team \in EditTeams : Edit(r, s, team)
  BY DEF OnlyReversals
<1>8. ~\E r \in Requests : Fail(r)
  BY DEF OnlyReversals, Fail
<1> QED BY <1>1, <1>2, <1>5, <1>6, <1>7, <1>8 DEF Next

(* Any number of reversals, of one proposal or of several that share        *)
(* speakers, with their statements in any order: once they have all ended,  *)
(* nobody without a session has onboarding left to do, because a request    *)
(* that cancels somebody's last session looks for their rows and their      *)
(* other sessions after it (withdrawOnboarding in src/domain/review.ts).    *)
(* With an acceptance, an edit or a failure among them it is false.         *)
THEOREM ReversalsAlwaysWithdraw ==
  ASSUME "approved" \notin Verdicts, EditTeams = {}, ~MayFail
  PROVE  Spec => []LastReversalWithdraws
<1> USE DEF OnlyReversals
<1>1. Init => RInv
  BY InitReversals
<1>2. IInv /\ RInv /\ [Next]_vars => RInv'
  BY NextReversals
<1>3. RInv => LastReversalWithdraws
  BY DEF RInv, Owed, Withdraws, LastReversalWithdraws, InFlight
<1> QED BY <1>1, <1>2, <1>3, SpecInv, PTL DEF Spec
=============================================================================
