----------------------------- MODULE ApiAccess -----------------------------
(***************************************************************************)
(* Calls from outside, by REST or by MCP: a credential is checked, its      *)
(* owner, its events and its budget, and then a session of an event is read *)
(* or written, while keys are made and revoked, roles change and organizers *)
(* delete sessions.                                                         *)
(***************************************************************************)
EXTENDS Naturals, FiniteSets

CONSTANTS
  Calls,
  Keys,     \* API keys and OAuth tokens
  Tokens,   \* the OAuth tokens among them
  Owners,   \* people who may be admins
  Events,
  Sessions, \* one per event
  EventOf,  \* [Sessions -> Events]
  None,
  Limit,    \* requests of a credential within a period
  MaxChanges \* bound: changes beside the calls

VARIABLES
  admins,   \* users.role
  events,   \* the events there are
  sessions, \* the sessions there are
  key,      \* api_credentials, and the tokens that were issued
  used,     \* the limiter's counts
  making,   \* an admin's request for a key
  call,
  changes

apiVars == <<admins, events, sessions, key, used, making, call, changes>>
stored == <<admins, events, sessions, key, making, changes>>

NoKey == [st |-> "none", owner |-> None, write |-> FALSE, scope |-> {}]
NoMaking == [pc |-> "none", owner |-> None, write |-> FALSE, scope |-> {}]
NoCall ==
  [pc |-> "begin", via |-> None, op |-> None, key |-> None, event |-> None, session |-> None,
   found |-> {}, unread |-> {}, answer |-> "none", wrote |-> FALSE, ever |-> {}]

Ops == {"read", "create", "update", "replace"}
Refusals == {"bad key", "no admin", "no event", "no scope", "too many", "no session", "bad request"}

TypeOK ==
  /\ admins \subseteq Owners /\ events \subseteq Events /\ sessions \subseteq Sessions
  /\ \A k \in Keys : key[k].st \in {"none", "live", "ended"} /\ key[k].scope \subseteq Events
  /\ used \in [Keys -> 0..Limit]
  /\ \A c \in Calls :
       /\ call[c].op \in Ops \cup {None} /\ call[c].via \in {"rest", "mcp", None}
       /\ call[c].answer \in Refusals \cup {"none", "done", "failed"}
       /\ call[c].wrote \in BOOLEAN
  /\ changes \in 0..MaxChanges

(* A key is for the events chosen, or, like every token, for all there are  *)
(* and will be.                                                             *)
Init ==
  /\ admins \in SUBSET Owners /\ events \in SUBSET Events
  /\ sessions = {s \in Sessions : EventOf[s] \in events}
  /\ key \in [Keys -> {NoKey} \cup [st : {"live"}, owner : Owners, write : BOOLEAN, scope : (SUBSET events \ {{}}) \cup {Events}]]
  /\ \A k \in Tokens : key[k].st = "live" => key[k].scope = Events
  /\ used \in [Keys -> 0..Limit] /\ making = NoMaking
  /\ call = [c \in Calls |-> NoCall] /\ changes = 0

----------------------------------------------------------------------------
(* What is true of the credentials at a moment                              *)
Facts ==
  [k \in Keys |-> (IF key[k].st = "live" THEN {"live"} ELSE {})
                   \cup (IF key[k].owner \in admins THEN {"admin"} ELSE {})]

Change ==
  /\ changes < MaxChanges /\ changes' = changes + 1 /\ UNCHANGED used
  /\ call' = [c \in Calls |-> IF call[c].pc \in {"begin", "end"} THEN call[c]
                              ELSE [call[c] EXCEPT !.ever = @ \cup Facts'[call[c].key]]]

SetRole(u) ==
  /\ admins' = IF u \in admins THEN admins \ {u} ELSE admins \cup {u}
  /\ UNCHANGED <<events, sessions, key, making>> /\ Change
CreateEvent(e) ==
  /\ e \notin events /\ events' = events \cup {e}
  /\ sessions' = sessions \cup {s \in Sessions : EventOf[s] = e}
  /\ UNCHANGED <<admins, key, making>> /\ Change
DeleteSession(s) ==
  /\ s \in sessions /\ sessions' = sessions \ {s}
  /\ UNCHANGED <<admins, events, key, making>> /\ Change

(* createApiCredential: an admin asks, the events are looked up, the key is *)
(* stored under its hash.                                                   *)
AskForKey(u, write, scope) ==
  /\ making.pc = "none" /\ u \in admins
  /\ making' = [pc |-> "check", owner |-> u, write |-> write, scope |-> scope]
  /\ UNCHANGED <<admins, events, sessions, key>> /\ Change
CreateCredential ==
  /\ making.pc = "check" /\ making.scope \in SUBSET events \cup {Events} /\ making.scope # {}
  /\ \E k \in Keys \ Tokens :
       /\ key[k].st = "none"
       /\ key' = [key EXCEPT ![k] = [st |-> "live", owner |-> making.owner, write |-> making.write,
                                     scope |-> making.scope]]
  /\ making' = NoMaking
  /\ UNCHANGED <<admins, events, sessions>> /\ Change
(* An event that is not there, no event, or a request that breaks off.      *)
RefuseKey ==
  /\ making.pc = "check" /\ making' = NoMaking
  /\ UNCHANGED <<admins, events, sessions, key>> /\ Change
(* revokeApiCredential, by the owner who is an admin; or the day comes.     *)
RevokeCredential(k) ==
  /\ k \notin Tokens /\ key[k].st = "live" /\ key[k].owner \in admins
  /\ key' = [key EXCEPT ![k].st = "ended"]
  /\ UNCHANGED <<admins, events, sessions, making>> /\ Change
Expire(k) ==
  /\ key[k].st = "live" /\ key' = [key EXCEPT ![k].st = "ended"]
  /\ UNCHANGED <<admins, events, sessions, making>> /\ Change
NextPeriod ==
  /\ \E k \in Keys : used[k] > 0
  /\ used' = [k \in Keys |-> 0] /\ UNCHANGED <<stored, call>>

----------------------------------------------------------------------------
(* A call, one await at a time                                              *)

Set(c, q) == call' = [call EXCEPT ![c] = q]
Answered(q, a) == [q EXCEPT !.answer = a, !.pc = "end", !.found = {}, !.unread = {}]
In(q) == q.event \in key[q.key].scope
Granted(q) == q.op = "read" \/ key[q.key].write

(* Whoever calls knows the key: it is, or was, there.                       *)
Begin(c, k, via, op, e, s) ==
  /\ call[c].pc = "begin" /\ key[k].st # "none"
  /\ s = None <=> op = "create"
  /\ Set(c, [NoCall EXCEPT !.pc = "verify", !.key = k, !.via = via, !.op = op, !.event = e,
                           !.session = s, !.ever = Facts[k]])
  /\ UNCHANGED <<stored, used>>

(* verifyApiKey, verifyAccessToken *)
Verify(c) ==
  /\ call[c].pc = "verify"
  /\ Set(c, IF key[call[c].key].st = "live" THEN [call[c] EXCEPT !.pc = "owner"]
            ELSE Answered(call[c], "bad key"))
  /\ UNCHANGED <<stored, used>>
(* Mutant: an owner who is no admin any more is not noticed *)
ReadOwnerUnseen(c) ==
  /\ call[c].pc = "owner"
  /\ Set(c, IF call[c].via = "rest" /\ ~In(call[c]) THEN Answered(call[c], "no event")
            ELSE [call[c] EXCEPT !.pc = "limit"])
  /\ UNCHANGED <<stored, used>>
(* The owner's row; then enforceEventScope, where the event is known: MCP   *)
(* names it later.                                                          *)
ReadOwner(c) ==
  /\ call[c].pc = "owner"
  /\ Set(c, IF key[call[c].key].owner \notin admins THEN Answered(call[c], "no admin")
            ELSE IF call[c].via = "rest" /\ ~In(call[c]) THEN Answered(call[c], "no event")
            ELSE [call[c] EXCEPT !.pc = "limit"])
  /\ UNCHANGED <<stored, used>>
(* requireExternalScope, or what a tool demands and enforcePrincipalEvent   *)
Admitted(q) ==
  CASE ~Granted(q) -> Answered(q, "no scope")
    [] Granted(q) /\ ~In(q) -> Answered(q, "no event")
    [] OTHER -> [q EXCEPT !.pc = "context", !.unread = IF q.op = "read" THEN {"event"} ELSE {"event", "actor"}]
EnforceRateLimit(c) ==
  LET k == call[c].key IN
  /\ call[c].pc = "limit"
  /\ \/ used[k] < Limit /\ used' = [used EXCEPT ![k] = @ + 1] /\ Set(c, Admitted(call[c]))
     \/ used[k] = Limit /\ Set(c, Answered(call[c], "too many")) /\ UNCHANGED used
  /\ UNCHANGED stored

(* apiEventContext, apiWriteContext, actorAndEvent: both rows are asked for *)
(* at once.                                                                 *)
HasContext(q) ==
  CASE "event" \notin q.found -> Answered(q, "no event")
    [] q.op # "read" /\ "event" \in q.found /\ "actor" \notin q.found -> Answered(q, "no admin")
    [] OTHER -> [q EXCEPT !.pc = IF q.op = "create" THEN "write" ELSE "session", !.found = {}]
ReadContext(c, what) ==
  LET there == IF what = "event" THEN call[c].event \in events ELSE key[call[c].key].owner \in admins
      q == [call[c] EXCEPT !.unread = @ \ {what}, !.found = IF there THEN @ \cup {what} ELSE @]
  IN
  /\ call[c].pc = "context" /\ what \in call[c].unread
  /\ Set(c, IF q.unread = {} THEN HasContext(q) ELSE q)
  /\ UNCHANGED <<stored, used>>
(* requireEventSession; the reading calls end with what they found.         *)
OfEvent(q) == q.session \in sessions /\ EventOf[q.session] = q.event
ReadSession(c) ==
  LET q == call[c] IN
  /\ q.pc = "session"
  /\ Set(c, CASE ~OfEvent(q) -> Answered(q, "no session")
              [] OfEvent(q) /\ q.op = "read" -> Answered(q, "done")
              [] OTHER -> [q EXCEPT !.pc = "write"])
  /\ UNCHANGED <<stored, used>>
(* The write goes by id and fails without its row.  The answer to "replace" *)
(* is read afresh, the others' is the row that was written.                 *)
Write(c) ==
  LET q == call[c] IN
  /\ q.pc = "write"
  /\ Set(c, IF q.op # "create" /\ q.session \notin sessions THEN Answered(q, "failed")
            ELSE IF q.op = "replace" THEN [q EXCEPT !.wrote = TRUE, !.pc = "detail"]
            ELSE Answered([q EXCEPT !.wrote = TRUE], "done"))
  /\ UNCHANGED <<stored, used>>
SessionDetail(c) ==
  /\ call[c].pc = "detail"
  /\ Set(c, Answered(call[c], IF call[c].session \in sessions THEN "done" ELSE "no session"))
  /\ UNCHANGED <<stored, used>>
(* readApiJson, and the schemas of the workflows, before they write         *)
RefuseInput(c) ==
  /\ call[c].pc = "write" /\ Set(c, Answered(call[c], "bad request"))
  /\ UNCHANGED <<stored, used>>
(* withApiRequest, mapApplicationError: whatever throws is a 500.           *)
Fail(c) ==
  /\ call[c].pc \notin {"begin", "end"} /\ Set(c, Answered(call[c], "failed"))
  /\ UNCHANGED <<stored, used>>

Step(c) ==
  \/ Verify(c) \/ ReadOwner(c) \/ EnforceRateLimit(c) \/ ReadSession(c) \/ Write(c)
  \/ SessionDetail(c) \/ RefuseInput(c) \/ Fail(c)
  \/ \E what \in {"event", "actor"} : ReadContext(c, what)

Next ==
  \/ \E u \in Owners : SetRole(u) \/ \E write \in BOOLEAN, scope \in SUBSET Events : AskForKey(u, write, scope)
  \/ \E e \in Events : CreateEvent(e)
  \/ \E s \in Sessions : DeleteSession(s)
  \/ CreateCredential \/ RefuseKey \/ NextPeriod
  \/ \E k \in Keys : RevokeCredential(k) \/ Expire(k)
  \/ \E c \in Calls :
       \/ Step(c)
       \/ \E k \in Keys, via \in {"rest", "mcp"}, op \in Ops, e \in Events, s \in Sessions \cup {None} :
            Begin(c, k, via, op, e, s)

Spec == Init /\ [][Next]_apiVars

----------------------------------------------------------------------------
(* Properties *)

(* What a call read or wrote its credential was good for: the key was not   *)
(* ended and its owner was an admin at some moment since the call began,    *)
(* the event is one of the key's, and a session is the event's              *)
(* (authenticateExternalRequest: "demotion disables every outstanding       *)
(* key/token immediately").                                                 *)
Served(q) == q.wrote \/ q.answer = "done"
GoodsAreGranted ==
  \A c \in Calls : LET q == call[c] IN
    Served(q) =>
      /\ q.ever = {"live", "admin"} /\ In(q) /\ Granted(q) /\ q.event \in events
      /\ q.session # None => EventOf[q.session] = q.event

(* What is refused has changed nothing, but for the answer to a session     *)
(* that is deleted under the call; what is answered was done                *)
(* (withApiRequest, workflow).                                              *)
RefusalsChangeNothing ==
  \A c \in Calls : LET q == call[c] IN
    /\ q.answer \in Refusals /\ q.wrote => q.op = "replace" /\ q.session \notin sessions
    /\ q.answer = "done" /\ q.op # "read" => q.wrote

(* The answer to a call about an event that its key is not for is not about *)
(* what is stored there: over REST it never gets to the budget or the       *)
(* permission, over MCP never past them (enforceEventScope: "Conceal        *)
(* whether an event outside the credential's allowlist exists").            *)
OtherEventsAreHidden ==
  \A c \in Calls : LET q == call[c] IN
    q.key # None /\ ~In(q) =>
      /\ q.answer # "no session" /\ ~Served(q)
      /\ q.via = "rest" => q.answer \notin {"too many", "no scope"}
============================================================================
