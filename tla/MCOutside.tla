----------------------------- MODULE MCOutside -----------------------------
(* The API on small instances, beside the review rounds of MCRounds: one    *)
(* call with a key or a token; a client that pages through a collection; or *)
(* a list that is put together.                                             *)
EXTENDS MCRounds

CONSTANTS
  Calls, Keys, Tokens, Owners, Events,
  Addressed, EventOf,  \* the sessions that calls may name, and their events
  Limit, MaxTurns,
  Items, PageSize, MaxTime,  \* of a collection
  Talks, People, MaxTouches

VARIABLES
  admins, events, sessions, key, used, making, call, changes,
  stamps, clock, order, page, pages, got, stirred, removed,
  rows, list, ever, stood, touched

calling == <<admins, events, sessions, key, used, making, call, changes>>
paging == <<stamps, clock, order, page, pages, got, stirred, removed>>
listing == <<rows, list, ever, stood, touched>>

Called == INSTANCE ApiAccess WITH Sessions <- Addressed, MaxChanges <- MaxTurns
AllOfFirst == [s \in {"s"} |-> "e1"]
(* One credential is there; until a call begins nothing happens but to      *)
(* keys, and with the last call all is over.                                *)
OneKey ==
  \E k \in Keys :
    key[k].st = "live" /\ \A j \in Keys \ {k} : key[j] = Called!NoKey /\ used[j] = 0
CalledFirst == Called!Init /\ OneKey
Calling ==
  /\ Called!Next /\ \E c \in Calls : call[c].pc # "end"
  /\ IF \A c \in Calls : call[c].pc = "begin" THEN <<making, key, call>>' # <<making, key, call>>
     ELSE making = making'

Paged ==
  INSTANCE ApiPages WITH
    Rows <- Items, Orders <- [sort : {"createdAt", "updatedAt"}, direction : {"asc", "desc"}],
    row <- stamps
ASSUME PagesOK == IsFiniteSet(Items) /\ Items \subseteq Nat /\ PageSize \in Nat \ {0}
(* A client that stops at the last page; nothing moves before it begins.    *)
Leafs == page < pages /\ Paged!Next /\ (page = 0 => page' = 1)

Listed == INSTANCE ApiLists WITH Sessions <- Talks, MaxChanges <- MaxTouches, changes <- touched
Lists == list.pc # "end" /\ Listed!Next

(* The parts that do not run are nowhere. *)
NoReviews == NoRounds /\ NoResults
NoCalls ==
  /\ admins = 0 /\ events = 0 /\ sessions = 0 /\ key = 0 /\ used = 0 /\ making = 0 /\ call = 0
  /\ changes = 0
NoPages ==
  /\ stamps = 0 /\ clock = 0 /\ order = 0 /\ page = 0 /\ pages = 0 /\ got = 0 /\ stirred = 0
  /\ removed = 0
NoLists == rows = 0 /\ list = 0 /\ ever = 0 /\ stood = 0 /\ touched = 0

reviewing == <<setting, vars, results>>
outside == <<calling, paging, listing>>
Begins ==
  \/ Settle /\ NoCalls /\ NoPages /\ NoLists
  \/ setting = "calls" /\ NoReviews /\ CalledFirst /\ NoPages /\ NoLists
  \/ setting = "pages" /\ NoReviews /\ NoCalls /\ Paged!Init /\ NoLists
  \/ setting = "lists" /\ NoReviews /\ NoCalls /\ NoPages /\ Listed!Init
Steps ==
  \/ Work /\ UNCHANGED outside
  \/ setting = "calls" /\ Calling /\ UNCHANGED <<reviewing, paging, listing>>
  \/ setting = "pages" /\ Leafs /\ UNCHANGED <<reviewing, calling, listing>>
  \/ setting = "lists" /\ Lists /\ UNCHANGED <<reviewing, calling, paging>>
Outside == Begins /\ [][Steps]_<<reviewing, outside>>

(* A call is served what its credential is good for and nothing of another  *)
(* event, what is refused has changed nothing, and a row of a list says     *)
(* what was so (authenticateExternalRequest, withApiRequest, speakerRows,   *)
(* listSessions).                                                           *)
AnswersHold ==
  /\ setting = "calls" =>
       Called!GoodsAreGranted /\ Called!RefusalsChangeNothing /\ Called!OtherEventsAreHidden
  /\ setting = "lists" => Listed!ListsTell

(* Whoever reads every page of a collection misses nothing that stayed as   *)
(* it is (paginateCollection, sortCollection).                              *)
PagesHold == setting = "pages" => Paged!UntouchedAreListed
============================================================================
