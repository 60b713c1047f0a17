------------------------------- MODULE Agenda -------------------------------
(***************************************************************************)
(* The agenda builder: organizers place, move and unschedule sessions,     *)
(* change who speaks, and ask for a free slot which they may then take.    *)
(* No conflict refuses a placement; each placement reads the board again   *)
(* after its own write and reports what it now collides with.              *)
(*                                                                         *)
(* Sessions, days, rooms and minutes are numbers; 0 is no day and no room, *)
(* and equal times are none.                                               *)
(***************************************************************************)
EXTENDS Naturals, FiniteSets

CONSTANTS
  Sessions, Days, Rooms, Speakers,
  EventDays,       \* startDate to endDate
  MinutesPerDay,
  MinLength, MaxLength,
  DefaultLength,   \* DEFAULT_SESSION_MINUTES
  SnapMinutes,
  Opening,         \* the placements the board may open with
  Windows,         \* the windows a suggestion is asked for, <<start, end>>
  Organizers,      \* requests under way at once, reused once they have ended
  MaxCalls,        \* bound: requests begun
  MaxBreaks,       \* bound: requests that break off
  MaxTurns         \* bound: sessions cancelled or reinstated

VARIABLES
  board,     \* sessions with their session_speakers
  call,      \* the requests' own state
  reported,  \* history: conflicts reported by the sessions' last placements
  unsaid,    \* history: sessions that changed since by other ways
  length,    \* history: the length each session was last placed with
  calls, breaks, turns

agendaVars == <<board, call, reported, unsaid, length, calls, breaks, turns>>

Minutes == 0..(MinutesPerDay - 1)
Placement == [day : Days \cup {0}, start : Minutes, end : Minutes, room : Rooms \cup {0}]
Session == [day : Days \cup {0}, start : Minutes, end : Minutes, room : Rooms \cup {0},
            live : BOOLEAN, speakers : SUBSET Speakers]
Conflict == [type : {"room", "speaker"}, pair : SUBSET Sessions]
Calls == {"place", "unschedule", "recast", "suggest"}
Call ==
  [pc : {"idle", "check", "update", "clear", "delete", "insert", "rows", "links",
         "report", "answer", "offered"},
   kind : Calls,
   session : Sessions \cup {0},
   to : Placement,               \* where to place it, or the slot suggested
   cast : SUBSET Speakers,       \* who is to speak
   wanted : Nat,                 \* durationMinutes; 0 if it is not given
   window : Windows,
   seen : [Sessions -> Session], \* the board as it read it
   placed : Nat,                 \* history: the length it is owed
   fresh : BOOLEAN]              \* history: nothing has changed since it read it

NoWhere == [day |-> 0, start |-> 0, end |-> 0, room |-> 0]
Unplaced == [day |-> 0, start |-> 0, end |-> 0, room |-> 0, live |-> TRUE, speakers |-> {}]
Uncalled == [pc |-> "idle", kind |-> "place", session |-> 0, to |-> NoWhere, cast |-> {},
             wanted |-> 0, window |-> CHOOSE w \in Windows : TRUE,
             seen |-> [s \in Sessions |-> Unplaced],
             placed |-> 0, fresh |-> FALSE]

Put(x, slot) ==
  [x EXCEPT !.day = slot.day, !.start = slot.start, !.end = slot.end, !.room = slot.room]

TypeOK ==
  /\ board \in [Sessions -> Session]
  /\ call \in [Organizers -> Call]
  /\ reported \subseteq Conflict /\ unsaid \subseteq Sessions
  /\ length \in [Sessions -> Nat]
  /\ calls \in Nat /\ breaks \in Nat /\ turns \in Nat

(* One session may have its place already. *)
Init ==
  /\ \E cast \in SUBSET Speakers, x \in Opening :
       /\ board = [s \in Sessions |->
            IF s = 1 THEN Put([Unplaced EXCEPT !.speakers = cast], x)
            ELSE [Unplaced EXCEPT !.speakers = cast]]
       /\ length = [s \in Sessions |-> IF s = 1 THEN x.end - x.start ELSE 0]
  /\ call = [r \in Organizers |-> Uncalled]
  /\ reported = {} /\ unsaid = {}
  /\ calls = 0 /\ breaks = 0 /\ turns = 0

At(r, label) == call[r].pc = label
Busy == {r \in Organizers : ~At(r, "idle")}
Set(r, c) == call' = [call EXCEPT ![r] = c]
Hang(r) == Set(r, Uncalled)
history == <<reported, unsaid, length, calls, breaks, turns>>
(* The session's row changes, and what the others have seen is old. *)
Change(r, s, row, c) ==
  /\ board' = [board EXCEPT ![s] = row]
  /\ call' = [k \in Organizers |->
       IF k = r THEN c ELSE [call[k] EXCEPT !.fresh = FALSE]]

----------------------------------------------------------------------------
(* Times and conflicts *)

(* The last minute of the day is 23:59. *)
TimeOfMinutes(m) == IF m < MinutesPerDay THEN m ELSE MinutesPerDay - 1
DurationMinutes(x) == x.end - x.start
IsValidDuration(n) == n \in MinLength..MaxLength
ValidPlacements ==
  {x \in Placement : x.day # 0 /\ x.end > x.start /\ IsValidDuration(DurationMinutes(x))}
Dragged == {x \in ValidPlacements : x.start % SnapMinutes = 0}

IsPlaced(x) == x.day # 0 /\ x.end > x.start
Overlap(x, y) == x.day = y.day /\ x.start < y.end /\ y.start < x.end
Meets(x, y) == IsPlaced(x) /\ IsPlaced(y) /\ x.live /\ y.live /\ Overlap(x, y)
(* The blocking kinds; two talks of one track are only an advice. *)
Clashes(x, y) ==
  {k \in {"room", "speaker"} :
     /\ Meets(x, y)
     /\ k = "room" => x.room # 0 /\ x.room = y.room
     /\ k = "speaker" => x.speakers \cap y.speakers # {}}
DetectConflicts(b) ==
  {c \in Conflict : \E s, t \in Sessions :
     s < t /\ c.pair = {s, t} /\ c.type \in Clashes(b[s], b[t])}

PreferredDuration(x) == IF x.end > x.start THEN DurationMinutes(x) ELSE DefaultLength

(* Mutant: the session is probed with the status it has *)
ProbeAsItIs(x, slot) == Put(x, slot)
Probe(x, slot) == [Put(x, slot) EXCEPT !.live = TRUE]
Columns == IF Rooms = {} THEN {0} ELSE Rooms
Slots(days, duration, window) ==
  {[day |-> d, start |-> m, end |-> TimeOfMinutes(m + duration), room |-> room] :
     d \in days, room \in Columns,
     m \in {n \in Minutes : /\ n >= window[1] /\ n + duration <= window[2]
                           /\ (n - window[1]) % SnapMinutes = 0}}
Before(x, y) ==
  \/ x.day < y.day
  \/ x.day = y.day /\ x.start < y.start
  \/ x.day = y.day /\ x.start = y.start /\ x.room <= y.room
FreeSlots(b, s, days, duration, window) ==
  {slot \in Slots(days, duration, window) :
     \A t \in Sessions \ {s} : Clashes(Probe(b[s], slot), b[t]) = {}}
FirstFreeSlot(free) ==
  IF free = {} THEN NoWhere ELSE CHOOSE x \in free : \A y \in free : Before(x, y)

----------------------------------------------------------------------------
(* Requests *)

Begin(r, c) ==
  /\ At(r, "idle") /\ calls < MaxCalls /\ calls' = calls + 1
  /\ Set(r, c) /\ UNCHANGED <<board, reported, unsaid, length, breaks, turns>>
Ask(kind, s) == [Uncalled EXCEPT !.pc = "check", !.kind = kind, !.session = s]

PlaceSession(r, s, x) == Begin(r, [Ask("place", s) EXCEPT !.to = x])
UnscheduleSession(r, s) == Begin(r, Ask("unschedule", s))
UpdateSessionSpeakers(r, s, cast) == Begin(r, [Ask("recast", s) EXCEPT !.cast = cast])
SuggestSessionSlot(r, s, n, w) ==
  Begin(r, [Ask("suggest", s) EXCEPT !.wanted = n, !.window = w])

(* The first read; a suggestion takes the session's length from it. *)
Check(r) ==
  LET c == call[r] IN
  /\ At(r, "check")
  /\ Set(r, [c EXCEPT
       !.pc = CASE c.kind = "place" -> "update" [] c.kind = "unschedule" -> "clear"
                [] c.kind = "recast" -> "delete" [] OTHER -> "rows",
       !.wanted = IF c.kind = "suggest" /\ c.wanted = 0
                  THEN PreferredDuration(board[c.session]) ELSE c.wanted,
       !.placed = IF c.kind # "suggest" THEN 0
                  ELSE IF c.wanted # 0 THEN c.wanted
                  ELSE IF length[c.session] # 0 THEN length[c.session] ELSE DefaultLength])
  /\ UNCHANGED <<board, history>>

Update(r) ==
  LET c == call[r] IN
  /\ At(r, "update")
  /\ Change(r, c.session,
       Put(board[c.session], c.to), [c EXCEPT !.pc = "rows", !.fresh = FALSE])
  /\ reported' = {x \in reported : c.session \notin x.pair}
  /\ unsaid' = unsaid \ {c.session}
  /\ length' = [length EXCEPT ![c.session] = DurationMinutes(c.to)]
  /\ UNCHANGED <<calls, breaks, turns>>

OffTheBoard(x) == [x EXCEPT !.day = 0, !.room = 0]
Clear(r) ==
  /\ At(r, "clear")
  /\ Change(r, call[r].session, OffTheBoard(board[call[r].session]), Uncalled)
  /\ UNCHANGED history

(* setSpeakers deletes the old links and inserts the new ones. *)
Recast(r, s, speakers, c) ==
  /\ Change(r, s, [board[s] EXCEPT !.speakers = speakers], c)
  /\ unsaid' = unsaid \cup {s}
  /\ UNCHANGED <<reported, length, calls, breaks, turns>>
DeleteSpeakers(r) ==
  /\ At(r, "delete")
  /\ Recast(r, call[r].session, {}, [call[r] EXCEPT !.pc = "insert"])
InsertSpeakers(r) ==
  /\ At(r, "insert") /\ Recast(r, call[r].session, call[r].cast, Uncalled)

(* eventSessionsWithSpeakers: the rows, then the links *)
ReadRows(r) ==
  /\ At(r, "rows")
  /\ Set(r, [call[r] EXCEPT !.pc = "links", !.seen = board, !.fresh = TRUE])
  /\ UNCHANGED <<board, history>>
ReadLinks(r) ==
  LET c == call[r] IN
  /\ At(r, "links")
  /\ Set(r, [c EXCEPT
       !.pc = IF c.kind = "place" THEN "report" ELSE "answer",
       !.seen = [s \in Sessions |-> [@[s] EXCEPT !.speakers = board[s].speakers]]])
  /\ UNCHANGED <<board, history>>

(* Mutant: only conflicts that name it first are reported *)
InvolvingFirst(s, cs) == {c \in cs : s \in c.pair /\ \A t \in c.pair : s <= t}
Involving(s, cs) == {c \in cs : s \in c.pair}
Report(r) ==
  /\ At(r, "report")
  /\ reported' = reported \cup Involving(call[r].session, DetectConflicts(call[r].seen))
  /\ Hang(r) /\ UNCHANGED <<board, unsaid, length, calls, breaks, turns>>

(* Days off the event's dates that carry a session are tried as well. *)
Answer(r) ==
  LET c == call[r]
      days == EventDays \cup ({c.seen[s].day : s \in Sessions} \ {0})
      slot == FirstFreeSlot(FreeSlots(c.seen, c.session, days, c.wanted, c.window)) IN
  /\ At(r, "answer")
  /\ IF ~IsValidDuration(c.wanted) \/ slot = NoWhere THEN Hang(r)
     ELSE Set(r, [c EXCEPT !.pc = "offered", !.to = slot, !.seen = Uncalled.seen])
  /\ UNCHANGED <<board, history>>

(* The dialog is prefilled with the slot; the organizer takes it or leaves. *)
TakeSlot(r) ==
  /\ At(r, "offered") /\ call[r].to \in ValidPlacements
  /\ Set(r, [call[r] EXCEPT !.pc = "update", !.kind = "place"])
  /\ UNCHANGED <<board, history>>
Leave(r) == At(r, "offered") /\ Hang(r) /\ UNCHANGED <<board, history>>

----------------------------------------------------------------------------
(* A decision cancels or reinstates a session; a request breaks off. *)

Turn(s) ==
  /\ turns < MaxTurns /\ turns' = turns + 1
  /\ board' = [board EXCEPT ![s].live = ~@]
  /\ call' = [r \in Organizers |-> [call[r] EXCEPT !.fresh = FALSE]]
  /\ unsaid' = unsaid \cup {s}
  /\ UNCHANGED <<reported, length, calls, breaks>>
Break(r) ==
  /\ r \in Busy /\ breaks < MaxBreaks /\ breaks' = breaks + 1
  /\ unsaid' = unsaid \cup {call[r].session}
  /\ Hang(r) /\ UNCHANGED <<board, reported, length, calls, turns>>

Step(r) ==
  \/ Check(r) \/ Update(r) \/ Clear(r) \/ DeleteSpeakers(r) \/ InsertSpeakers(r)
  \/ ReadRows(r) \/ ReadLinks(r) \/ Report(r) \/ Answer(r) \/ TakeSlot(r) \/ Leave(r)
Next ==
  \/ \E r \in Organizers :
       \/ \E s \in Sessions :
            \/ \E x \in Dragged : PlaceSession(r, s, x)
            \/ UnscheduleSession(r, s)
            \/ \E cast \in SUBSET Speakers : UpdateSessionSpeakers(r, s, cast)
            \/ \E n \in {0, MinLength}, w \in Windows : SuggestSessionSlot(r, s, n, w)
       \/ Step(r) \/ Break(r)
  \/ \E s \in Sessions : Turn(s)

Spec == Init /\ [][Next]_agendaVars

----------------------------------------------------------------------------
(* Properties *)

(* However placements overlap, a double booking of a room or of a speaker   *)
(* that they have made is in the report of at least one of them: of the two *)
(* the one that writes last reads both.  What other operations make of it   *)
(* is for the next reader of the board (placeSession, detectConflicts).     *)
ConflictsSeen ==
  Busy = {} =>
    \A c \in DetectConflicts(board) : c \in reported \/ c.pair \cap unsaid # {}

(* A suggested slot that is taken while the board is as it was read books   *)
(* no room and no speaker twice, be the session cancelled at the time, and  *)
(* has the length the session was last placed with, also after a time in    *)
(* the unscheduled tray; at the end of the day it is one minute short,      *)
(* because 24:00 is written 23:59 (firstConflictFreeSlot,                   *)
(* unscheduleSession, preferredSessionDuration, timeOfMinutes).             *)
SuggestionFits ==
  [][\A r \in Organizers :
       At(r, "update") /\ call[r].fresh /\ call'[r].pc = "rows" =>
         LET c == call[r]
             s == c.session
         IN  /\ DurationMinutes(c.to) =
                  c.placed - (IF c.to.start + c.placed = MinutesPerDay THEN 1 ELSE 0)
             /\ \A t \in Sessions \ {s} :
                  Clashes([board'[s] EXCEPT !.live = TRUE], board'[t]) = {}]_agendaVars

=============================================================================
