---------------------------- MODULE MCOrganizers ----------------------------
(* What organizers do side by side on small instances: they run the team,   *)
(* one request at a time, or build the agenda.                              *)
EXTENDS MCTeam

CONSTANTS
  Sessions, Days, Rooms, Speakers, EventDays,
  MinutesPerDay, MinLength, MaxLength, DefaultLength, SnapMinutes,
  Opening, Windows, MaxCalls, MaxBreaks, MaxTurns  \* of the agenda

VARIABLES
  part,
  board, call, reported, unsaid, length, calls, breaks, turns

(* One of the two sessions may have its place already; a suggestion is      *)
(* asked for the day.                                                       *)
Openings ==
  {[day |-> 0, start |-> 0, end |-> 0, room |-> 0], [day |-> 1, start |-> 0, end |-> 2, room |-> 1]}
WholeDay == {<<0, MinutesPerDay>>}
Scheduling == INSTANCE Agenda WITH Organizers <- Requests

scheduling == <<board, call, reported, unsaid, length, calls, breaks, turns>>

(* The part that does not run is nowhere: a team of admins, an empty board. *)
NoTeam ==
  /\ role = [u \in Users |-> "admin"] /\ routed = [u \in Users |-> {}]
  /\ work = [a \in Rows |-> "unused"]
  /\ req = [r \in Requests |-> Idle] /\ last = [u \in Users |-> None]
NoAgenda ==
  /\ board = 0 /\ call = 0 /\ reported = 0 /\ unsaid = 0 /\ length = 0
  /\ calls = 0 /\ breaks = 0 /\ turns = 0

Gather ==
  \/ part = "team" /\ Init /\ NoAgenda
  \/ part = "agenda" /\ NoTeam /\ Scheduling!Init
Work ==
  \/ part = "team" /\ Next /\ UNCHANGED <<part, scheduling>>
  \/ part = "agenda" /\ Scheduling!Next /\ UNCHANGED <<part, vars>>
Screens == Gather /\ [][Work]_<<part, vars, scheduling>>

(* The properties of Agenda, stated there.                                  *)
ConflictsSeen == part = "agenda" => Scheduling!ConflictsSeen
SuggestionFits ==
  [][\A r \in Requests :
       part = "agenda" /\ call[r].pc = "update" /\ call[r].fresh /\ call'[r].pc = "rows" =>
         LET c == call[r]
             s == c.session
         IN  /\ Scheduling!DurationMinutes(c.to) =
                  c.placed - (IF c.to.start + c.placed = MinutesPerDay THEN 1 ELSE 0)
             /\ \A t \in DOMAIN board \ {s} :
                  Scheduling!Clashes([board'[s] EXCEPT !.live = TRUE], board'[t]) = {}]_scheduling
=============================================================================
