------------------------------ MODULE ApiLists ------------------------------
(***************************************************************************)
(* A list of an event's sessions or speakers, or one speaker, for the API:  *)
(* put together from several reads while the rows behind them change.       *)
(***************************************************************************)
EXTENDS Naturals

CONSTANTS
  Sessions, People,
  MaxChanges  \* bound: changes under the request

VARIABLES
  rows,  \* of the event: sessions, session_speakers, event_speakers, task_assignments
  list,  \* the request
  ever,  \* rows there were at some moment since it began
  stood, \* rows there have been all the while
  changes

listVars == <<rows, list, ever, stood, changes>>

Session(s) == <<"session", s>>
Link(s, p) == <<"link", s, p>>
Member(p, st) == <<"member", p, st>>
Given(p) == <<"task", p>>
Answers == {"open", "confirmed", "declined"}

(* What is true of a person in a set of rows                                *)
SpeaksAt(r, p) == {s \in Sessions : Link(s, p) \in r}
Stored(r, p) == {st \in Answers : Member(p, st) \in r}
Concerned(r) == {p \in People : SpeaksAt(r, p) # {} \/ Stored(r, p) # {} \/ Given(p) \in r}

Sound(r) ==
  /\ \A p \in People : \A s \in SpeaksAt(r, p) : Session(s) \in r
  /\ \A p \in People : \A a, b \in Stored(r, p) : a = b
AllRows ==
  {Session(s) : s \in Sessions} \cup {Link(s, p) : s \in Sessions, p \in People}
  \cup {Member(p, st) : p \in People, st \in Answers} \cup {Given(p) : p \in People}

Firsts == {"sessions", "members", "tasks"}
NoList == [pc |-> "none", kind |-> "none", unread |-> {}, got |-> {}, shown |-> {}, at |-> {}]

TypeOK ==
  /\ rows \subseteq AllRows /\ ever \subseteq AllRows /\ stood \subseteq AllRows
  /\ list.pc \in {"none", "first", "links", "people", "sessions", "end"} /\ list.unread \subseteq Firsts
  /\ list.got \subseteq AllRows /\ changes \in 0..MaxChanges

Init ==
  /\ rows \in SUBSET AllRows /\ Sound(rows)
  /\ list = NoList /\ ever = {} /\ stood = {} /\ changes = 0

(* A session is written with its speakers, and they go with it; another     *)
(* answer takes the place of the first (batch, cascade, setConfirmation).   *)
Change ==
  /\ list.pc \in {"first", "links", "people", "sessions"} /\ changes < MaxChanges
  /\ \/ \E s \in Sessions, team \in SUBSET People :
          LET rest == rows \ {Link(s, p) : p \in People} IN
          \/ rows' = rest \ {Session(s)}
          \/ rows' = rest \cup {Session(s)} \cup {Link(s, p) : p \in team}
     \/ \E p \in People, st \in Answers :
          LET rest == rows \ {Member(p, a) : a \in Answers} IN rows' \in {rest, rest \cup {Member(p, st)}}
     \/ \E p \in People : rows' \in {rows \cup {Given(p)}, rows \ {Given(p)}}
  /\ rows' # rows /\ changes' = changes + 1
  /\ ever' = ever \cup rows' /\ stood' = stood \cap rows' /\ UNCHANGED list

Goes(q) == list' = q /\ UNCHANGED <<rows, ever, stood, changes>>
Begin(kind) ==
  /\ list.pc = "none" /\ ever' = rows /\ stood' = rows
  /\ list' = [NoList EXCEPT !.pc = "first", !.kind = kind,
                            !.unread = IF kind = "sessions" THEN {"sessions"} ELSE Firsts]
  /\ UNCHANGED <<rows, changes>>
(* listSessions; speakerRows: the first reads run side by side, the links   *)
(* are read for the sessions that were found.                               *)
Found(what) ==
  CASE what = "sessions" -> rows \cap {Session(s) : s \in Sessions}
    [] what = "members" -> rows \cap {Member(p, st) : p \in People, st \in Answers}
    [] OTHER -> rows \cap {Given(p) : p \in People}
ReadRows(what) ==
  /\ list.pc = "first" /\ what \in list.unread
  /\ Goes([list EXCEPT !.unread = @ \ {what}, !.got = @ \cup Found(what),
                       !.pc = IF list.unread = {what} THEN "links" ELSE @])
ReadLinks ==
  /\ list.pc = "links"
  /\ Goes([list EXCEPT !.pc = "people",
       !.got = @ \cup (rows \cap {Link(s, p) : s \in {t \in Sessions : Session(t) \in list.got}, p \in People})])

(* deriveApiConfirmation *)
Confirmation(got, p) ==
  IF Stored(got, p) \ {"open"} # {} THEN CHOOSE st \in Stored(got, p) : TRUE
  ELSE IF SpeaksAt(got, p) # {} THEN "confirmed" ELSE "unconfirmed"
(* Mutant: who only speaks is not listed *)
SpeakerRowsOfMembers(got) ==
  {<<p, Confirmation(got, p)>> : p \in {q \in People : Stored(got, q) # {} \/ Given(q) \in got}}
SpeakerRows(got) == {<<p, Confirmation(got, p)>> : p \in Concerned(got)}
SessionRows(got) ==
  {<<s, {p \in People : Link(s, p) \in got}>> : s \in {t \in Sessions : Session(t) \in got}}
(* One speaker is looked up in the list of them all; their sessions are     *)
(* read once more.                                                          *)
Shape ==
  /\ list.pc = "people"
  /\ Goes(CASE list.kind = "sessions" -> [list EXCEPT !.pc = "end", !.shown = SessionRows(list.got)]
            [] list.kind = "speakers" -> [list EXCEPT !.pc = "end", !.shown = SpeakerRows(list.got)]
            [] OTHER -> [list EXCEPT !.pc = "sessions", !.shown = SpeakerRows(list.got)])
SpeakersSessions(p) ==
  /\ list.pc = "sessions"
  /\ Goes([list EXCEPT !.pc = "end", !.shown = {x \in @ : x[1] = p},
       !.at = IF p \in Concerned(list.got) THEN {s \in SpeaksAt(list.got, p) : Session(s) \in rows} ELSE {}])

Next ==
  \/ Change \/ ReadLinks \/ Shape
  \/ \E kind \in {"sessions", "speakers", "speaker"} : Begin(kind)
  \/ \E what \in Firsts : ReadRows(what)
  \/ \E p \in People : SpeakersSessions(p)

Spec == Init /\ [][Next]_listVars

----------------------------------------------------------------------------
(* Whoever a row of the event stood for all the while is listed, nobody is  *)
(* for whom none ever did, and what a person is said to have answered, and  *)
(* where they are said to speak, was so at some moment; what was so all     *)
(* the while is not left out (listSessions, speakerRows,                    *)
(* deriveApiConfirmation).                                                  *)
Claimed(x) ==
  CASE x[2] = "unconfirmed" -> SpeaksAt(stood, x[1]) = {} /\ Stored(stood, x[1]) \subseteq {"open"}
    [] x[2] = "declined" -> "declined" \in Stored(ever, x[1])
    [] OTHER -> "confirmed" \in Stored(ever, x[1]) \/ SpeaksAt(ever, x[1]) # {}
ListsTell ==
  list.pc = "end" =>
    /\ list.kind = "speakers" => Concerned(stood) \subseteq {x[1] : x \in list.shown}
    /\ list.kind # "sessions" =>
         \A x \in list.shown :
           /\ x[1] \in Concerned(ever) /\ Claimed(x)
           /\ list.at \subseteq SpeaksAt(ever, x[1])
           /\ list.kind = "speaker" => SpeaksAt(stood, x[1]) \subseteq list.at
    /\ list.kind = "sessions" =>
         /\ {s \in Sessions : Session(s) \in stood} \subseteq {x[1] : x \in list.shown}
         /\ \A x \in list.shown :
              /\ Session(x[1]) \in ever
              /\ {p \in People : Link(x[1], p) \in stood} \subseteq x[2]
              /\ \A p \in x[2] : Link(x[1], p) \in ever
============================================================================
