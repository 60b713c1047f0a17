------------------------------ MODULE Program ------------------------------
(***************************************************************************)
(* The public program of one event: the schedule, the speaker gallery and  *)
(* the feeds made of them, each put together from several reads while      *)
(* organizers approve, cancel, place and staff sessions and take the       *)
(* program on and off the web.                                             *)
(***************************************************************************)
EXTENDS Naturals, Sequences, FiniteSets

CONSTANTS
  Sessions, \* 1..n, by title
  Speakers,
  Places,   \* [day, start, end, room], numbers; a session without a room is in room 0
  Wishes,   \* sets of sessions: those of the track an embed is for, or the starred ones
  None,
  MaxEdits  \* bound: changes by organizers

VARIABLES
  status,    \* sessions
  approved,  \* sessions with content status "approved"
  place,     \* day, times and room of a session that is on the agenda
  linked,    \* session_speakers
  declined,  \* event_speakers: who is not coming
  published, \* events.program_published
  plan,      \* an organizer's request to publish, and what it reports
  page,      \* one page or feed
  edits

programVars == <<status, approved, place, linked, declined, published, plan, page, edits>>
agenda == <<status, approved, place, linked, declined>>

NoPlan == [pc |-> "none", flag |-> FALSE, toPublish |-> {}, heldBack |-> {}, unscheduled |-> {}, calm |-> TRUE]
NoPage ==
  [kind |-> "none", pc |-> "none", wish |-> {}, look |-> FALSE, rows |-> {}, out |-> {}, unread |-> {},
   at |-> [s \in Sessions |-> None], slots |-> <<>>, cards |-> {}, bylines |-> {},
   ever |-> {}, always |-> {}, after |-> NoPlan]
Kinds == {"schedule", "speakers", "feed", "speakersFeed", "calendar"}

TypeOK ==
  /\ status \in [Sessions -> {"confirmed", "cancelled"}] /\ approved \subseteq Sessions
  /\ place \in [Sessions -> Places \cup {None}]
  /\ linked \subseteq Sessions \X Speakers /\ declined \subseteq Speakers
  /\ published \in BOOLEAN /\ plan.pc \in {"none", "write", "done"}
  /\ page.kind \in Kinds \cup {"none"} /\ page.pc \in {"none", "look", "gate", "read", "links", "done"}
  /\ edits \in Nat

Visible == {s \in Sessions : status[s] = "confirmed" /\ s \in approved}
Placed == {s \in Sessions : place[s] # None}

Init ==
  /\ status \in [Sessions -> {"confirmed", "cancelled"}] /\ approved \in SUBSET Sessions
  /\ place \in [Sessions -> Places \cup {None}]
  /\ linked \in SUBSET (Sessions \X Speakers) /\ declined \in SUBSET Speakers
  /\ published \in BOOLEAN /\ plan = NoPlan /\ page = NoPage /\ edits = 0

----------------------------------------------------------------------------
(* What is true of the program at a moment, for pages to be held against    *)
Facts ==
  (IF published THEN {<<"program">>} ELSE {})
  \cup {<<"shown", s>> : s \in Visible}
  \cup {<<"printed", s, place[s]>> : s \in Visible \cap Placed}
  \cup {<<"linked", x[1], x[2]>> : x \in linked}
  \cup {<<"coming", p>> : p \in Speakers \ declined}

(* A page that is being made notes what comes true and what ceases to be.   *)
Noted(g) == IF g.pc \in {"none", "done"} THEN [g EXCEPT !.after = NoPlan]
            ELSE [g EXCEPT !.ever = @ \cup Facts', !.always = @ \cap Facts', !.after = NoPlan]
Edit ==
  /\ UNCHANGED published
  /\ edits < MaxEdits /\ edits' = edits + 1 /\ page' = Noted(page)
  /\ plan' = IF plan.pc = "none" THEN plan ELSE [plan EXCEPT !.calm = FALSE]

SetStatus(s, to) ==
  /\ to # status[s] /\ status' = [status EXCEPT ![s] = to]
  /\ UNCHANGED <<approved, place, linked, declined>> /\ Edit
SetContentStatus(s) ==
  /\ approved' = IF s \in approved THEN approved \ {s} ELSE approved \cup {s}
  /\ UNCHANGED <<status, place, linked, declined>> /\ Edit
Schedule(s, to) ==
  /\ to # place[s] /\ place' = [place EXCEPT ![s] = to]
  /\ UNCHANGED <<status, approved, linked, declined>> /\ Edit
SetSpeaker(s, p) ==
  /\ linked' = IF <<s, p>> \in linked THEN linked \ {<<s, p>>} ELSE linked \cup {<<s, p>>}
  /\ UNCHANGED <<status, approved, place, declined>> /\ Edit
SetConfirmation(p) ==
  /\ declined' = IF p \in declined THEN declined \ {p} ELSE declined \cup {p}
  /\ UNCHANGED <<status, approved, place, linked>> /\ Edit

----------------------------------------------------------------------------
(* setProgramPublished; what it reports is what the preview reported, too   *)

(* planProgramPublish *)
(* Mutant: a session that is on the agenda goes out *)
PlanByAgenda(flag) ==
  [NoPlan EXCEPT !.pc = "write", !.flag = flag,
                 !.toPublish = {s \in Placed : status[s] = "confirmed"},
                 !.heldBack = {s \in Placed : status[s] # "confirmed"},
                 !.unscheduled = Visible \ Placed]
PlanProgramPublish(flag) ==
  [NoPlan EXCEPT !.pc = "write", !.flag = flag,
                 !.toPublish = Placed \cap Visible, !.heldBack = Placed \ Visible,
                 !.unscheduled = Visible \ Placed]
ReadPlan(flag) ==
  /\ plan.pc # "write" /\ edits < MaxEdits /\ plan' = PlanProgramPublish(flag)
  /\ UNCHANGED <<agenda, published, page, edits>>
Publish ==
  /\ plan.pc = "write" /\ published' = plan.flag /\ UNCHANGED agenda
  /\ plan' = [plan EXCEPT !.pc = "done"]
  /\ edits < MaxEdits /\ edits' = edits + 1 /\ page' = Noted(page)

FailPublish ==
  /\ plan.pc = "write" /\ plan' = NoPlan /\ UNCHANGED <<agenda, published, page, edits>>

----------------------------------------------------------------------------
(* A page or feed *)

LooksFirst(kind) == kind \notin {"schedule", "speakers"}
OfSpeakers(kind) == kind \in {"speakers", "speakersFeed"}
Quiet == UNCHANGED <<agenda, published, plan, edits>>

Begin(kind, wish) ==
  /\ page.pc = "none"
  /\ page' = [NoPage EXCEPT !.kind = kind, !.wish = wish, !.ever = Facts, !.always = Facts,
                            !.pc = IF LooksFirst(kind) THEN "look" ELSE "gate",
                            !.after = IF plan.pc = "done" THEN plan ELSE NoPlan]
  /\ Quiet

(* What a page that is done has read is forgotten. *)
Ended(g) == [g EXCEPT !.pc = "done", !.rows = {}, !.out = {}]

(* A feed reads the event for itself, before its loader does.  The calendar *)
(* ends there while the program is not public.                              *)
Look ==
  /\ page.pc = "look"
  /\ page' = IF page.kind = "calendar" /\ ~published THEN Ended(page)
             ELSE [page EXCEPT !.look = published, !.pc = "gate"]
  /\ Quiet
Gate ==
  /\ page.pc = "gate"
  /\ page' = IF published THEN [page EXCEPT !.pc = "read", !.unread = {"sessions", "members"}]
             ELSE Ended(page)
  /\ Quiet

(* Sessions and members are asked for at once. *)
Read(what, g) ==
  /\ page.pc = "read" /\ what \in page.unread
  /\ page' = [g EXCEPT !.unread = @ \ {what}, !.pc = IF page.unread = {what} THEN "links" ELSE "read"]
  /\ Quiet
ReadSessions == Read("sessions", [page EXCEPT !.rows = Visible, !.at = place])
ReadMembers == Read("members", [page EXCEPT !.out = declined])

(* By day, start, room and title: the rows come by title. *)
Key(g, s) == <<g.at[s].day, g.at[s].start, g.at[s].room, s>>
Before(a, b) == \E i \in 1..4 : a[i] < b[i] /\ \A j \in 1..(i - 1) : a[j] = b[j]
InOrder(g, printed) ==
  LET position(s) == Cardinality({r \in printed : Before(Key(g, r), Key(g, s))}) + 1
  IN  [n \in 1..Cardinality(printed) |-> CHOOSE s \in printed : position(s) = n]
Times(p) == [day |-> p.day, start |-> p.start, end |-> p.end]
(* A session joins the last slot when that has its day and times.           *)
AddToSlots(g, slots, s) ==
  LET last == Len(slots)
  IN  IF last > 0 /\ slots[last].range = Times(g.at[s])
      THEN [slots EXCEPT ![last].sessions = Append(@, s)]
      ELSE Append(slots, [range |-> Times(g.at[s]), sessions |-> <<s>>])
Slots(g, sorted) ==
  LET slots[n \in 0..Len(sorted)] ==
        IF n = 0 THEN <<>> ELSE AddToSlots(g, slots[n - 1], sorted[n])
  IN  slots[Len(sorted)]
BuildSchedule(g, talks) ==
  LET printed == {s \in g.rows : g.at[s] # None /\ s \in g.wish}
  IN  [g EXCEPT !.slots = Slots(g, InOrder(g, printed)), !.bylines = {x \in talks : x[1] \in printed}]
(* A card per speaker, with all their talks: one of them is asked for.      *)
BuildGallery(g, talks) ==
  LET cards == {p \in Speakers : \E s \in g.wish : <<s, p>> \in talks}
  IN  [g EXCEPT !.cards = cards, !.bylines = {x \in talks : x[2] \in cards}]

(* Who declined is on no byline.  *)
ReadLinks ==
  LET talks == {x \in linked : x[1] \in page.rows /\ x[2] \notin page.out} IN
  /\ page.pc = "links"
  /\ page' = Ended(IF OfSpeakers(page.kind) THEN BuildGallery(page, talks) ELSE BuildSchedule(page, talks))
  /\ Quiet

Next ==
  \/ \E s \in Sessions :
       \/ \E to \in {"confirmed", "cancelled"} : SetStatus(s, to)
       \/ SetContentStatus(s)
       \/ \E to \in Places \cup {None} : Schedule(s, to)
       \/ \E p \in Speakers : SetSpeaker(s, p)
  \/ \E p \in Speakers : SetConfirmation(p)
  \/ (\E flag \in BOOLEAN : ReadPlan(flag)) \/ Publish \/ FailPublish
  \/ \E kind \in Kinds, wish \in Wishes : Begin(kind, wish)
  \/ Look \/ Gate \/ ReadSessions \/ ReadMembers \/ ReadLinks

Spec == Init /\ [][Next]_programVars

----------------------------------------------------------------------------
(* Properties *)

Done == page.pc = "done"
Ever(fact) == fact \in page.ever
Always(fact) == fact \in page.always
SessionsAt(k) == page.slots[k].sessions
Listed == UNION {{SessionsAt(k)[i] : i \in DOMAIN SessionsAt(k)} : k \in DOMAIN page.slots}

(* Nothing is shown that was not public at some moment while the page was   *)
(* made, with a time and with names that it then had.                       *)
NothingHiddenShows ==
  /\ Listed # {} \/ page.cards # {} => Ever(<<"program">>)
  /\ \A k \in DOMAIN page.slots : \A i \in DOMAIN SessionsAt(k) :
       \E to \in Places : Ever(<<"printed", SessionsAt(k)[i], to>>) /\ Times(to) = page.slots[k].range
  /\ \A x \in page.bylines :
       Ever(<<"shown", x[1]>>) /\ Ever(<<"linked", x[1], x[2]>>) /\ Ever(<<"coming", x[2]>>)

(* What was public all the while is shown, a session once.                  *)
Speaks(s, p) == Always(<<"shown", s>>) /\ Always(<<"linked", s, p>>) /\ Always(<<"coming", p>>)
EverythingPublicShows ==
  Always(<<"program">>) =>
    IF OfSpeakers(page.kind)
    THEN \A p \in Speakers : (\E s \in page.wish : Speaks(s, p)) =>
           \A s \in Sessions : Speaks(s, p) => <<s, p>> \in page.bylines
    ELSE \A s \in page.wish, to \in Places : Always(<<"printed", s, to>>) =>
           /\ s \in Listed
           /\ \A p \in Speakers : Speaks(s, p) => <<s, p>> \in page.bylines

(* Sessions come in agenda order, in slots of one range each; a range comes *)
(* twice only where another one begins at the same time between the two.    *)
SlotsAreInOrder ==
  /\ \A k, l \in DOMAIN page.slots : \A i \in DOMAIN SessionsAt(k), j \in DOMAIN SessionsAt(l) :
       k < l \/ (k = l /\ i < j) => Before(Key(page, SessionsAt(k)[i]), Key(page, SessionsAt(l)[j]))
  /\ \A k, l \in DOMAIN page.slots :
       k < l /\ page.slots[k].range = page.slots[l].range =>
         \E m \in (k + 1)..(l - 1) :
           LET other == page.slots[m].range IN
           other.start = page.slots[k].range.start /\ other.end # page.slots[k].range.end

(* The public program, while it is edited under its pages                   *)
(* (getSessionsWithSpeakers, getSchedule, getGallery, buildSchedule,        *)
(* buildGallery, the feeds).                                                *)
PagesTellTheProgram == Done => NothingHiddenShows /\ EverythingPublicShows /\ SlotsAreInOrder

(* What publishing was said to do it did: pages made afterwards show what   *)
(* was to be published and nothing that was to be held back, until somebody *)
(* edits (planProgramPublish: "this can never drift from what the public    *)
(* schedule itself actually shows").                                        *)
PlanIsKept ==
  LET said == page.after
      public == IF said.flag THEN said.toPublish ELSE {} IN
  Done /\ said.pc = "done" /\ said.calm =>
    IF OfSpeakers(page.kind)
    THEN {x[1] : x \in page.bylines} \subseteq public \cup IF said.flag THEN said.unscheduled ELSE {}
    ELSE Listed = public \cap page.wish
=============================================================================
