---------------------------- MODULE Invitations ----------------------------
(***************************************************************************)
(* Calendar invitations for one session.  Sending again updates the entry  *)
(* in a speaker's calendar in place, because the SEQUENCE is higher; and   *)
(* the SEQUENCE is nowhere stored: it is the number of invitations for the *)
(* session that email_log has as sent to the address.                      *)
(***************************************************************************)
EXTENDS Naturals, FiniteSets

CONSTANTS
  Sends,      \* presses of the button, reused once they have ended
  Speakers,
  None,
  MaxPlaces,  \* bound: how often the session is placed on the agenda
  MaxFaults,  \* bound: bounces, lost rows, stopped workers
  MaxSent     \* bound: invitations begun

VARIABLES
  place,     \* day, time and room of the session; 0 is unscheduled
  roster,    \* session_speakers
  refusing,  \* speakers whose confirmation says declined
  logged,    \* calendar_invite rows logged as sent, for each speaker
  calendar,  \* what each speaker's calendar shows: SEQUENCE and placement
  send,      \* the sends' own state
  lost,      \* history: speakers an invitation reached without its row
  slips,     \* failures so far
  begun

inviteVars == <<place, roster, refusing, logged, calendar, send, lost, slips, begun>>

Nothing == [seq |-> 0, place |-> 0]   \* placement 0: no entry yet
Entry == [seq : Nat, place : Nat]
Send ==
  [pc : {"idle", "people", "next", "count", "send", "record"},
   place : Nat,                 \* the placement it read
   people : SUBSET Speakers,    \* the speakers it read
   rest : SUBSET Speakers,      \* recipients still to come
   mail : Speakers \cup {None},
   seq : Nat,
   alone : BOOLEAN]             \* history: no other send has been under way

TypeOK ==
  /\ place \in Nat /\ roster \subseteq Speakers /\ refusing \subseteq Speakers
  /\ logged \in [Speakers -> Nat] /\ calendar \in [Speakers -> Entry]
  /\ send \in [Sends -> Send]
  /\ lost \subseteq Speakers /\ slips \in Nat /\ begun \in Nat

Unsent == [pc |-> "idle", place |-> 0, people |-> {}, rest |-> {}, mail |-> None,
           seq |-> 0, alone |-> TRUE]

Init ==
  /\ place = 0
  /\ roster \in SUBSET Speakers
  /\ refusing = {}
  /\ logged = [p \in Speakers |-> 0] /\ calendar = [p \in Speakers |-> Nothing]
  /\ send = [s \in Sends |-> Unsent]
  /\ lost = {} /\ slips = 0 /\ begun = 0

At(s, label) == send[s].pc = label
Set(s, q) == send' = [send EXCEPT ![s] = q]
Sending == {s \in Sends : ~At(s, "idle")}
agenda == <<place, roster, refusing>>

----------------------------------------------------------------------------
(* The session is placed, its roster changes, a speaker declines.           *)
Place ==
  /\ place < MaxPlaces /\ place' = place + 1
  /\ UNCHANGED <<roster, refusing, logged, calendar, send, lost, slips, begun>>
Recast(p) ==
  /\ roster' = IF p \in roster THEN roster \ {p} ELSE roster \cup {p}
  /\ UNCHANGED <<place, refusing, logged, calendar, send, lost, slips, begun>>
Decline(p) ==
  /\ p \notin refusing /\ refusing' = refusing \cup {p}
  /\ UNCHANGED <<place, roster, logged, calendar, send, lost, slips, begun>>

----------------------------------------------------------------------------
(* A send.  A session without a day and a time cannot be invited on.        *)
SendCalendarInvite(s) ==
  /\ At(s, "idle") /\ place # 0
  /\ begun < MaxSent /\ begun' = begun + 1
  /\ send' = [q \in Sends |->
       IF q = s THEN [Unsent EXCEPT !.pc = "people", !.place = place,
                                    !.people = roster, !.alone = (Sending = {})]
       ELSE [send[q] EXCEPT !.alone = @ /\ At(q, "idle")]]
  /\ UNCHANGED <<agenda, logged, calendar, lost, slips>>

(* Nobody on the session is an error; everyone declining is not. *)
ReadConfirmations(s) ==
  /\ At(s, "people")
  /\ Set(s, IF send[s].people = {} THEN Unsent
            ELSE [send[s] EXCEPT !.pc = "next", !.rest = send[s].people \ refusing])
  /\ UNCHANGED <<agenda, logged, calendar, lost, slips, begun>>

NextRecipient(s, p) ==
  /\ At(s, "next") /\ p \in send[s].rest
  /\ Set(s, [send[s] EXCEPT !.pc = "count", !.rest = @ \ {p}, !.mail = p])
  /\ UNCHANGED <<agenda, logged, calendar, lost, slips, begun>>

(* Mutant: the latest SEQUENCE is used again *)
LastSequenceFor(p) == IF logged[p] = 0 THEN 0 ELSE logged[p] - 1
NextSequenceFor(p) == logged[p]

Count(s) ==
  /\ At(s, "count")
  /\ Set(s, [send[s] EXCEPT !.pc = "send", !.seq = NextSequenceFor(send[s].mail)])
  /\ UNCHANGED <<agenda, logged, calendar, lost, slips, begun>>

(* A calendar takes an entry it does not have, and an update only under a   *)
(* higher SEQUENCE.                                                         *)
Received(entry, seq, at) ==
  IF entry.place = 0 \/ seq > entry.seq THEN [seq |-> seq, place |-> at] ELSE entry

Deliver(s) ==
  /\ At(s, "send")
  /\ LET p == send[s].mail IN
     calendar' = [calendar EXCEPT ![p] = Received(@, send[s].seq, send[s].place)]
  /\ Set(s, [send[s] EXCEPT !.pc = "record"])
  /\ UNCHANGED <<agenda, logged, lost, slips, begun>>

Slip == slips < MaxFaults /\ slips' = slips + 1

(* A refused mail is logged as failed and not counted. *)
Bounce(s) ==
  /\ At(s, "send") /\ Slip
  /\ Set(s, [send[s] EXCEPT !.pc = "next", !.mail = None])
  /\ UNCHANGED <<agenda, logged, calendar, lost, begun>>

Record(s) ==
  /\ At(s, "record")
  /\ logged' = [logged EXCEPT ![send[s].mail] = @ + 1]
  /\ Set(s, [send[s] EXCEPT !.pc = "next", !.mail = None])
  /\ UNCHANGED <<agenda, calendar, lost, slips, begun>>

LoseRow(s) ==
  /\ At(s, "record") /\ Slip
  /\ lost' = lost \cup {send[s].mail}
  /\ Set(s, [send[s] EXCEPT !.pc = "next", !.mail = None])
  /\ UNCHANGED <<agenda, logged, calendar, begun>>

Finish(s) ==
  /\ At(s, "next") /\ send[s].rest = {}
  /\ Set(s, Unsent)
  /\ UNCHANGED <<agenda, logged, calendar, lost, slips, begun>>

Stop(s) ==
  /\ s \in Sending /\ Slip
  /\ lost' = IF At(s, "record") THEN lost \cup {send[s].mail} ELSE lost
  /\ Set(s, Unsent)
  /\ UNCHANGED <<agenda, logged, calendar, begun>>

Next ==
  \/ Place
  \/ \E p \in Speakers : Recast(p) \/ Decline(p)
  \/ \E s \in Sends :
       \/ SendCalendarInvite(s) \/ ReadConfirmations(s)
       \/ \E p \in Speakers : NextRecipient(s, p)
       \/ Count(s) \/ Deliver(s) \/ Bounce(s) \/ Record(s) \/ LoseRow(s)
       \/ Finish(s) \/ Stop(s)

Spec == Init /\ [][Next]_inviteVars

----------------------------------------------------------------------------
(* Properties *)

(* Whatever came before, an invitation sent while no other send was under   *)
(* way lands: the calendar it reached shows the placement it was sent for,  *)
(* unless a row of an earlier invitation to the same address was lost       *)
(* (nextSequenceFor).                                                       *)
UpdatesLand ==
  \A s \in Sends :
    At(s, "record") /\ send[s].alone /\ send[s].mail \notin lost =>
      calendar[send[s].mail].place = send[s].place

============================================================================
