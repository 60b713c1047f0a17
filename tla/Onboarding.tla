----------------------------- MODULE Onboarding -----------------------------
(***************************************************************************)
(* What recording decisions promises about the program and the speakers'   *)
(* onboarding, one atomic change at a time: each change is justified by    *)
(* the state it happens in, never by something read earlier.  Module       *)
(* Decision, run one request at a time, is shown to implement this.        *)
(***************************************************************************)
CONSTANTS Submissions, Speakers, Tasks, Creators

VARIABLES
  status,    \* the decision each proposal stands on
  sessions,  \* sessions[s][c]: "none", "confirmed" or "cancelled"
  cast,      \* who is on each session
  work       \* the onboarding each speaker owes

vars == <<status, sessions, cast, work>>

Confirmed(s, c) == sessions[s][c] = "confirmed"
Speaking(p) == \E s \in Submissions, c \in Creators : Confirmed(s, c) /\ p \in cast[s][c]

Init ==
  /\ status \in [Submissions -> {"submitted", "approved"}]
  /\ sessions \in [Submissions -> [Creators -> {"none", "confirmed"}]]
  /\ cast \in [Submissions -> [Creators -> SUBSET Speakers]]
  /\ work \in [Tasks \X Speakers -> {"none", "pending"}]
  /\ \A s \in Submissions :
       (\E c \in Creators : Confirmed(s, c)) <=> status[s] = "approved"
  /\ \A x \in Tasks \X Speakers : work[x] = "pending" <=> Speaking(x[2])

Rule(s, d) ==
  /\ status' = [status EXCEPT ![s] = d]
  /\ UNCHANGED <<sessions, cast, work>>

(* A proposal becomes a session once, while it is accepted. *)
Convert(s, c) ==
  /\ status[s] = "approved" /\ \A e \in Creators : sessions[s][e] = "none"
  /\ sessions' = [sessions EXCEPT ![s][c] = "confirmed"]
  /\ UNCHANGED <<status, cast, work>>

(* The same session comes back when the proposal is accepted again... *)
Restore(s, c) ==
  /\ status[s] = "approved" /\ sessions[s][c] = "cancelled"
  /\ sessions' = [sessions EXCEPT ![s][c] = "confirmed"]
  /\ UNCHANGED <<status, cast, work>>

(* ... and is stood down only when it no longer is. *)
StandDown(s, c) ==
  /\ status[s] # "approved" /\ Confirmed(s, c)
  /\ sessions' = [sessions EXCEPT ![s][c] = "cancelled"]
  /\ UNCHANGED <<status, cast, work>>

Recast(s, c, team) ==
  /\ sessions[s][c] # "none"
  /\ cast' = [cast EXCEPT ![s][c] = team]
  /\ UNCHANGED <<status, sessions, work>>

(* Work is handed only to someone speaking... *)
Assign(x) ==
  /\ work[x] = "none" /\ Speaking(x[2])
  /\ work' = [work EXCEPT ![x] = "pending"]
  /\ UNCHANGED <<status, sessions, cast>>

Finish(x) ==
  /\ work[x] = "pending"
  /\ work' = [work EXCEPT ![x] = "completed"]
  /\ UNCHANGED <<status, sessions, cast>>

(* ... and taken back only unfinished, from someone who no longer is. *)
Withdraw(x) ==
  /\ work[x] = "pending" /\ ~Speaking(x[2])
  /\ work' = [work EXCEPT ![x] = "none"]
  /\ UNCHANGED <<status, sessions, cast>>

Next ==
  \/ \E s \in Submissions :
       \/ \E d \in {"approved", "maybe", "denied"} : Rule(s, d)
       \/ \E c \in Creators :
            \/ Convert(s, c) \/ Restore(s, c) \/ StandDown(s, c)
            \/ \E team \in SUBSET Speakers : Recast(s, c, team)
  \/ \E x \in Tasks \X Speakers : Assign(x) \/ Finish(x) \/ Withdraw(x)

Spec == Init /\ [][Next]_vars
============================================================================
