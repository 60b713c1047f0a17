----------------------------- MODULE Directory -----------------------------
(***************************************************************************)
(* People known by their addresses: accounts, the contacts of the          *)
(* organization and the roster of an event.  Organizers add or import      *)
(* them line by line while the people sign up and write their profiles;    *)
(* one action is one statement, and any of them may fail or be the last.   *)
(*                                                                         *)
(* Of a profile its name and its bio are kept, a bio as who wrote it.      *)
(***************************************************************************)
EXTENDS Naturals, Sequences

CONSTANTS
  Requests, \* additions and imports by organizers
  Emails, Names,
  Files,    \* what they bring: sequences of lines [email, name, bio \in BOOLEAN]
  None

VARIABLES
  account,   \* users
  contacts, \* contacts: the organization's registry
  members,  \* event_speakers, and whoever speaks at the event
  req,
  owns,     \* history: whose bio is their own wording, by what they last did
  trod,     \* history: who saved a bio while a request had read there was none
  renamed,  \* history: who had a name and was given another
  crossed   \* history: requests that ran at the same time

directoryVars == <<account, contacts, members, req, owns, trod, renamed, crossed>>
people == <<owns, trod, renamed, crossed>>

Blank == [name |-> None, bio |-> None]
Idle == [pc |-> "idle", into |-> None, rows |-> <<>>, known |-> {}, patch |-> {}, results |-> {}]

TypeOK ==
  /\ \A e \in Emails : account[e] # None =>
       /\ account[e].name \in Names \cup {None}
       /\ account[e].bio \in Requests \cup {"own", "edited", None}
  /\ contacts \cup members \cup owns \cup trod \cup renamed \subseteq Emails
  /\ crossed \subseteq SUBSET Requests
  /\ \A r \in Requests :
       req[r].pc \in {"idle", "list", "find", "create", "patch", "enter", "done"}

Init ==
  /\ account \in [Emails -> {None, Blank} \cup [name : Names, bio : {None}]]
  /\ contacts = {} /\ members \in SUBSET {e \in Emails : account[e] # None}
  /\ req = [r \in Requests |-> Idle]
  /\ owns = {} /\ trod = {} /\ renamed = {} /\ crossed = {}

----------------------------------------------------------------------------
(* What is brought *)

(* parseSpeakerCsv: lines of one address are one row, which has the name of *)
(* the first and the first bio there is.                                    *)
Folded(rows, line) ==
  IF \E i \in DOMAIN rows : rows[i].email = line.email
  THEN [i \in DOMAIN rows |->
          IF rows[i].email = line.email THEN [rows[i] EXCEPT !.bio = @ \/ line.bio] ELSE rows[i]]
  ELSE Append(rows, line)
FoldLines(lines) ==
  LET rows[n \in 0..Len(lines)] == IF n = 0 THEN <<>> ELSE Folded(rows[n - 1], lines[n])
  IN  rows[Len(lines)]

(* importProfilePatch: what of an account a row fills *)
(* Mutant: what a row says replaces what is there *)
PatchAll(account_, row) == {"name"} \cup (IF row.bio THEN {"bio"} ELSE {})
Patch(account_, row) ==
  (IF account_.name = None THEN {"name"} ELSE {})
  \cup (IF row.bio /\ account_.bio = None THEN {"bio"} ELSE {})

(* findDisplayNameCollision, by the names as they were listed *)
Collides(known, row) == \E c \in known : c.name = row.name

----------------------------------------------------------------------------
(* Steps of a request *)

At(r, label) == req[r].pc = label
Active(r) == req[r].pc \notin {"idle", "done"}
Set(r, q) == req' = [req EXCEPT ![r] = q]
Goto(r, label) == Set(r, [req[r] EXCEPT !.pc = label])
(* A row is done with, well or not; the ones before it stay.                *)
AfterRow(q) == [q EXCEPT !.rows = Tail(@), !.patch = {}, !.pc = "find"]
Ended(r, q) ==
  Set(r, IF Len(q.rows) = 1 THEN [Idle EXCEPT !.pc = "done", !.into = q.into, !.results = q.results]
         ELSE AfterRow(q))
Result(row, outcome, flagged) == [email |-> row.email, name |-> row.name, outcome |-> outcome, flagged |-> flagged]

(* addContact and importContacts, addSpeaker and importSpeakers *)
Begin(r, into, file) ==
  /\ At(r, "idle")
  /\ Set(r, [Idle EXCEPT !.pc = IF into = "directory" THEN "list" ELSE "find",
                         !.into = into, !.rows = FoldLines(file)])
  /\ crossed' = crossed \cup {{r, q} : q \in {p \in Requests : Active(p)}}
  /\ UNCHANGED <<account, contacts, members, owns, trod, renamed>>

(* listDirectory: the registry and everyone with an event *)
Listed == contacts \cup members
List(r) ==
  /\ At(r, "list")
  /\ Set(r, [req[r] EXCEPT !.pc = "find", !.known = {[email |-> e, name |-> account[e].name] : e \in Listed}])
  /\ UNCHANGED <<account, contacts, members, people>>

(* planContactCreation refuses who is listed; an account there is is reused *)
Find(r) ==
  LET q == req[r]
      row == Head(q.rows)
      there == account[row.email]
  IN  /\ At(r, "find")
      /\ IF \E c \in q.known : c.email = row.email
         THEN Ended(r, [q EXCEPT !.results = @ \cup {Result(row, "known", FALSE)}])
         ELSE Set(r, [q EXCEPT
                !.patch = IF there = None THEN {} ELSE Patch(there, row),
                !.pc = IF there = None THEN "create" ELSE IF Patch(there, row) = {} THEN "enter" ELSE "patch",
                !.results = @ \cup {Result(row, IF there = None THEN "created" ELSE "merged", Collides(q.known, row))}])
      /\ UNCHANGED <<account, contacts, members, people>>

(* What a row was going to be reported as it is not when it fails.          *)
Failed(q) == [q EXCEPT !.results = {x \in @ : x.email # Head(q.rows).email}]

(* users.create: an address has one account *)
Create(r) ==
  LET q == req[r]
      row == Head(q.rows)
  IN  /\ At(r, "create")
      /\ IF account[row.email] # None
         THEN Ended(r, Failed(q)) /\ UNCHANGED account
         ELSE /\ account' = [account EXCEPT ![row.email] =
                               [name |-> row.name, bio |-> IF row.bio THEN r ELSE None]]
              /\ Goto(r, "enter")
      /\ UNCHANGED <<contacts, members, people>>

(* users.update with the patch, by id *)
Fill(r) ==
  LET q == req[r]
      row == Head(q.rows)
  IN  /\ At(r, "patch")
      /\ account' = [account EXCEPT ![row.email] =
           [name |-> IF "name" \in q.patch THEN row.name ELSE @.name,
            bio |-> IF "bio" \in q.patch THEN r ELSE @.bio]]
      /\ Goto(r, "enter")
      /\ UNCHANGED <<contacts, members, people>>

(* addToRegistry or eventSpeakers.add; an import goes on with who it knows  *)
Learns(q, row) ==
  IF q.into = "directory" THEN q.known \cup {[email |-> row.email, name |-> account[row.email].name]} ELSE {}
Enter(r) ==
  LET q == req[r]
      row == Head(q.rows)
  IN  /\ At(r, "enter")
      /\ contacts' = contacts \cup (IF q.into = "directory" THEN {row.email} ELSE {})
      /\ members' = members \cup (IF q.into = "roster" THEN {row.email} ELSE {})
      /\ Ended(r, [q EXCEPT !.known = Learns(q, row)])
      /\ UNCHANGED <<account, people>>

(* A statement that fails costs the row, before the rows the whole request. *)
Fail(r) ==
  /\ Active(r)
  /\ IF At(r, "list") THEN Set(r, [Idle EXCEPT !.pc = "done", !.into = req[r].into]) ELSE Ended(r, Failed(req[r]))
  /\ UNCHANGED <<account, contacts, members, people>>

----------------------------------------------------------------------------
(* The people themselves, and organizers who mean to change them *)

SignUp(e) ==
  /\ account[e] = None /\ account' = [account EXCEPT ![e] = Blank]
  /\ UNCHANGED <<contacts, members, req, people>>

Renamed(e, name) == IF account[e].name \in {None, name} THEN renamed ELSE renamed \cup {e}

(* saveProfile: a name is required, a bio is not *)
Filling(e) == \E r \in Requests : At(r, "patch") /\ Head(req[r].rows).email = e /\ "bio" \in req[r].patch
SaveProfile(e, name, wrote) ==
  /\ account[e] # None
  /\ account' = [account EXCEPT ![e] = [name |-> name, bio |-> IF wrote THEN "own" ELSE None]]
  /\ owns' = IF wrote THEN owns \cup {e} ELSE owns \ {e}
  /\ trod' = IF wrote /\ Filling(e) THEN trod \cup {e} ELSE trod
  /\ renamed' = Renamed(e, name)
  /\ UNCHANGED <<contacts, members, req, crossed>>

(* updateSpeaker, of someone on the roster: the name, the bio or both *)
UpdateSpeaker(e, name, bio) ==
  /\ e \in members /\ (name \in Names \/ name = account[e].name)
  /\ account' = [account EXCEPT ![e] = [name |-> name, bio |-> bio]]
  /\ owns' = IF bio = account[e].bio THEN owns ELSE owns \ {e}
  /\ renamed' = Renamed(e, name)
  /\ UNCHANGED <<contacts, members, req, trod, crossed>>

AddContactToEvent(e) ==
  /\ e \in contacts \ members /\ members' = members \cup {e}
  /\ UNCHANGED <<account, contacts, req, people>>

Next ==
  \/ \E r \in Requests :
       \/ \E into \in {"directory", "roster"}, file \in Files : Begin(r, into, file)
       \/ List(r) \/ Find(r) \/ Create(r) \/ Fill(r) \/ Enter(r) \/ Fail(r)
  \/ \E e \in Emails :
       \/ SignUp(e) \/ AddContactToEvent(e)
       \/ \E name \in Names, wrote \in BOOLEAN : SaveProfile(e, name, wrote)
  \/ \E e \in members :
       \E name \in Names \cup {account[e].name}, bio \in {"edited", None, account[e].bio} :
         UpdateSpeaker(e, name, bio)

Spec == Init /\ [][Next]_directoryVars

----------------------------------------------------------------------------
(* Properties *)

(* What somebody wrote in their own profile no import replaces, unless they *)
(* wrote it after the import had found their bio empty (importProfilePatch, *)
(* createOrReuseContact, createSpeaker).                                    *)
OwnWordsStay == \A e \in owns \ trod : account[e].bio = "own"

(* Whoever a request reports as added, merged or known can be found where   *)
(* it says, whatever failed and whoever else was adding them.               *)
ReportedAreListed ==
  \A r \in Requests : At(r, "done") =>
    \A x \in req[r].results :
      x.email \in IF x.outcome = "known" THEN Listed
                  ELSE IF req[r].into = "directory" THEN contacts ELSE members

(* Two contacts made under one name: the organizer was told, unless the     *)
(* two were made at the same time, or one of them has changed their name    *)
(* since (planContactCreation, and the snapshot importContacts keeps).      *)
NamesakesFlagged ==
  \A r, s \in Requests : req[r].into = "directory" /\ req[s].into = "directory"
                         /\ At(r, "done") /\ At(s, "done") /\ {r, s} \notin crossed =>
    \A x \in req[r].results, y \in req[s].results :
      x.email # y.email /\ x.name = y.name /\ x.outcome = "created" /\ y.outcome = "created"
      => x.flagged \/ y.flagged \/ {x.email, y.email} \cap renamed # {}
=============================================================================
