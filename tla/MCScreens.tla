------------------------------ MODULE MCScreens ------------------------------
(* What people are shown and asked, on small instances: one reviewer's      *)
(* pages; the tasks of two speakers; two people in the directory; or the    *)
(* public program of three sessions.                                        *)
EXTENDS ReviewScreens, FiniteSets

CONSTANTS
  q1, q2, o1, o2,
  Organizers, Original, Speakers, Types, MaxAnswers, \* of the tasks
  Addresses, Names, Files,                           \* of the directory
  Talks, Hosts, Spots, Wanted, MaxEdits              \* of the program

VARIABLES
  part,
  task, given, billed, answer, portal, order,
  account, contacts, members, request, owns, trod, renamed, crossed,
  stands, approved, place, linked, declined, published, plan, view, edits

tasks == <<task, given, billed, answer, portal, order>>
people == <<account, contacts, members, request, owns, trod, renamed, crossed>>
program == <<stands, approved, place, linked, declined, published, plan, view, edits>>

(* An open round and one that is over, a proposal of each to assign.        *)
OneOfEach == {<<q1, 1>>, <<q2, 2>>}

Asked == INSTANCE Tasks WITH Requests <- Organizers, held <- given, req <- order
(* Speakers, what tasks ask for and requests are as good as one another.    *)
AskedFirst ==
  Asked!Init /\ task[Original] = "upload" /\ (billed = {} \/ "s1" \in billed)
InTurn(their) == their'[o2].pc # "idle" => their[o1].pc # "idle"
(* Another request beside it changes the task or gives it to everybody; one *)
(* speaker does the work, of the other the organizer hears.                 *)
Beside ==
  /\ order'[o2].pc \notin {"idle", "done"} => order'[o2].kind \in {"update", "all"}
  /\ portal'["s2"] = None /\ answer'["s1"] = None
  /\ answer'["s2"] \in {None, IF "s2" \in billed THEN "declined" ELSE "confirmed"}

Line(email, name, bio) == [email |-> email, name |-> name, bio |-> bio]
SomeFiles ==
  {<<Line("e1", "n1", TRUE)>>,
   <<Line("e1", "n2", FALSE), Line("e1", "n1", TRUE)>>,
   <<Line("e2", "n1", TRUE), Line("e1", "n1", FALSE)>>}
Listing ==
  INSTANCE Directory WITH
    Requests <- Organizers, Emails <- Addresses, req <- request
Brought == [email : Addresses, name : Names, bio : BOOLEAN]
Account == [name : Names \cup {None}, bio : Organizers \cup {"own", "edited", None}]
(* An import without a line that can be read does nothing. *)
ASSUME PeopleOK ==
  /\ Files \subseteq Seq(Brought) /\ <<>> \notin Files
  /\ None \notin Names \cup {"own", "edited"} /\ None \notin Account
(* Only the first of them may have an account before. *)
ListingFirst == Listing!Init /\ account["e2"] = None
(* One of them has changes made to the profile, the other only signs up.    *)
OneChanges == request' = request => account'["e2"] \in {account["e2"], Listing!Blank}

(* Two sessions are printed side by side, or begin together.                *)
On(day, start, end, room) == [day |-> day, start |-> start, end |-> end, room |-> room]
SomePlaces == {On(1, 9, 10, 1), On(1, 9, 11, 2), On(1, 9, 10, 3), On(2, 9, 10, 1)}
Printed ==
  INSTANCE Program WITH
    Sessions <- Talks, Speakers <- Hosts, Places <- Spots, Wishes <- Wanted,
    status <- stands, page <- view
ASSUME ProgramOK ==
  /\ IsFiniteSet(Talks) /\ Talks \subseteq Nat /\ None \notin Spots
  /\ Spots \subseteq [day : Nat, start : Nat, end : Nat, room : Nat]
OneOrAll == {{1}, Talks}
(* Three public sessions that stay as they are, or one that changes beside  *)
(* one that is held back and one that was cancelled.                        *)
Settled ==
  /\ edits = MaxEdits /\ stands = [s \in Talks |-> "confirmed"] /\ approved = Talks
  /\ linked = (Talks \ {3}) \X Hosts /\ declined = {} /\ plan = Printed!NoPlan /\ view = Printed!NoPage
  /\ place \in [Talks -> Spots \cup {None}] /\ published \in BOOLEAN
Moving ==
  /\ Printed!Init /\ stands = [s \in Talks |-> IF s = 3 THEN "cancelled" ELSE "confirmed"]
  /\ approved = {1, 3} /\ linked = {1} \X Hosts
  /\ place = [s \in Talks |-> IF s = 1 THEN On(1, 9, 10, 1) ELSE None]
Third == <<stands[3], place[3], 3 \in approved, {x \in linked : x[1] = 3}>>

(* Less than everything is asked for only of what stays as it is. *)
Printing == view.pc # "done" /\ Printed!Next /\ (view'.wish = {1} => stands[3] = "confirmed")

(* The parts that do not run are nowhere. *)
NoScreens ==
  /\ status = [p \in Proposals |-> "submitted"] /\ tracksOf = [p \in Proposals |-> Tracks]
  /\ routed = Tracks /\ blind = {} /\ held = [x \in Pairs |-> "none"]
  /\ asked = NoOrder /\ page = NoPage /\ strayed = {} /\ changes = 0
NoTasks == task = 0 /\ given = 0 /\ billed = 0 /\ answer = 0 /\ portal = 0 /\ order = 0
NoPeople ==
  /\ account = 0 /\ contacts = 0 /\ members = 0 /\ request = 0 /\ owns = 0
  /\ trod = 0 /\ renamed = 0 /\ crossed = 0
NoProgram ==
  /\ stands = 0 /\ approved = 0 /\ place = 0 /\ linked = 0 /\ declined = 0
  /\ published = 0 /\ plan = 0 /\ view = 0 /\ edits = 0

Begins ==
  \/ part = "review" /\ Init /\ status[1] = "submitted" /\ blind \in {{q1}, {q2}} /\ NoTasks /\ NoPeople /\ NoProgram
  \/ part = "tasks" /\ NoScreens /\ AskedFirst /\ NoPeople /\ NoProgram
  \/ part = "people" /\ NoScreens /\ NoTasks /\ ListingFirst /\ NoProgram
  \/ part = "program" /\ NoScreens /\ NoTasks /\ NoPeople /\ (Settled \/ Moving)
(* Nothing that happens after a page is made changes it. *)
Steps ==
  /\ \/ part = "review" /\ page.answer = "loading" /\ Next /\ UNCHANGED <<tasks, people, program>>
     \/ part = "tasks" /\ Asked!Next /\ InTurn(order) /\ Beside /\ UNCHANGED <<screenVars, people, program>>
     \/ part = "people" /\ Listing!Next /\ InTurn(request) /\ OneChanges /\ UNCHANGED <<screenVars, tasks, program>>
     \/ part = "program" /\ Printing /\ UNCHANGED <<Third, screenVars, tasks, people>>
  /\ UNCHANGED part
Screens == Begins /\ [][Steps]_<<part, screenVars, tasks, people, program>>

(* Tasks: everybody an organizer means gets the task and hears of it once,  *)
(* and what they do for it is what it asks for (applyAssigneeSelection,     *)
(* updateTask, notifyNewAssignments).                                       *)
TasksHold ==
  part = "tasks" => Asked!AssignedAreTold /\ Asked!MeantAreGiven /\ Asked!WorkFitsTask

(* Directory: what organizers bring overwrites nobody's own words, is where *)
(* it is said to be, and two people of one name are pointed out unless one  *)
(* has changed it (createOrReuseContact, importContacts,                    *)
(* importProfilePatch).                                                     *)
DirectoryHolds ==
  part = "people" => Listing!OwnWordsStay /\ Listing!ReportedAreListed /\ Listing!NamesakesFlagged

(* Program: pages show the program that is public, all of it and nothing    *)
(* else, and what publishing announced (getSessionsWithSpeakers,            *)
(* buildSchedule, buildGallery, planProgramPublish).                        *)
ProgramHolds == part = "program" => Printed!PagesTellTheProgram /\ Printed!PlanIsKept
=============================================================================
