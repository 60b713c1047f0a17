------------------------------ MODULE Uploads ------------------------------
(***************************************************************************)
(* One speaker's files: what they hand in for a task, every replacement of *)
(* which becomes a version, and their headshot, which they, an organizer   *)
(* and a proposal of theirs supply.  A request breaks off where it likes.  *)
(*                                                                         *)
(* Where a file is kept tells its scope: under the profile, under a form   *)
(* or a task, or elsewhere on the web.                                     *)
(***************************************************************************)
EXTENDS Naturals, Sequences

CONSTANTS
  Uploaders,  \* requests
  None

VARIABLES
  assignment, \* task_assignments: its file, and by whose delivery it is completed
  versions,   \* file_versions of the assignment, in the order they were inserted
  headshot,   \* users.headshot_url
  portraits,  \* file_versions of the profile
  form,       \* the headshot in the speaker's profile form
  req,
  stood,      \* history: files the assignment had
  torn        \* history: headshots whose version row was never written

uploadVars == <<assignment, versions, headshot, portraits, form, req, stood, torn>>
theTask == <<assignment, versions, stood>>
theProfile == <<headshot, portraits, torn>>

File(scope, name) == [scope |-> scope, name |-> name]
Older == {File("task", "old"), File("web", "old")}
OlderPortraits == {File("profile", "old"), File("form", "old"), File("web", "old")}
Uploads == {File(scope, r) : scope \in {"task", "profile", "form"}, r \in Uploaders}
Files == Older \cup OlderPortraits \cup Uploads

HasKey(f) == f # None /\ f.scope # "web"
In(files) == {files[i] : i \in 1..Len(files)}
Idle == [pc |-> "idle", file |-> None, seen |-> None]

TypeOK ==
  /\ assignment.file \in Files \cup {None}
  /\ assignment.since \in Uploaders \cup {"long ago", None}
  /\ In(versions) \cup In(portraits) \subseteq Files /\ headshot \in Files \cup {None}
  /\ form \in Files \cup {None} /\ stood \cup torn \subseteq Files
  /\ \A r \in Uploaders :
       req[r].pc \in {"idle", "list", "backfill", "insert", "deliver", "read", "write", "record", "done"}

(* A task without a file, with one from before file_versions, or with one   *)
(* and its row; a headshot of any origin.  Headshots from before they were  *)
(* tracked have no row.                                                     *)
Init ==
  /\ assignment \in {[file |-> None, since |-> None]}
                    \cup {[file |-> f, since |-> "long ago"] : f \in Older}
  /\ versions \in {<<>>, <<assignment.file>>}
  /\ versions # <<>> => HasKey(assignment.file)
  /\ headshot \in OlderPortraits \cup {None}
  /\ portraits \in {<<>>, <<headshot>>}
  /\ portraits # <<>> => headshot = File("profile", "old")
  /\ form = None /\ req = [r \in Uploaders |-> Idle]
  /\ stood = {assignment.file} \ {None}
  /\ torn = {headshot} \ (In(portraits) \cup {None})

----------------------------------------------------------------------------
At(r, label) == req[r].pc = label
Set(r, q) == req' = [req EXCEPT ![r] = q]
Goto(r, label) == Set(r, [req[r] EXCEPT !.pc = label])

(* completeFileTask: the bytes are uploaded, the assignment is read. *)
CompleteFileTask(r) ==
  /\ At(r, "idle")
  /\ Set(r, [pc |-> "list", file |-> File("task", r), seen |-> assignment])
  /\ UNCHANGED <<theTask, theProfile, form>>

(* Mutant: the first replacement does not write down what it replaces *)
AfterListOnly(q, history) == "insert"
AfterList(q, history) ==
  IF history = <<>> /\ q.seen.file # None THEN "backfill" ELSE "insert"
ListVersions(r) ==
  /\ At(r, "list") /\ Goto(r, AfterList(req[r], versions))
  /\ UNCHANGED <<theTask, theProfile, form>>

InsertVersion(r, label, f, next) ==
  /\ At(r, label) /\ Goto(r, next)
  /\ versions' = Append(versions, f)
  /\ UNCHANGED <<assignment, stood, theProfile, form>>
Backfill(r) == InsertVersion(r, "backfill", req[r].seen.file, "insert")
RecordFileVersion(r) == InsertVersion(r, "insert", req[r].file, "deliver")

Deliver(r) ==
  /\ At(r, "deliver") /\ Goto(r, "done")
  /\ assignment' = [file |-> req[r].file,
                    since |-> IF req[r].seen.since = None THEN r ELSE req[r].seen.since]
  /\ stood' = stood \cup {req[r].file}
  /\ UNCHANGED <<versions, theProfile, form>>

----------------------------------------------------------------------------
(* The profile form is opened, with the headshot's key if it has one. *)
OpenProfile ==
  /\ form' = IF HasKey(headshot) THEN headshot ELSE None
  /\ form' # form
  /\ UNCHANGED <<theTask, theProfile, req>>

NextHeadshot(f, current) ==
  IF f # None THEN f ELSE IF current # None /\ ~HasKey(current) THEN current ELSE None

(* The user is read; the form is sent with the headshot it was opened with, *)
(* with one just uploaded or with none.                                     *)
SaveProfile(r, f) ==
  /\ At(r, "idle")
  /\ f \in {form, File("profile", r), None}
  /\ LET next == NextHeadshot(f, headshot)
         refused == next # headshot /\ HasKey(next) /\ next.scope # "profile"
     IN  Set(r, IF refused THEN [Idle EXCEPT !.pc = "done"]
                ELSE [pc |-> "write", file |-> next, seen |-> headshot])
  /\ UNCHANGED <<theTask, theProfile, form>>
(* uploadSpeakerHeadshot *)
SupplyHeadshot(r) ==
  /\ At(r, "idle")
  /\ Set(r, [pc |-> "write", file |-> File("profile", r), seen |-> None])
  /\ UNCHANGED <<theTask, theProfile, form>>
(* A proposal with a headshot is sent; the speaker's account was read. *)
Propose(r) ==
  /\ At(r, "idle")
  /\ Set(r, IF headshot # None THEN [Idle EXCEPT !.pc = "done"]
            ELSE [pc |-> "write", file |-> File("form", r), seen |-> headshot])
  /\ UNCHANGED <<theTask, theProfile, form>>

Tracks(q) == q.file # q.seen /\ q.file # None /\ q.file.scope = "profile"
UpdateUser(r) ==
  /\ At(r, "write") /\ Goto(r, IF Tracks(req[r]) THEN "record" ELSE "done")
  /\ headshot' = req[r].file
  /\ UNCHANGED <<theTask, portraits, torn, form>>
RecordPortrait(r) ==
  /\ At(r, "record") /\ Goto(r, "done")
  /\ portraits' = Append(portraits, req[r].file)
  /\ UNCHANGED <<theTask, headshot, torn, form>>

(* The worker stops, or a statement fails. *)
BreakOff(r) ==
  /\ req[r].pc \notin {"idle", "done"} /\ Goto(r, "done")
  /\ torn' = IF At(r, "record") THEN torn \cup {req[r].file} ELSE torn
  /\ UNCHANGED <<theTask, headshot, portraits, form>>

TaskNext ==
  \E r \in Uploaders :
    \/ CompleteFileTask(r) \/ ListVersions(r) \/ Backfill(r) \/ RecordFileVersion(r)
    \/ Deliver(r) \/ BreakOff(r)
HeadshotNext ==
  \/ OpenProfile
  \/ \E r \in Uploaders :
       \/ \E f \in Files \cup {None} : SaveProfile(r, f)
       \/ SupplyHeadshot(r) \/ Propose(r) \/ UpdateUser(r) \/ RecordPortrait(r) \/ BreakOff(r)
Next == TaskNext \/ HeadshotNext

Spec == Init /\ [][Next]_uploadVars

----------------------------------------------------------------------------
(* Properties *)

(* buildFileHistory and collectDeliverables: the first of a history is what *)
(* the record points to, else any of its rows, for their seconds may agree. *)
History(pointer, files) ==
  IF files = <<>> THEN [first |-> {pointer} \ {None}, all |-> {pointer} \ {None}]
  ELSE [first |-> IF pointer \in In(files) THEN {pointer} ELSE In(files), all |-> In(files)]
Library(files, pointer) ==
  IF files = <<>> THEN [first |-> {}, all |-> {}] ELSE History(pointer, files)

(* However uploads overlap and break off, nothing a task ever had for its   *)
(* file is missing from the history, which opens with the file it has now   *)
(* (recordFileVersion, buildFileHistory).  The library has the headshot     *)
(* that renders, once its request is over, unless that broke off or the     *)
(* headshot came with a proposal, from the web or from before               *)
(* (saveProfile, uploadSpeakerHeadshot, versionsWithCurrentFirst).          *)
FilesKept ==
  LET history == History(assignment.file, versions)
      library == Library(portraits, headshot)
  IN  /\ stood \subseteq history.all
      /\ assignment.file # None => history.first = {assignment.file}
      /\ headshot # None /\ headshot.scope = "profile" /\ headshot \notin torn
         /\ (\A r \in Uploaders : req[r].pc # "record")
         => library.first = {headshot}
=============================================================================
