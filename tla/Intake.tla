------------------------------- MODULE Intake -------------------------------
(***************************************************************************)
(* How proposals come in through one form: sent or saved as a draft on the *)
(* public page, finished through a draft's link, edited in the portal,     *)
(* entered by an organizer.  Every way ends in saveSubmission, whose checks*)
(* (the window, the cap per speaker, the duplicate guard, the status it may*)
(* set) are reads some statements before the write that relies on them.    *)
(*                                                                         *)
(* What an edit owes a session that exists already, and what an acceptance *)
(* does beyond the status, is module Decision's.                           *)
(***************************************************************************)
EXTENDS Naturals, FiniteSets

CONSTANTS
  Requests,     \* requests under way at once, reused once they have ended
  Rows,         \* submissions.id
  Emails, Contents,
  None,
  Forms,        \* what the form may be: its type and its cap
  MaxRequests,  \* bound: requests begun
  MaxMoves      \* bound: decisions, changes of the window, and requests that
                \* break off

ASSUME IntakeConstants ==
  /\ None \notin Emails \cup Rows \cup Contents
  /\ IsFiniteSet(Rows)
  /\ Forms \subseteq [type : {"abstract", "session"}, limit : Nat]
  /\ {MaxRequests, MaxMoves} \subseteq Nat

VARIABLES
  form,      \* forms: does it exist, does it take submissions, its type,
             \* maxSubmissionsPerSpeaker (0 is no cap)
  accounts,  \* users.email, which is unique
  row,       \* submissions
  link,      \* submission_speakers: the role each address has on each row
  tracked,   \* rows with tracks in submission_tracks
  req,       \* the requests' own state
  bare,      \* history: rows whose tracks a save last set to none
  hurt,      \* history: rows whose saving broke off
  excused,   \* history: addresses whose cap an overlap, an organizer or an
             \* edit in the portal may have passed by
  raced,     \* history: the form's type changed while something else ran
  begun, moves

intakeVars == <<form, accounts, row, link, tracked, bare, req, hurt, excused, raced,
                begun, moves>>

Types == {"abstract", "session"}
Decided == {"approved", "denied"}
Statuses == {"none", "draft", "submitted"} \cup Decided
Public == {"submit", "draft", "finish", "redraft"}
Kinds == Public \cup {"portal", "behalf", "retype", "delete"}
Form == [exists : BOOLEAN, open : BOOLEAN, type : Types, limit : Nat]
Row == [status : Statuses, content : Contents \cup {None},
        token : BOOLEAN,      \* resumeToken is set
        type : Types]         \* history: the form's type as its request read it

Request ==
  [pc : {"idle", "form", "token", "limit", "find", "account", "guard", "create",
         "existing", "update", "tracks", "route", "cofind", "coaccount",
         "links", "drop", "primary", "co", "arrive", "count", "write"},
   kind : Kinds,
   id : Rows \cup {None},
   email : Emails \cup {None},
   co : Emails \cup {None},      \* a co-speaker's address
   content : Contents \cup {None},
   signed : Emails \cup {None},  \* who is signed in
   type : Types,                 \* of the form as it read it
   finishes : BOOLEAN,           \* updateOwnSubmission: wasDraft
   sets : {"none", "draft", "submitted"},  \* the status its update writes
   doomed : SUBSET Emails,       \* links it is removing
   alone : BOOLEAN,              \* history: no other request has been under way
   fresh : BOOLEAN]              \* history: its row's status is as it read it

TypeOK ==
  /\ form \in Form /\ accounts \subseteq Emails
  /\ row \in [Rows -> Row]
  /\ link \in [Rows -> [Emails -> {"none", "primary", "co"}]]
  /\ tracked \cup bare \subseteq Rows /\ hurt \subseteq Rows /\ excused \subseteq Emails
  /\ req \in [Requests -> Request]
  /\ raced \in BOOLEAN /\ begun \in Nat /\ moves \in Nat

Unasked == [pc |-> "idle", kind |-> "submit", id |-> None, email |-> None, co |-> None,
            content |-> None, signed |-> None, type |-> "abstract", finishes |-> FALSE,
            sets |-> "none", doomed |-> {}, alone |-> TRUE, fresh |-> TRUE]
NoRow == [status |-> "none", content |-> None, token |-> FALSE, type |-> "abstract"]

(* Nothing has come in yet, or a draft somebody saved. *)
Init ==
  /\ \E f \in Forms :
       form = [exists |-> TRUE, open |-> TRUE, type |-> f.type, limit |-> f.limit]
  /\ \/ /\ accounts = {} /\ tracked = {} /\ bare = {}
        /\ row = [p \in Rows |-> NoRow]
        /\ link = [p \in Rows |-> [e \in Emails |-> "none"]]
     \/ \E d \in Rows, author \in Emails, c \in Contents :
        /\ accounts = {author} /\ tracked \in {{}, {d}} /\ bare = {d} \ tracked
        /\ row = [p \in Rows |->
             IF p = d THEN [status |-> "draft", content |-> c, token |-> TRUE,
                            type |-> form.type]
             ELSE NoRow]
        /\ link = [p \in Rows |-> [e \in Emails |->
             IF p = d /\ e = author THEN "primary" ELSE "none"]]
  /\ req = [r \in Requests |-> Unasked]
  /\ hurt = {} /\ excused = {} /\ raced = FALSE
  /\ begun = 0 /\ moves = 0

At(r, label) == req[r].pc = label
Busy == {r \in Requests : ~At(r, "idle")}
Set(r, q) == req' = [req EXCEPT ![r] = q]
Goto(r, label) == Set(r, [req[r] EXCEPT !.pc = label])
Quit(r) == Set(r, Unasked)
Exists(p) == row[p].status # "none"
Saved == {p \in Rows : Exists(p)}
stored == <<form, accounts, row, link, tracked, bare>>
history == <<hurt, excused, raced, begun, moves>>

(* Those whose row has another status now have an old reading of it. *)
Stale(qs, p) == [r \in Requests |->
  IF qs[r].id = p /\ row'[p].status # row[p].status
  THEN [qs[r] EXCEPT !.fresh = FALSE] ELSE qs[r]]

----------------------------------------------------------------------------
(* What is asked *)

Begin(r, q) ==
  /\ At(r, "idle") /\ begun < MaxRequests /\ begun' = begun + 1
  /\ req' = [k \in Requests |->
       IF k = r THEN [q EXCEPT !.alone = (Busy = {})]
       ELSE [req[k] EXCEPT !.alone = @ /\ At(k, "idle")]]
  /\ UNCHANGED <<stored, hurt, excused, raced, moves>>

Ask(kind, e, co, c) ==
  [Unasked EXCEPT !.pc = "form", !.kind = kind, !.email = e, !.co = co, !.content = c]

SubmitProposal(r, e, co, c, signed) ==
  /\ co # e /\ signed \in {None, e}
  /\ Begin(r, [Ask("submit", e, co, c) EXCEPT !.signed = signed])
SaveDraft(r, e, co, c) == co # e /\ Begin(r, Ask("draft", e, co, c))
(* With the link that was mailed when the draft was saved. *)
Resume(r, kind, p, e, co, c) ==
  /\ kind \in {"finish", "redraft"} /\ row[p].token /\ co # e
  /\ Begin(r, [Ask(kind, e, co, c) EXCEPT !.id = p])
UpdateOwnSubmission(r, p, e, co, c, signed) ==
  /\ signed # None /\ co # e
  /\ Begin(r, [Ask("portal", e, co, c) EXCEPT !.id = p, !.signed = signed])
CreateOnBehalf(r, e, co, c) == co # e /\ Begin(r, Ask("behalf", e, co, c))
SaveForm(r) == Begin(r, Ask("retype", None, None, None))
DeleteForm(r) == Begin(r, Ask("delete", None, None, None))

(* closeFormNow, setFormPublished, and the clock at opensAt and closesAt. *)
MoveWindow ==
  /\ moves < MaxMoves /\ moves' = moves + 1
  /\ form' = [form EXCEPT !.open = ~@]
  /\ UNCHANGED <<accounts, row, link, tracked, bare, req, hurt, excused, raced, begun>>

(* An organizer's decision, which drafts do not take. *)
Decide(p, verdict) ==
  /\ row[p].status \in {"submitted"} \cup Decided
  /\ moves < MaxMoves /\ moves' = moves + 1
  /\ row' = [row EXCEPT ![p].status = verdict]
  /\ req' = Stale(req, p)
  /\ UNCHANGED <<form, accounts, link, tracked, bare, hurt, excused, raced, begun>>

----------------------------------------------------------------------------
(* The checks before the save *)

(* openForm, the reads of updateOwnSubmission, and createSubmissionOnBehalf *)
Admits(q) ==
  /\ form.exists
  /\ q.kind \in Public \cup {"portal"} => form.open
  /\ q.kind = "portal" =>
       /\ Exists(q.id) /\ link[q.id][q.signed] # "none"
ReadForm(r) ==
  LET q == req[r] IN
  /\ At(r, "form")
  /\ IF q.kind \in {"retype", "delete"}
     THEN IF form.exists THEN Goto(r, "count") ELSE Quit(r)
     ELSE IF ~Admits(q) THEN Quit(r)
     ELSE Set(r, [q EXCEPT
            !.pc = CASE q.kind \in {"finish", "redraft"} -> "token"
                     [] q.kind \in {"submit", "draft"} -> "limit"
                     [] OTHER -> "find",
            !.type = form.type,
            !.finishes = q.kind = "portal" /\ row[q.id].status = "draft"])
  /\ UNCHANGED <<stored, history>>

DraftIdFromToken(r) ==
  /\ At(r, "token")
  /\ IF row[req[r].id].status = "draft" THEN Goto(r, "limit") ELSE Quit(r)
  /\ UNCHANGED <<stored, history>>

CountsTowardLimit(p) == Exists(p)

ByFormAndSpeaker(e) == {p \in Saved : link[p][e] = "primary"}
AtLimit(q) ==
  /\ form.limit # 0
  /\ Cardinality({p \in ByFormAndSpeaker(q.email) \ {q.id} : CountsTowardLimit(p)}) >= form.limit
LimitRefusal(r) ==
  /\ At(r, "limit")
  /\ IF AtLimit(req[r]) THEN Quit(r) ELSE Goto(r, "find")
  /\ UNCHANGED <<stored, history>>

----------------------------------------------------------------------------
(* saveSubmission *)

AfterPrimary(q) == IF q.id # None THEN "existing"
                   ELSE IF q.kind = "submit" /\ q.signed = q.email THEN "guard"
                   ELSE "create"
Find(r, at, e, missing, next) ==
  /\ At(r, at)
  /\ Goto(r, IF e \in accounts THEN next ELSE missing)
  /\ UNCHANGED <<stored, history>>

(* Whoever is second to insert one address fails on users.email. *)
Insert(r, at, e, next) ==
  /\ At(r, at)
  /\ IF e \in accounts
     THEN /\ Quit(r) /\ hurt' = hurt \cup ({req[r].id} \ {None})
          /\ UNCHANGED <<accounts>>
     ELSE /\ accounts' = accounts \cup {e} /\ Goto(r, next)
          /\ UNCHANGED hurt
  /\ UNCHANGED <<form, row, link, tracked, bare, excused, raced, begun, moves>>

FindPrimary(r) == Find(r, "find", req[r].email, "account", AfterPrimary(req[r]))
CreatePrimary(r) == Insert(r, "account", req[r].email, AfterPrimary(req[r]))
FindCoSpeaker(r) == Find(r, "cofind", req[r].co, "coaccount", "links")
CreateCoSpeaker(r) == Insert(r, "coaccount", req[r].co, "links")

IsIdentical(p, c) == row[p].status \notin {"none", "draft"} /\ row[p].content = c
Guard(r) ==
  /\ At(r, "guard")
  /\ IF \E p \in ByFormAndSpeaker(req[r].email) : IsIdentical(p, req[r].content)
     THEN Quit(r) ELSE Goto(r, "create")
  /\ UNCHANGED <<stored, history>>

(* The new row's form has to exist still; its id is a fresh one.            *)
Create(r, p) ==
  LET q == req[r] IN
  /\ At(r, "create") /\ ~Exists(p)
  /\ IF ~form.exists THEN Quit(r) /\ UNCHANGED row
     ELSE /\ row' = [row EXCEPT ![p] =
                [status |-> IF q.kind = "draft" THEN "draft" ELSE "submitted",
                 content |-> q.content, token |-> q.kind = "draft", type |-> q.type]]
          /\ Set(r, [q EXCEPT !.pc = "tracks", !.id = p])
  /\ UNCHANGED <<form, accounts, link, tracked, bare, history>>

(* The status input.status asks for: "none" leaves it alone. *)
Wants(q) == CASE q.kind = "redraft" -> "draft"
              [] q.kind = "finish" \/ q.finishes -> "submitted"
              [] OTHER -> "none"
(* Mutant: what is asked for is written, whatever is stored *)
SetsAlways(q) == Wants(q)
Sets(q) == IF row[q.id].status = "draft" THEN Wants(q) ELSE "none"
ReadExisting(r) ==
  /\ At(r, "existing")
  /\ Set(r, [req[r] EXCEPT !.pc = "update", !.sets = Sets(req[r]), !.fresh = TRUE])
  /\ UNCHANGED <<stored, history>>

Update(r) ==
  LET q == req[r] IN
  /\ At(r, "update")
  /\ row' = [row EXCEPT ![q.id] =
       [row[q.id] EXCEPT !.content = q.content,
                         !.status = IF q.sets = "none" THEN @ ELSE q.sets,
                         !.token = @ \/ q.sets # "none"]]
  /\ req' = Stale([req EXCEPT ![r].pc = "tracks"], q.id)
  /\ UNCHANGED <<form, accounts, link, tracked, bare, history>>

AfterTracks(q) == IF q.co = None THEN "links" ELSE "cofind"
(* setTracks deletes the rows, and inserts those picked that there are: the *)
(* form may have no such question, or the answer name no track of now.      *)
ClearTracks(r, picks) ==
  LET q == req[r] IN
  /\ At(r, "tracks") /\ tracked' = tracked \ {q.id}
  /\ bare' = IF picks THEN bare \ {q.id} ELSE bare \cup {q.id}
  /\ Goto(r, IF picks THEN "route" ELSE AfterTracks(q))
  /\ UNCHANGED <<form, accounts, row, link, history>>
(* Mutant: the portal's edit sets no tracks *)
InsertTracksOnPage(r) ==
  /\ At(r, "route") /\ Goto(r, AfterTracks(req[r]))
  /\ tracked' = IF req[r].kind = "portal" THEN tracked ELSE tracked \cup {req[r].id}
  /\ UNCHANGED <<form, accounts, row, link, bare, history>>
InsertTracks(r) ==
  /\ At(r, "route") /\ tracked' = tracked \cup {req[r].id} /\ Goto(r, AfterTracks(req[r]))
  /\ UNCHANGED <<form, accounts, row, link, bare, history>>

Keep(q) == {q.email, q.co}
ListLinks(r) ==
  LET q == req[r] IN
  /\ At(r, "links")
  /\ Set(r, [q EXCEPT !.pc = "drop",
                      !.doomed = {e \in Emails : link[q.id][e] # "none"} \ Keep(q)])
  /\ UNCHANGED <<stored, history>>

Linked(p, e, role) == link' = [link EXCEPT ![p][e] = role]
RemoveSpeaker(r, e) ==
  /\ At(r, "drop") /\ e \in req[r].doomed
  /\ Linked(req[r].id, e, "none")
  /\ Set(r, [req[r] EXCEPT !.doomed = @ \ {e}])
  /\ UNCHANGED <<form, accounts, row, tracked, bare, history>>

Excuses(q) == ~q.alone \/ q.kind \in {"behalf", "portal"}
AddPrimary(r) ==
  LET q == req[r] IN
  /\ At(r, "drop") /\ q.doomed = {}
  /\ Linked(q.id, q.email, "primary")
  /\ excused' = IF Excuses(q) THEN excused \cup {q.email} ELSE excused
  /\ Set(r, [q EXCEPT !.pc = IF q.co = None THEN "arrive" ELSE "co"])
  /\ UNCHANGED <<form, accounts, row, tracked, bare, hurt, raced, begun, moves>>
AddCoSpeaker(r) ==
  /\ At(r, "co") /\ Linked(req[r].id, req[r].co, "co") /\ Goto(r, "arrive")
  /\ UNCHANGED <<form, accounts, row, tracked, bare, history>>

(* A session-type form has no review step: what has just been finished is   *)
(* accepted, and a draft that cannot be is left as it is.                   *)
(* Mutant: the portal finishes a draft like an abstract *)
ArrivesOnPageOnly(q) == q.type = "session" /\ q.kind \in {"submit", "finish", "behalf"}
Arrives(q) == q.type = "session" /\ (q.kind \in {"submit", "finish", "behalf"} \/ q.finishes)
AcceptOnArrival(r) ==
  LET q == req[r] IN
  /\ At(r, "arrive")
  /\ IF Arrives(q) /\ row[q.id].status # "draft"
     THEN /\ row' = [row EXCEPT ![q.id].status = "approved"]
          /\ req' = Stale([req EXCEPT ![r] = Unasked], q.id)
     ELSE Quit(r) /\ UNCHANGED row
  /\ UNCHANGED <<form, accounts, link, tracked, bare, history>>

----------------------------------------------------------------------------
(* The form itself: its type changes, and it goes, only without proposals.  *)

CountByForm == Saved
Count(r) ==
  /\ At(r, "count")
  /\ IF CountByForm = {} THEN Goto(r, "write") ELSE Quit(r)
  /\ UNCHANGED <<stored, history>>

Other(type) == IF type = "abstract" THEN "session" ELSE "abstract"
(* An update of a form that has gone changes nothing, and the foreign key   *)
(* of a proposal keeps its form from going.                                 *)
WriteForm(r) ==
  LET q == req[r] IN
  /\ At(r, "write") /\ Quit(r)
  /\ IF q.kind = "retype" /\ form.exists
     THEN form' = [form EXCEPT !.type = Other(@)] /\ raced' = (raced \/ ~q.alone)
     ELSE /\ form' = [form EXCEPT !.exists = @ /\ (q.kind = "retype" \/ Saved # {})]
          /\ UNCHANGED raced
  /\ UNCHANGED <<accounts, row, link, tracked, bare, hurt, excused, begun, moves>>

----------------------------------------------------------------------------
(* A request breaks off: what it has written stays. *)
Fail(r) ==
  /\ r \in Busy /\ moves < MaxMoves /\ moves' = moves + 1
  /\ hurt' = hurt \cup ({req[r].id} \ {None})
  /\ Quit(r)
  /\ UNCHANGED <<stored, excused, raced, begun>>

(* Bound: one of the requests under way names a co-speaker. *)
CoSpeakers == {None} \cup {e \in Emails : \A r \in Requests : req[r].co = None}
Asked(r) ==
  \/ \E e \in Emails, co \in CoSpeakers, c \in Contents :
       \/ \E signed \in Emails \cup {None} : SubmitProposal(r, e, co, c, signed)
       \/ SaveDraft(r, e, co, c) \/ CreateOnBehalf(r, e, co, c)
       \/ \E p \in Rows, kind \in Kinds : Resume(r, kind, p, e, co, c)
       \/ \E p \in Rows, signed \in Emails : UpdateOwnSubmission(r, p, e, co, c, signed)
  \/ SaveForm(r) \/ DeleteForm(r)
Step(r) ==
  \/ ReadForm(r) \/ DraftIdFromToken(r) \/ LimitRefusal(r)
  \/ FindPrimary(r) \/ CreatePrimary(r) \/ Guard(r) \/ \E p \in Rows : Create(r, p)
  \/ ReadExisting(r) \/ Update(r) \/ \E picks \in BOOLEAN : ClearTracks(r, picks)
  \/ InsertTracks(r)
  \/ FindCoSpeaker(r) \/ CreateCoSpeaker(r)
  \/ ListLinks(r) \/ \E e \in Emails : RemoveSpeaker(r, e)
  \/ AddPrimary(r) \/ AddCoSpeaker(r) \/ AcceptOnArrival(r)
  \/ Count(r) \/ WriteForm(r)

Next ==
  \/ MoveWindow
  \/ \E p \in Rows, verdict \in Decided : Decide(p, verdict)
  \/ \E r \in Requests : Asked(r) \/ Step(r) \/ Fail(r)

Spec == Init /\ [][Next]_intakeVars

----------------------------------------------------------------------------
(* Properties *)

(* A speaker has at most the proposals the form's cap allows, drafts among  *)
(* them, unless requests overlapped or an organizer or an edit in the       *)
(* portal put the address there (limitRefusal in submitProposal, saveDraft).*)
LimitHolds ==
  form.limit # 0 =>
    \A e \in Emails \ excused : Cardinality(ByFormAndSpeaker(e)) <= form.limit

(* A signed-in speaker's repeat of a proposal that is with the organizers,  *)
(* decided or not, is not inserted again, unless requests overlapped        *)
(* (the duplicate guard in saveSubmission).                                 *)
RepeatsRefused ==
  [][\A r \in Requests :
       LET q == req[r] IN
       At(r, "create") /\ req'[r].pc = "tracks" /\ q.alone
         /\ q.kind = "submit" /\ q.signed = q.email =>
       \A p \in Rows :
         link[p][q.email] = "primary" /\ row[p].status \in {"submitted"} \cup Decided
           => row[p].content # q.content]_intakeVars

(* An edit takes a proposal back from the organizers only if it read it as  *)
(* a draft before it was sent or decided (saveSubmission).                  *)
SentStaysSent ==
  [][\A p \in Rows :
       row[p].status \in {"submitted"} \cup Decided
         /\ row'[p].status \in {"draft", "submitted"} \ {row[p].status} =>
       \E r \in Requests : At(r, "update") /\ req[r].id = p /\ ~req[r].fresh]_intakeVars

(* What was sent to a session-type form waits for no review: however        *)
(* requests overlap, once they have ended it is decided, unless a save      *)
(* broke off or the form's type changed while requests ran; and no other    *)
(* change of type leaves a proposal under the wrong one (acceptOnArrival    *)
(* after each of the ways to finish a proposal, saveForm).                  *)
NothingWaitsUnreviewed ==
  Busy = {} /\ ~raced =>
    /\ \A p \in Saved : row[p].type = form.type
    /\ form.type = "session" => \A p \in Saved \ hurt : row[p].status # "submitted"

(* However saves of one proposal overlap, it keeps a speaker, and it has    *)
(* tracks unless the last of them to set any set none or one broke off:     *)
(* each takes away before it adds its own (syncSpeakers, setTracks).        *)
StaysReachable ==
  \A p \in Saved \ hurt :
    \/ (p \in tracked \/ p \in bare) /\ \E e \in Emails : link[p][e] # "none"
    \/ \E r \in Busy : req[r].id = p

(* Nobody gets past the cap or waits where nobody looks, except through an  *)
(* overlap, an organizer or a save that broke off (limitRefusal,            *)
(* acceptOnArrival, saveForm).                                              *)
IntakeHolds == LimitHolds /\ NothingWaitsUnreviewed

(* A repeated proposal is refused and what was sent stays sent, but for     *)
(* overlaps (saveSubmission).                                               *)
RequestsHold == RepeatsRefused /\ SentStaysSent
============================================================================
