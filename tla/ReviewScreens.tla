---------------------------- MODULE ReviewScreens ----------------------------
(***************************************************************************)
(* What one reviewer is shown: the list of submissions, a submission's     *)
(* record, their queue of a round and a scorecard, each put together from  *)
(* several reads while organizers assign, route and edit.  Which rows a    *)
(* page has, which pages it links to and whether it names an author is     *)
(* decided on every page anew.                                             *)
(***************************************************************************)
EXTENDS Naturals, Sequences

CONSTANTS
  Proposals, Tracks, Rounds,
  OpenRounds,  \* the rounds whose window is open
  Pairs,       \* the rounds and proposals the reviewer may be assigned
  None,
  MaxChanges   \* bound: requests that change anything

ASSUME ScreenConstants ==
  /\ OpenRounds \subseteq Rounds /\ Pairs \subseteq Rounds \X Proposals
  /\ None \notin Rounds /\ None \notin Proposals /\ None \notin Tracks
  /\ MaxChanges \in Nat

VARIABLES
  status,   \* submissions: what stands for every other status is "submitted";
            \* "direct" is a submission to a session-type form
  tracksOf, \* submission_tracks
  routed,   \* track_reviewers of the reviewer
  blind,    \* review_rounds: those with blindReview
  held,     \* round_assignments of the reviewer
  asked,    \* an organizer's request to assign
  page,     \* the reviewer's page
  strayed,  \* history: assignments whose proposal or reviewer was moved to
            \* other tracks after the assignment was checked
  changes

screenVars == <<status, tracksOf, routed, blind, held, asked, page, strayed, changes>>
committee == <<status, tracksOf, routed, blind, held>>

Reads(kind) ==
  CASE kind = "list" -> <<"rows", "routing", "links", "rounds", "mine">>
    [] kind = "record" ->
         <<"detail", "links", "routing", "access", "rows", "routing", "links", "rounds", "mine">>
    [] kind = "queue" -> <<"round", "mine", "rows", "links", "routing">>
    [] kind = "scorecard" -> <<"round", "mine", "rows">>
    [] OTHER -> <<>>
NoPage ==
  [kind |-> "none", round |-> None, id |-> None, at |-> 1, rows |-> {}, routed |-> {},
   links |-> [p \in Proposals |-> {}], blind |-> {}, mine |-> {}, active |-> {},
   answer |-> "loading", listed |-> {}, mineListed |-> {}, authors |-> {},
   calm |-> TRUE, blinded |-> {}]
NoOrder ==
  [pc |-> "none", round |-> None, wanted |-> {}, track |-> None, routed |-> {}, todo |-> {}]

Page ==
  [kind : {"none", "list", "record", "queue", "scorecard"},
   round : Rounds \cup {None},
   id : Proposals \cup {None},  \* the submission of a record or a scorecard
   at : 1..9,                   \* the read it is at
   rows : SUBSET Proposals, routed : SUBSET Tracks, links : [Proposals -> SUBSET Tracks],
   blind : SUBSET Rounds, mine : SUBSET Pairs, active : SUBSET Pairs,
   answer : {"loading", "shown", "missing"},
   listed : SUBSET Proposals, mineListed : SUBSET Proposals,
   authors : SUBSET Proposals,  \* those whose author it names
   calm : BOOLEAN,              \* history: nothing has changed since it was opened
   blinded : SUBSET Pairs]      \* history: held in blind rounds all the while
Orders ==
  [pc : {"none", "routing", "rows", "links", "insert"}, round : Rounds \cup {None},
   wanted : SUBSET Proposals, track : Tracks \cup {None}, routed : SUBSET Tracks,
   todo : SUBSET Proposals]

TypeOK ==
  /\ status \in [Proposals -> {"draft", "submitted", "withdrawn", "direct"}]
  /\ tracksOf \in [Proposals -> SUBSET Tracks] /\ routed \subseteq Tracks
  /\ blind \subseteq Rounds
  /\ held \in [Pairs -> {"none", "active", "recused"}]
  /\ asked \in Orders /\ page \in Page
  /\ strayed \subseteq Pairs /\ changes \in 0..MaxChanges

Routed(mine, its) == mine \cap its # {}
Holds(x) == x \in Pairs /\ held[x] # "none"
Blinded == {x \in Pairs : Holds(x) /\ x[1] \in blind}

(* Everything that was assigned was in track then.  No code sets            *)
(* "withdrawn": such a submission was seeded, or is there from before.      *)
Init ==
  /\ status \in [Proposals -> {"draft", "submitted", "withdrawn", "direct"}]
  /\ tracksOf = [p \in Proposals |-> Tracks] /\ routed = Tracks
  /\ blind \in SUBSET Rounds
  /\ held \in [Pairs -> {"none", "active"}]
  /\ \A x \in Pairs : Holds(x) => /\ status[x[2]] \in {"submitted", "withdrawn"}
                                 /\ Routed(routed, tracksOf[x[2]])
  /\ asked = NoOrder /\ page = NoPage /\ strayed = {} /\ changes = 0

----------------------------------------------------------------------------
(* What changes under the reviewer's pages *)

(* The assignments it holds in blind rounds all the while.                  *)
Disturb == page' = [page EXCEPT !.calm = FALSE, !.blinded = @ \cap Blinded']
Change == changes < MaxChanges /\ changes' = changes + 1 /\ Disturb

SendDraft(p) ==
  /\ status[p] = "draft" /\ status' = [status EXCEPT ![p] = "submitted"]
  /\ UNCHANGED <<tracksOf, routed, blind, held, asked, strayed>> /\ Change

(* Pairs that a request has found fit to be assigned, or may find so by     *)
(* what it has read; and those, with what is assigned.                      *)
InCheck == {x \in Pairs : x[1] = asked.round /\ asked.pc # "routing"}
Checked == InCheck \cup {x \in Pairs : Holds(x)}
UpdateSubmissionTracks(p, tracks) ==
  /\ tracks # tracksOf[p] /\ tracksOf' = [tracksOf EXCEPT ![p] = tracks]
  /\ strayed' = strayed \cup {x \in Checked : x[2] = p}
  /\ UNCHANGED <<status, routed, blind, held, asked>> /\ Change
SetTracksForReviewer(tracks) ==
  /\ tracks # routed /\ routed' = tracks
  /\ strayed' = strayed \cup Checked
  /\ UNCHANGED <<status, tracksOf, blind, held, asked>> /\ Change
UpdateRound(q) ==
  /\ blind' = IF q \in blind THEN blind \ {q} ELSE blind \cup {q}
  /\ UNCHANGED <<status, tracksOf, routed, held, asked, strayed>> /\ Change
Unassign(x) ==
  /\ Holds(x) /\ held' = [held EXCEPT ![x] = "none"] /\ strayed' = strayed \ ({x} \ InCheck)
  /\ UNCHANGED <<status, tracksOf, routed, blind, asked>> /\ Change
Recuse(x) ==
  /\ Holds(x) /\ held' = [held EXCEPT ![x] = "recused"]
  /\ UNCHANGED <<status, tracksOf, routed, blind, asked, strayed>> /\ Change

----------------------------------------------------------------------------
(* assignSubmissions and assignTrack *)

Order(q, wanted, track) ==
  /\ asked = NoOrder
  /\ asked' = [NoOrder EXCEPT !.pc = "routing", !.round = q, !.wanted = wanted, !.track = track]
  /\ strayed' = strayed \ {x \in Pairs : x[1] = q /\ ~Holds(x)}
  /\ UNCHANGED committee /\ Change
AssignSubmissions(q, wanted) == wanted # {} /\ Order(q, wanted, None)
(* Without a track it is every submission of the event.                     *)
AssignTrack(q, track) == Order(q, {}, track)

Quiet == UNCHANGED <<committee, page, strayed, changes>>
ReadContext ==
  /\ asked.pc = "routing" /\ asked' = [asked EXCEPT !.pc = "rows", !.routed = routed]
  /\ Quiet
Assignable(wanted) ==
  IF wanted = {} THEN {p \in Proposals : status[p] = "submitted"}
  ELSE {p \in wanted : status[p] # "direct"}
ReadSubmissions ==
  /\ asked.pc = "rows"
  /\ asked' = IF Assignable(asked.wanted) = {} THEN NoOrder
              ELSE [asked EXCEPT !.pc = "links", !.todo = Assignable(asked.wanted)]
  /\ Quiet
(* Mutant: the picker is trusted *)
ReachableAsPicked(order) == {p \in order.todo : order.track \in tracksOf[p] \cup {None}}
Reachable(order) ==
  {p \in order.todo : /\ order.track \in tracksOf[p] \cup {None}
                      /\ Routed(order.routed, tracksOf[p])}
CheckTracks ==
  /\ asked.pc = "links"
  /\ LET fit == Reachable(asked) IN
     asked' = IF fit = {} \/ (asked.wanted # {} /\ fit # asked.todo) THEN NoOrder
              ELSE [asked EXCEPT !.pc = "insert", !.todo = fit]
  /\ Quiet
AssignNext ==
  /\ asked.pc = "insert"
  /\ \E p \in asked.todo :
       LET x == <<asked.round, p>> IN
       /\ held' = IF x \in Pairs /\ held[x] = "none" THEN [held EXCEPT ![x] = "active"] ELSE held
       /\ asked' = IF asked.todo = {p} THEN NoOrder ELSE [asked EXCEPT !.todo = @ \ {p}]
  /\ UNCHANGED <<status, tracksOf, routed, blind, strayed, changes>> /\ Disturb

----------------------------------------------------------------------------
(* The reviewer's pages: one, for pages share nothing but what they read.  *)

Open(kind, q, p) ==
  /\ page.kind = "none"
  /\ page' = [NoPage EXCEPT !.kind = kind, !.round = q, !.id = p, !.blinded = Blinded]
  /\ UNCHANGED <<committee, asked, strayed, changes>>

At(label) == page.answer = "loading" /\ page.kind # "none" /\ Reads(page.kind)[page.at] = label
Last == page.at = Len(Reads(page.kind))

ReviewWork == page.kind \in {"list", "record"}
ListedStatuses == {"submitted", "withdrawn"}
Candidates ==
  {p \in Proposals : status[p] \in IF ReviewWork THEN ListedStatuses ELSE {"submitted"}}

(* Mutant: blind is the submission the blind assignment is on *)
BlindRowsOnly(g, p) == \E x \in g.mine : x[1] \in g.blind /\ x[2] = p
Withheld(g, p) == \E x \in g.mine : x[1] \in g.blind
Visible(g) == {p \in g.rows : Routed(g.routed, g.links[p])}
Assigned(g) == {p \in Visible(g) : \E x \in g.active :
                  x[2] = p /\ x[1] \in OpenRounds}
Own(g) == {p \in Visible(g) : <<g.round, p>> \in g.mine}

(* What a page shows of what it has read. *)
Rendered(g) ==
  CASE g.kind = "list" ->
         [g EXCEPT !.answer = "shown", !.listed = Visible(g), !.mineListed = Assigned(g),
                   !.authors = {p \in Visible(g) : ~Withheld(g, p)}]
    [] g.kind = "record" ->
         [g EXCEPT !.answer = "shown", !.listed = Visible(g),
                   !.authors = {g.id} \ {p \in Proposals : Withheld(g, p)}]
    [] g.kind = "queue" ->
         [g EXCEPT !.answer = "shown", !.listed = Own(g),
                   !.authors = IF g.blind = {} THEN Own(g) ELSE {}]
    [] OTHER ->
         IF g.id \notin g.rows THEN [g EXCEPT !.answer = "missing"]
         ELSE [g EXCEPT !.answer = "shown", !.authors = IF g.blind = {} THEN {g.id} ELSE {}]

Read(label, g) ==
  /\ At(label)
  /\ page' = IF g.answer = "missing" THEN g ELSE IF Last THEN Rendered(g) ELSE [g EXCEPT !.at = @ + 1]
  /\ UNCHANGED <<committee, asked, strayed, changes>>
Missing(g, found) == IF found THEN g ELSE [g EXCEPT !.answer = "missing"]

ReadRows == Read("rows", [page EXCEPT !.rows = Candidates])
ReadRouting == Read("routing", [page EXCEPT !.routed = routed])
ReadLinks == Read("links", [page EXCEPT !.links = tracksOf])
ReadRounds == Read("rounds", [page EXCEPT !.blind = blind])
ReadRound == Read("round", [page EXCEPT !.blind = blind \cap {page.round}])
(* canScoreSubmission, where a scorecard is asked for. *)
ReadMine ==
  LET mine == {x \in Pairs : Holds(x)} IN
  Read("mine", Missing([page EXCEPT !.mine = mine,
                                    !.active = {x \in mine : held[x] = "active"}],
                       page.kind = "scorecard" => <<page.round, page.id>> \in mine))
ReadDetail ==
  Read("detail", Missing([page EXCEPT !.rows = {page.id}], status[page.id] \notin {"draft", "direct"}))
CheckAccess == Read("access", Missing(page, page.id \in Visible(page)))

Next ==
  \/ \E p \in Proposals :
       \/ SendDraft(p)
       \/ \E tracks \in SUBSET Tracks : UpdateSubmissionTracks(p, tracks)
  \/ \E tracks \in SUBSET Tracks : SetTracksForReviewer(tracks)
  \/ \E q \in Rounds :
       \/ UpdateRound(q)
       \/ \E track \in Tracks \cup {None} : AssignTrack(q, track)
       \/ \E wanted \in SUBSET Proposals : AssignSubmissions(q, wanted)
  \/ \E x \in Pairs : Unassign(x) \/ Recuse(x)
  \/ ReadContext \/ ReadSubmissions \/ CheckTracks \/ AssignNext
  \/ Open("list", None, None) \/ (\E p \in Proposals : Open("record", None, p))
  \/ (\E q \in Rounds : Open("queue", q, None))
  \/ (\E q \in Rounds, p \in Proposals : Open("scorecard", q, p))
  \/ ReadRows \/ ReadRouting \/ ReadLinks \/ ReadRounds \/ ReadRound \/ ReadMine
  \/ ReadDetail \/ CheckAccess

Spec == Init /\ [][Next]_screenVars

----------------------------------------------------------------------------
(* Properties *)

(* A reviewer who holds an assignment of a blind round while a page of      *)
(* theirs is put together is told no author by it, but for the queue and    *)
(* the scorecards of another, sighted round (viewerIsInBlindReview,         *)
(* viewerRoundScoping, hidesSpeakerIdentity).                               *)
BlindnessHolds ==
  page.answer = "shown" /\ page.blinded # {} =>
    \/ page.authors = {}
    \/ page.kind \in {"queue", "scorecard"} /\ page.round \notin {x[1] : x \in page.blinded}

(* Pages put together while nothing changed agree: the list has exactly the *)
(* records that open, and so has the pager; what is assigned in an open     *)
(* round is among it; whatever a round's queue lists opens as record and as *)
(* scorecard, and it lists all that is owed, unless proposal or reviewer was*)
(* moved to other tracks since it was assigned (loadVisibleSubmissions,     *)
(* queuePosition, activeAssignmentSubmissionIds, canAssignReviewer).        *)
RecordOpens(p) == status[p] \notin {"draft", "direct"} /\ Routed(routed, tracksOf[p])
ScorecardOpens(q, p) == Holds(<<q, p>>) /\ status[p] = "submitted"
Owed == {x \in Pairs \ strayed : held[x] = "active" /\ status[x[2]] = "submitted"}
ScreensAgree ==
  page.answer = "shown" /\ page.calm =>
    /\ page.kind \in {"list", "record"} => page.listed = {p \in Proposals : RecordOpens(p)}
    /\ page.kind = "record" => page.id \in page.listed
    /\ page.kind = "list" => {x[2] : x \in {y \in Owed : y[1] \in OpenRounds}} \subseteq page.mineListed
    /\ page.kind = "queue" =>
         /\ \A p \in page.listed : RecordOpens(p) /\ ScorecardOpens(page.round, p)
         /\ {x[2] : x \in {y \in Owed : y[1] = page.round}} \subseteq page.listed
=============================================================================
