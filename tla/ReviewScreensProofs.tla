------------------------- MODULE ReviewScreensProofs -------------------------
(***************************************************************************)
(* Theorems about what people are shown and asked.  Of module              *)
(* ReviewScreens, for any proposals, tracks, rounds and any number of      *)
(* changes: what a page tells a reviewer in blind review, and what pages   *)
(* put together while nothing changed have in common.  Of module Tasks,    *)
(* for any speakers, requests and kinds of task: who is given a task, who  *)
(* is told, and what their work is of.  Of module Directory, for any       *)
(* people and whatever is imported: whose words stay, who can be found,    *)
(* and which namesakes are pointed out.  Of module Program, for any        *)
(* sessions, speakers and places and any number of edits: what pages show, *)
(* in which order, and that they show what publishing announced.           *)
(***************************************************************************)
EXTENDS MCScreens, FiniteSetTheorems, SequenceTheorems, WellFoundedInduction, TLAPS

(* Where a page is that is being put together. *)
Placed(g) ==
  /\ g.answer = "loading" /\ g.kind = "list" => g.at <= 5
  /\ g.answer = "loading" /\ g.kind = "queue" => g.at <= 5
  /\ g.answer = "loading" /\ g.kind = "scorecard" => g.at <= 3
  /\ g.kind = "record" => g.id \in Proposals

(* Blindness: the rounds in which the reviewer was blind all the while are  *)
(* among those the page has read to be blind.                               *)
HasRounds(g) ==
  \/ g.kind = "list" /\ g.at > 4
  \/ g.kind = "record" /\ g.at > 8
  \/ g.kind \in {"queue", "scorecard"} /\ g.at > 1
OfPage(g) == {x \in g.blinded : g.kind \in {"queue", "scorecard"} => x[1] = g.round}
SeesBlind(g) ==
  /\ g.blinded \subseteq Blinded
  /\ g.answer = "loading" /\ HasRounds(g) => \A x \in OfPage(g) : x[1] \in g.blind
Tells(g) ==
  g.answer = "shown" /\ g.blinded # {} =>
    g.authors = {} \/ (g.kind \in {"queue", "scorecard"} /\ OfPage(g) = {})

(* A page during which nothing has changed: what it has read is so.         *)
Listed == {p \in Proposals : status[p] \in ListedStatuses}
ReadSo(g) ==
  /\ (g.kind = "list" /\ g.at > 1) \/ (g.kind = "record" /\ g.at > 5) => g.rows = Listed
  /\ g.kind = "record" /\ g.at \in 2..5 => g.rows = {g.id}
  /\ g.kind = "queue" /\ g.at > 3 => g.rows = {p \in Proposals : status[p] = "submitted"}
  /\ (g.kind = "list" /\ g.at > 2) \/ (g.kind = "record" /\ g.at > 3) => g.routed = routed
  /\ (g.kind = "list" /\ g.at > 3) \/ (g.kind = "record" /\ g.at > 2)
       \/ (g.kind = "queue" /\ g.at > 4) => g.links = tracksOf
  /\ g.kind = "queue" /\ g.at > 2 => g.mine = {x \in Pairs : Holds(x)}
  /\ g.kind = "record" /\ g.at > 1 => status[g.id] \notin {"draft", "direct"}
  /\ g.kind = "record" /\ g.at > 4 => RecordOpens(g.id)
Agrees(g) ==
  /\ g.kind \in {"list", "record"} => g.listed = {p \in Proposals : RecordOpens(p)}
  /\ g.kind = "record" => g.id \in g.listed
  /\ g.kind = "list" => {x[2] : x \in {y \in Owed : y[1] \in OpenRounds}} \subseteq g.mineListed
  /\ g.kind = "queue" =>
       /\ \A p \in g.listed : RecordOpens(p) /\ ScorecardOpens(g.round, p)
       /\ {x[2] : x \in {y \in Owed : y[1] = g.round}} \subseteq g.listed
SeesNow(g) ==
  g.calm =>
    /\ g.answer = "loading" => ReadSo(g)
    /\ g.answer = "shown" => Agrees(g)

Sees(g) == Placed(g) /\ SeesBlind(g) /\ Tells(g) /\ SeesNow(g)

(* Assignments: whatever was not moved since is in one of the reviewer's    *)
(* tracks, and so is what a request has found fit, or its reading of the    *)
(* tracks is still so.                                                      *)
InTrack(p) == Routed(routed, tracksOf[p])
Fitting ==
  /\ \A x \in Pairs \ strayed : Holds(x) => InTrack(x[2])
  /\ asked.pc \in {"rows", "links"} => asked.routed = routed \/ InCheck \subseteq strayed
  /\ asked.pc = "insert" =>
       \A p \in asked.todo : <<asked.round, p>> \in Pairs \ strayed => InTrack(p)

IInv == TypeOK /\ Sees(page) /\ Fitting
----------------------------------------------------------------------------
(* Where a page is, and what it makes of a read *)

LEMMA PageFields ==
  ASSUME NEW g \in Page
  PROVE  /\ g.kind \in {"none", "list", "record", "queue", "scorecard"}
         /\ g.round \in Rounds \cup {None} /\ g.id \in Proposals \cup {None} /\ g.at \in 1..9
         /\ g.rows \subseteq Proposals /\ g.routed \subseteq Tracks
         /\ g.links \in [Proposals -> SUBSET Tracks] /\ g.blind \subseteq Rounds
         /\ g.mine \subseteq Pairs /\ g.active \subseteq Pairs
         /\ g.answer \in {"loading", "shown", "missing"} /\ g.listed \subseteq Proposals
         /\ g.mineListed \subseteq Proposals /\ g.authors \subseteq Proposals
         /\ g.calm \in BOOLEAN /\ g.blinded \subseteq Pairs
  BY DEF Page

LEMMA OfList ==
  ASSUME IInv, page.kind = "list", NEW label, At(label)
  PROVE  /\ (page.at = 1 /\ label = "rows") \/ (page.at = 2 /\ label = "routing")
            \/ (page.at = 3 /\ label = "links") \/ (page.at = 4 /\ label = "rounds")
            \/ (page.at = 5 /\ label = "mine")
         /\ Last <=> page.at = 5
<1>1. page.at \in 1..5
  BY PageFields DEF IInv, TypeOK, Sees, Placed, At
<1>2. Last <=> page.at = 5
  BY DEF Last, Reads
<1>3. page.at = 1 => label = "rows"
  BY DEF At, Reads
<1>4. page.at = 2 => label = "routing"
  BY DEF At, Reads
<1>5. page.at = 3 => label = "links"
  BY DEF At, Reads
<1>6. page.at = 4 => label = "rounds"
  BY DEF At, Reads
<1>7. page.at = 5 => label = "mine"
  BY DEF At, Reads
<1>8. page.at = 1 \/ page.at = 2 \/ page.at = 3 \/ page.at = 4 \/ page.at = 5
  BY <1>1
<1> QED BY <1>2, <1>3, <1>4, <1>5, <1>6, <1>7, <1>8

LEMMA OfQueue ==
  ASSUME IInv, page.kind = "queue", NEW label, At(label)
  PROVE  /\ (page.at = 1 /\ label = "round") \/ (page.at = 2 /\ label = "mine")
            \/ (page.at = 3 /\ label = "rows") \/ (page.at = 4 /\ label = "links")
            \/ (page.at = 5 /\ label = "routing")
         /\ Last <=> page.at = 5
<1>1. page.at \in 1..5
  BY PageFields DEF IInv, TypeOK, Sees, Placed, At
<1>2. Last <=> page.at = 5
  BY DEF Last, Reads
<1>3. page.at = 1 => label = "round"
  BY DEF At, Reads
<1>4. page.at = 2 => label = "mine"
  BY DEF At, Reads
<1>5. page.at = 3 => label = "rows"
  BY DEF At, Reads
<1>6. page.at = 4 => label = "links"
  BY DEF At, Reads
<1>7. page.at = 5 => label = "routing"
  BY DEF At, Reads
<1>8. page.at = 1 \/ page.at = 2 \/ page.at = 3 \/ page.at = 4 \/ page.at = 5
  BY <1>1
<1> QED BY <1>2, <1>3, <1>4, <1>5, <1>6, <1>7, <1>8

LEMMA OfScorecard ==
  ASSUME IInv, page.kind = "scorecard", NEW label, At(label)
  PROVE  /\ (page.at = 1 /\ label = "round") \/ (page.at = 2 /\ label = "mine")
            \/ (page.at = 3 /\ label = "rows")
         /\ Last <=> page.at = 3
<1>1. page.at \in 1..3
  BY PageFields DEF IInv, TypeOK, Sees, Placed, At
<1>2. Last <=> page.at = 3
  BY DEF Last, Reads
<1>3. page.at = 1 => label = "round"
  BY DEF At, Reads
<1>4. page.at = 2 => label = "mine"
  BY DEF At, Reads
<1>5. page.at = 3 => label = "rows"
  BY DEF At, Reads
<1>6. page.at = 1 \/ page.at = 2 \/ page.at = 3
  BY <1>1
<1> QED BY <1>2, <1>3, <1>4, <1>5, <1>6

LEMMA OfRecord ==
  ASSUME IInv, page.kind = "record", NEW label, At(label)
  PROVE  /\ (page.at = 1 /\ label = "detail") \/ (page.at = 2 /\ label = "links")
            \/ (page.at = 3 /\ label = "routing") \/ (page.at = 4 /\ label = "access")
            \/ (page.at = 5 /\ label = "rows") \/ (page.at = 6 /\ label = "routing")
            \/ (page.at = 7 /\ label = "links") \/ (page.at = 8 /\ label = "rounds")
            \/ (page.at = 9 /\ label = "mine")
         /\ Last <=> page.at = 9
<1>1. page.at \in 1..9
  BY PageFields DEF IInv, TypeOK
<1>2. Last <=> page.at = 9
  BY DEF Last, Reads
<1>3. page.at = 1 => label = "detail"
  BY DEF At, Reads
<1>4. page.at = 2 => label = "links"
  BY DEF At, Reads
<1>5. page.at = 3 => label = "routing"
  BY DEF At, Reads
<1>6. page.at = 4 => label = "access"
  BY DEF At, Reads
<1>7. page.at = 5 => label = "rows"
  BY DEF At, Reads
<1>8. page.at = 6 => label = "routing"
  BY DEF At, Reads
<1>9. page.at = 7 => label = "links"
  BY DEF At, Reads
<1>10. page.at = 8 => label = "rounds"
  BY DEF At, Reads
<1>11. page.at = 9 => label = "mine"
  BY DEF At, Reads
<1>12. page.at = 1 \/ page.at = 2 \/ page.at = 3 \/ page.at = 4 \/ page.at = 5 \/ page.at = 6 \/ page.at = 7 \/ page.at = 8 \/ page.at = 9
  BY <1>1
<1> QED BY <1>2, <1>3, <1>4, <1>5, <1>6, <1>7, <1>8, <1>9, <1>10, <1>11, <1>12

(* What a read leaves as it is. *)
Onward(q, g) ==
  /\ q \in Page /\ q.at = g.at + 1 /\ q.kind = g.kind /\ q.round = g.round /\ q.id = g.id
  /\ q.rows = g.rows /\ q.routed = g.routed /\ q.links = g.links /\ q.blind = g.blind
  /\ q.mine = g.mine /\ q.active = g.active /\ q.answer = g.answer /\ q.calm = g.calm
  /\ q.blinded = g.blinded

LEMMA ReadOn ==
  ASSUME NEW label, NEW g \in Page, Read(label, g), g.answer = "loading", ~Last, g.at < 9
  PROVE  Onward(page', g)
<1>1. PICK n \in 1..9 : n = g.at + 1
  BY PageFields
<1>2. page' = [g EXCEPT !.at = n]
  BY <1>1 DEF Read
<1> QED BY <1>1, <1>2 DEF Onward, Page

(* Nothing has changed that a page shows. *)
LEMMA StillKeeps ==
  ASSUME IInv, NEW q \in Page, page' = q, Sees(q), UNCHANGED <<committee, strayed, changes>>,
         asked' \in Orders, Fitting'
  PROVE  IInv'
<1>1. /\ status' = status /\ tracksOf' = tracksOf /\ routed' = routed /\ blind' = blind
      /\ held' = held /\ strayed' = strayed /\ changes' = changes
  BY DEF committee
<1>2. TypeOK'
  BY <1>1 DEF IInv, TypeOK
<1>3. Placed(page)' /\ Tells(page)'
  BY DEF Sees, Placed, Tells, OfPage
<1>4. SeesBlind(page)'
  BY <1>1 DEF Sees, SeesBlind, Blinded, Holds, HasRounds, OfPage
<1>5. SeesNow(page)'
  <2>1. Listed' = Listed /\ Owed' = Owed
    BY <1>1 DEF Listed, Owed
  <2>2. \A p, x : /\ RecordOpens(p)' <=> RecordOpens(p)
                  /\ ScorecardOpens(x, p)' <=> ScorecardOpens(x, p)
                  /\ Holds(x)' <=> Holds(x)
    BY <1>1 DEF RecordOpens, ScorecardOpens, Holds
  <2>3. q.calm /\ q.answer = "loading" => ReadSo(page)'
    BY <1>1, <2>1, <2>2 DEF Sees, SeesNow, ReadSo
  <2>4. q.calm /\ q.answer = "shown" => Agrees(page)'
    BY <1>1, <2>1, <2>2 DEF Sees, SeesNow, Agrees
  <2> QED BY <2>3, <2>4 DEF SeesNow
<1> QED BY <1>2, <1>3, <1>4, <1>5 DEF IInv, Sees

(* The page is all that a read changes. *)
LEMMA PageKeeps ==
  ASSUME IInv, NEW q \in Page, page' = q, Sees(q), UNCHANGED <<committee, asked, strayed, changes>>
  PROVE  IInv'
<1>1. /\ tracksOf' = tracksOf /\ routed' = routed /\ held' = held
      /\ asked' = asked /\ strayed' = strayed
  BY DEF committee
<1>2. Fitting' /\ asked' \in Orders
  BY <1>1 DEF IInv, TypeOK, Fitting, Holds, InTrack, InCheck
<1> QED BY <1>2, StillKeeps

(* A read that tells nothing of blind rounds. *)
LEMMA BlindSame ==
  ASSUME IInv, page.answer = "loading", NEW q, q.kind = page.kind, q.round = page.round,
         q.blind = page.blind, q.blinded = page.blinded, q.answer = "loading",
         HasRounds(q) => HasRounds(page)
  PROVE  SeesBlind(q) /\ Tells(q)
<1>1. SeesBlind(page)
  BY DEF IInv, Sees
<1> QED BY <1>1 DEF SeesBlind, Tells, OfPage

----------------------------------------------------------------------------
(* One lemma per read *)

LEMMA ReadRowsKeeps ==
  ASSUME IInv, ReadRows
  PROVE  IInv'
<1>1. PICK g : g = [page EXCEPT !.rows = Candidates]
  OBVIOUS
<1>2. /\ page \in Page /\ page.answer = "loading" /\ page.kind # "none" /\ Sees(page)
      /\ At("rows") /\ Read("rows", g) /\ UNCHANGED <<committee, asked, strayed, changes>>
  BY <1>1 DEF IInv, TypeOK, ReadRows, Read, At
<1>3. Candidates \subseteq Proposals
  BY DEF Candidates
<1>4. /\ g \in Page /\ g.at = page.at /\ g.kind = page.kind /\ g.round = page.round /\ g.id = page.id
      /\ g.rows = Candidates /\ g.routed = page.routed /\ g.links = page.links /\ g.blind = page.blind
      /\ g.mine = page.mine /\ g.active = page.active /\ g.answer = "loading" /\ g.calm = page.calm
      /\ g.blinded = page.blinded
  BY <1>1, <1>2, <1>3 DEF Page
<1>5. ASSUME page.kind \in {"list", "record", "queue"}
      PROVE  IInv'
  <2>1. /\ ~Last /\ page.at < 9
        /\ \/ page.kind = "list" /\ page.at = 1
           \/ page.kind = "record" /\ page.at = 5
           \/ page.kind = "queue" /\ page.at = 3
    BY <1>2, <1>5, OfList, OfRecord, OfQueue
  <2>2. PICK q : q = page'
    OBVIOUS
  <2>3. Onward(q, g)
    BY <1>2, <1>4, <2>1, <2>2, ReadOn
  <2>4. /\ q \in Page /\ q.at = page.at + 1 /\ q.kind = page.kind /\ q.id = page.id
        /\ q.rows = Candidates /\ q.routed = page.routed /\ q.links = page.links
        /\ q.mine = page.mine /\ q.answer = "loading" /\ q.calm = page.calm
        /\ q.round = page.round /\ q.blind = page.blind /\ q.blinded = page.blinded
    BY <1>4, <2>3 DEF Onward
  <2>5. Placed(q)
    BY <1>2, <2>1, <2>4 DEF Sees, Placed
  <2>6. SeesBlind(q) /\ Tells(q)
    <3>1. HasRounds(q) => HasRounds(page)
      BY <2>1, <2>4 DEF HasRounds
    <3> QED BY <1>2, <2>4, <3>1, BlindSame
  <2>7. SeesNow(q)
    <3> SUFFICES ASSUME q.calm
                 PROVE  ReadSo(q)
      BY <2>4 DEF SeesNow
    <3>1. ReadSo(page)
      BY <1>2, <2>4 DEF Sees, SeesNow
    <3>2. /\ page.kind \in {"list", "record"} => Candidates = Listed
          /\ page.kind = "queue" => Candidates = {p \in Proposals : status[p] = "submitted"}
      BY DEF Candidates, ReviewWork, Listed
    <3> QED BY <1>5, <2>1, <2>4, <3>1, <3>2 DEF ReadSo
  <2> QED BY <1>2, <2>2, <2>4, <2>5, <2>6, <2>7, PageKeeps DEF Sees
<1>6. ASSUME page.kind = "scorecard"
      PROVE  IInv'
  <2>1. Last /\ page.at = 3
    BY <1>2, <1>6, OfScorecard
  <2>2. page' = IF g.id \notin g.rows THEN [g EXCEPT !.answer = "missing"]
                ELSE [g EXCEPT !.answer = "shown", !.authors = IF g.blind = {} THEN {g.id} ELSE {}]
    BY <1>2, <1>4, <1>6, <2>1 DEF Read, Rendered
  <2>3. PICK q : q = page'
    OBVIOUS
  <2>4. SeesBlind(page)
    BY <1>2 DEF Sees
  <2>5. CASE g.id \notin g.rows
    <3>1. q = [g EXCEPT !.answer = "missing"]
      BY <2>2, <2>3, <2>5
    <3>2. q \in Page /\ q.answer = "missing" /\ q.kind = "scorecard" /\ q.blinded = page.blinded
      BY <1>4, <1>6, <3>1 DEF Page
    <3>3. Sees(q)
      BY <2>4, <3>2 DEF Sees, Placed, SeesBlind, Tells, SeesNow
    <3> QED BY <1>2, <2>3, <3>2, <3>3, PageKeeps
  <2>6. CASE g.id \in g.rows
    <3>1. PICK a \in SUBSET Proposals : a = IF g.blind = {} THEN {g.id} ELSE {}
      BY <1>3, <1>4, <2>6
    <3>2. q = [g EXCEPT !.answer = "shown", !.authors = a]
      BY <2>2, <2>3, <2>6, <3>1
    <3>3. /\ q \in Page /\ q.answer = "shown" /\ q.kind = "scorecard" /\ q.blinded = page.blinded
          /\ q.authors = a /\ q.round = page.round
      BY <1>4, <1>6, <3>1, <3>2, ZenonT(60) DEF Page
    <3>4. SeesBlind(q) /\ Placed(q)
      BY <2>4, <3>3 DEF SeesBlind, Placed
    <3>5. Tells(q)
      <4>1. \A x \in OfPage(page) : x[1] \in page.blind
        BY <1>2, <1>6, <2>1, <2>4 DEF SeesBlind, HasRounds
      <4>2. OfPage(q) = OfPage(page)
        BY <1>6, <3>3 DEF OfPage
      <4> QED BY <1>4, <3>1, <3>3, <4>1, <4>2 DEF Tells
    <3>6. SeesNow(q)
      BY <3>3 DEF SeesNow, Agrees
    <3> QED BY <1>2, <2>3, <3>3, <3>4, <3>5, <3>6, PageKeeps DEF Sees
  <2> QED BY <2>5, <2>6
<1> QED BY <1>2, <1>5, <1>6, PageFields

LEMMA ReadLinksKeeps ==
  ASSUME IInv, ReadLinks
  PROVE  IInv'
<1>1. PICK g : g = [page EXCEPT !.links = tracksOf]
  OBVIOUS
<1>2. /\ page \in Page /\ page.answer = "loading" /\ page.kind # "none" /\ Sees(page)
      /\ At("links") /\ Read("links", g) /\ UNCHANGED <<committee, asked, strayed, changes>>
  BY <1>1 DEF IInv, TypeOK, ReadLinks, Read, At
<1>3. tracksOf \in [Proposals -> SUBSET Tracks]
  BY DEF IInv, TypeOK
<1>4. /\ g \in Page /\ g.at = page.at /\ g.kind = page.kind /\ g.round = page.round /\ g.id = page.id
      /\ g.rows = page.rows /\ g.routed = page.routed /\ g.links = tracksOf /\ g.blind = page.blind
      /\ g.mine = page.mine /\ g.active = page.active /\ g.answer = "loading" /\ g.calm = page.calm
      /\ g.blinded = page.blinded
  BY <1>1, <1>2, <1>3 DEF Page
<1>5. /\ ~Last /\ page.at < 9
      /\ \/ page.kind = "list" /\ page.at = 3
         \/ page.kind = "record" /\ page.at \in {2, 7}
         \/ page.kind = "queue" /\ page.at = 4
  BY <1>2, OfList, OfRecord, OfQueue, OfScorecard, PageFields
<1>6. PICK q : q = page'
  OBVIOUS
<1>7. Onward(q, g)
  BY <1>2, <1>4, <1>5, <1>6, ReadOn
<1>8. /\ q \in Page /\ q.at = page.at + 1 /\ q.kind = page.kind /\ q.id = page.id
      /\ q.rows = page.rows /\ q.routed = page.routed /\ q.links = tracksOf
      /\ q.mine = page.mine /\ q.answer = "loading" /\ q.calm = page.calm
      /\ q.round = page.round /\ q.blind = page.blind /\ q.blinded = page.blinded
  BY <1>4, <1>7 DEF Onward
<1>9. Placed(q)
  BY <1>2, <1>5, <1>8 DEF Sees, Placed
<1>10. SeesBlind(q) /\ Tells(q)
  <2>1. HasRounds(q) => HasRounds(page)
    BY <1>5, <1>8 DEF HasRounds
  <2> QED BY <1>2, <1>8, <2>1, BlindSame
<1>11. SeesNow(q)
  <2> SUFFICES ASSUME q.calm
               PROVE  ReadSo(q)
    BY <1>8 DEF SeesNow
  <2>1. ReadSo(page)
    BY <1>2, <1>8 DEF Sees, SeesNow
  <2> QED BY <1>5, <1>8, <2>1 DEF ReadSo
<1> QED BY <1>2, <1>6, <1>8, <1>9, <1>10, <1>11, PageKeeps DEF Sees
LEMMA ReadRoutingKeeps ==
  ASSUME IInv, ReadRouting
  PROVE  IInv'
<1>1. PICK g : g = [page EXCEPT !.routed = routed]
  OBVIOUS
<1>2. /\ page \in Page /\ page.answer = "loading" /\ page.kind # "none" /\ Sees(page)
      /\ At("routing") /\ Read("routing", g) /\ UNCHANGED <<committee, asked, strayed, changes>>
  BY <1>1 DEF IInv, TypeOK, ReadRouting, Read, At
<1>3. routed \subseteq Tracks
  BY DEF IInv, TypeOK
<1>4. /\ g \in Page /\ g.at = page.at /\ g.kind = page.kind /\ g.round = page.round /\ g.id = page.id
      /\ g.rows = page.rows /\ g.routed = routed /\ g.links = page.links /\ g.blind = page.blind
      /\ g.mine = page.mine /\ g.active = page.active /\ g.answer = "loading" /\ g.calm = page.calm
      /\ g.blinded = page.blinded
  BY <1>1, <1>2, <1>3 DEF Page
<1>5. ASSUME page.kind \in {"list", "record"}
      PROVE  IInv'
  <2>1. /\ ~Last /\ page.at < 9
        /\ \/ page.kind = "list" /\ page.at = 2
           \/ page.kind = "record" /\ page.at \in {3, 6}
    BY <1>2, <1>5, OfList, OfRecord
  <2>2. PICK q : q = page'
    OBVIOUS
  <2>3. Onward(q, g)
    BY <1>2, <1>4, <2>1, <2>2, ReadOn
  <2>4. /\ q \in Page /\ q.at = page.at + 1 /\ q.kind = page.kind /\ q.id = page.id
        /\ q.rows = page.rows /\ q.routed = routed /\ q.links = page.links
        /\ q.mine = page.mine /\ q.answer = "loading" /\ q.calm = page.calm
        /\ q.round = page.round /\ q.blind = page.blind /\ q.blinded = page.blinded
    BY <1>4, <2>3 DEF Onward
  <2>5. Placed(q)
    BY <1>2, <2>1, <2>4 DEF Sees, Placed
  <2>6. SeesBlind(q) /\ Tells(q)
    <3>1. HasRounds(q) => HasRounds(page)
      BY <2>1, <2>4 DEF HasRounds
    <3> QED BY <1>2, <2>4, <3>1, BlindSame
  <2>7. SeesNow(q)
    <3> SUFFICES ASSUME q.calm
                 PROVE  ReadSo(q)
      BY <2>4 DEF SeesNow
    <3>1. ReadSo(page)
      BY <1>2, <2>4 DEF Sees, SeesNow
    <3> QED BY <2>1, <2>4, <3>1 DEF ReadSo
  <2> QED BY <1>2, <2>2, <2>4, <2>5, <2>6, <2>7, PageKeeps DEF Sees
<1>6. ASSUME page.kind = "queue"
      PROVE  IInv'
  <2>1. Last /\ page.at = 5
    BY <1>2, <1>6, OfQueue
  <2>2. PICK a \in SUBSET Proposals : a = IF g.blind = {} THEN Own(g) ELSE {}
    BY <1>4, PageFields DEF Own, Visible
  <2>3. PICK o \in SUBSET Proposals : o = Own(g)
    BY <1>4, PageFields DEF Own, Visible
  <2>4. page' = [g EXCEPT !.answer = "shown", !.listed = o, !.authors = a]
    BY <1>2, <1>4, <1>6, <2>1, <2>2, <2>3 DEF Read, Rendered
  <2>5. PICK q : q = page'
    OBVIOUS
  <2>6. /\ q \in Page /\ q.answer = "shown" /\ q.kind = "queue" /\ q.blinded = page.blinded
        /\ q.authors = a /\ q.listed = o /\ q.round = page.round /\ q.calm = page.calm
    BY <1>4, <1>6, <2>4, <2>5 DEF Page
  <2>7. SeesBlind(page)
    BY <1>2 DEF Sees
  <2>8. SeesBlind(q) /\ Placed(q)
    BY <2>6, <2>7 DEF SeesBlind, Placed
  <2>9. Tells(q)
    <3>1. \A x \in OfPage(page) : x[1] \in page.blind
      BY <1>2, <1>6, <2>1, <2>7 DEF SeesBlind, HasRounds
    <3>2. OfPage(q) = OfPage(page)
      BY <1>6, <2>6 DEF OfPage
    <3> QED BY <1>4, <2>2, <2>6, <3>1, <3>2 DEF Tells
  <2>10. SeesNow(q)
    <3> SUFFICES ASSUME q.calm
                 PROVE  /\ \A p \in o : RecordOpens(p) /\ ScorecardOpens(page.round, p)
                        /\ {x[2] : x \in {y \in Owed : y[1] = page.round}} \subseteq o
      BY <2>6 DEF SeesNow, Agrees
    <3>1. /\ g.rows = {p \in Proposals : status[p] = "submitted"} /\ g.links = tracksOf
          /\ g.mine = {x \in Pairs : Holds(x)}
      BY <1>2, <1>4, <1>6, <2>1, <2>6 DEF Sees, SeesNow, ReadSo
    <3>2. \A p : p \in o <=> /\ p \in Proposals /\ status[p] = "submitted"
                             /\ Routed(routed, tracksOf[p]) /\ Holds(<<page.round, p>>)
      BY <1>4, <2>3, <3>1 DEF Own, Visible, Holds
    <3>3. \A p \in o : RecordOpens(p) /\ ScorecardOpens(page.round, p)
      BY <3>2 DEF RecordOpens, ScorecardOpens
    <3>4. ASSUME NEW y \in Owed, y[1] = page.round
          PROVE  y[2] \in o
      <4>1. y \in Pairs \ strayed /\ held[y] = "active" /\ status[y[2]] = "submitted"
        BY DEF Owed
      <4>2. Holds(y)
        BY <4>1 DEF Holds
      <4>3. InTrack(y[2])
        BY <4>1, <4>2 DEF IInv, Fitting
      <4>4. y = <<page.round, y[2]>> /\ y[2] \in Proposals
        BY <3>4, <4>1, ScreenConstants
      <4> QED BY <3>2, <4>1, <4>2, <4>3, <4>4 DEF InTrack
    <3> QED BY <3>3, <3>4
  <2> QED BY <1>2, <2>5, <2>6, <2>8, <2>9, <2>10, PageKeeps DEF Sees
<1>7. page.kind # "scorecard"
  BY <1>2, OfScorecard
<1> QED BY <1>2, <1>5, <1>6, <1>7, PageFields

LEMMA ReadRoundsKeeps ==
  ASSUME IInv, ReadRounds
  PROVE  IInv'
<1>1. PICK g : g = [page EXCEPT !.blind = blind]
  OBVIOUS
<1>2. /\ page \in Page /\ page.answer = "loading" /\ page.kind # "none" /\ Sees(page)
      /\ At("rounds") /\ Read("rounds", g) /\ UNCHANGED <<committee, asked, strayed, changes>>
  BY <1>1 DEF IInv, TypeOK, ReadRounds, Read, At
<1>3. blind \subseteq Rounds
  BY DEF IInv, TypeOK
<1>4. /\ g \in Page /\ g.at = page.at /\ g.kind = page.kind /\ g.round = page.round /\ g.id = page.id
      /\ g.rows = page.rows /\ g.routed = page.routed /\ g.links = page.links /\ g.blind = blind
      /\ g.mine = page.mine /\ g.active = page.active /\ g.answer = "loading" /\ g.calm = page.calm
      /\ g.blinded = page.blinded
  BY <1>1, <1>2, <1>3 DEF Page
<1>5. /\ ~Last /\ page.at < 9
      /\ \/ page.kind = "list" /\ page.at = 4
         \/ page.kind = "record" /\ page.at = 8
  BY <1>2, OfList, OfRecord, OfQueue, OfScorecard, PageFields
<1>6. PICK q : q = page'
  OBVIOUS
<1>7. Onward(q, g)
  BY <1>2, <1>4, <1>5, <1>6, ReadOn
<1>8. /\ q \in Page /\ q.at = page.at + 1 /\ q.kind = page.kind /\ q.id = page.id
      /\ q.rows = page.rows /\ q.routed = page.routed /\ q.links = page.links
      /\ q.mine = page.mine /\ q.answer = "loading" /\ q.calm = page.calm
      /\ q.round = page.round /\ q.blind = blind /\ q.blinded = page.blinded
  BY <1>4, <1>7 DEF Onward
<1>9. Placed(q)
  BY <1>2, <1>5, <1>8 DEF Sees, Placed
<1>10. SeesBlind(q) /\ Tells(q)
  BY <1>2, <1>8 DEF Sees, SeesBlind, Tells, Blinded, OfPage
<1>11. SeesNow(q)
  <2> SUFFICES ASSUME q.calm
               PROVE  ReadSo(q)
    BY <1>8 DEF SeesNow
  <2>1. ReadSo(page)
    BY <1>2, <1>8 DEF Sees, SeesNow
  <2> QED BY <1>5, <1>8, <2>1 DEF ReadSo
<1> QED BY <1>2, <1>6, <1>8, <1>9, <1>10, <1>11, PageKeeps DEF Sees

LEMMA ReadRoundKeeps ==
  ASSUME IInv, ReadRound
  PROVE  IInv'
<1>1. PICK g : g = [page EXCEPT !.blind = blind \cap {page.round}]
  OBVIOUS
<1>2. /\ page \in Page /\ page.answer = "loading" /\ page.kind # "none" /\ Sees(page)
      /\ At("round") /\ Read("round", g) /\ UNCHANGED <<committee, asked, strayed, changes>>
  BY <1>1 DEF IInv, TypeOK, ReadRound, Read, At
<1>3. blind \cap {page.round} \subseteq Rounds
  BY DEF IInv, TypeOK
<1>4. /\ g \in Page /\ g.at = page.at /\ g.kind = page.kind /\ g.round = page.round /\ g.id = page.id
      /\ g.rows = page.rows /\ g.routed = page.routed /\ g.links = page.links
      /\ g.blind = blind \cap {page.round}
      /\ g.mine = page.mine /\ g.active = page.active /\ g.answer = "loading" /\ g.calm = page.calm
      /\ g.blinded = page.blinded
  BY <1>1, <1>2, <1>3 DEF Page
<1>5. ~Last /\ page.at = 1 /\ page.kind \in {"queue", "scorecard"}
  BY <1>2, OfList, OfRecord, OfQueue, OfScorecard, PageFields
<1>6. PICK q : q = page'
  OBVIOUS
<1>7. Onward(q, g)
  BY <1>2, <1>4, <1>5, <1>6, ReadOn
<1>8. /\ q \in Page /\ q.at = 2 /\ q.kind = page.kind /\ q.answer = "loading"
      /\ q.round = page.round /\ q.blind = blind \cap {page.round} /\ q.blinded = page.blinded
  BY <1>4, <1>5, <1>7 DEF Onward
<1>9. Placed(q)
  BY <1>5, <1>8 DEF Placed
<1>10. SeesBlind(q) /\ Tells(q)
  BY <1>2, <1>5, <1>8 DEF Sees, SeesBlind, Tells, Blinded, OfPage
<1>11. SeesNow(q)
  BY <1>5, <1>8 DEF SeesNow, ReadSo
<1> QED BY <1>2, <1>6, <1>8, <1>9, <1>10, <1>11, PageKeeps DEF Sees
(* A page that is missing shows nothing. *)
LEMMA MissingKeeps ==
  ASSUME IInv, UNCHANGED <<committee, asked, strayed, changes>>, NEW q \in Page, page' = q,
         q.answer = "missing", q.kind = page.kind, q.id = page.id, q.blinded = page.blinded
  PROVE  IInv'
<1>1. Sees(page)
  BY DEF IInv
<1>2. Sees(q)
  BY <1>1 DEF Sees, Placed, SeesBlind, Tells, SeesNow
<1> QED BY <1>2, PageKeeps

LEMMA ReadDetailKeeps ==
  ASSUME IInv, ReadDetail
  PROVE  IInv'
<1>1. PICK h : h = [page EXCEPT !.rows = {page.id}]
  OBVIOUS
<1>2. PICK g : g = IF status[page.id] \notin {"draft", "direct"} THEN h
                   ELSE [h EXCEPT !.answer = "missing"]
  OBVIOUS
<1>3. /\ page \in Page /\ page.answer = "loading" /\ page.kind # "none" /\ Sees(page)
      /\ At("detail") /\ Read("detail", g) /\ UNCHANGED <<committee, asked, strayed, changes>>
  BY <1>1, <1>2 DEF IInv, TypeOK, ReadDetail, Missing, Read, At
<1>4. ~Last /\ page.at = 1 /\ page.kind = "record"
  BY <1>3, OfList, OfRecord, OfQueue, OfScorecard, PageFields
<1>5. page.id \in Proposals
  BY <1>3, <1>4 DEF Sees, Placed
<1>6. /\ h \in Page /\ h.at = page.at /\ h.kind = page.kind /\ h.round = page.round /\ h.id = page.id
      /\ h.rows = {page.id} /\ h.blind = page.blind /\ h.answer = "loading" /\ h.calm = page.calm
      /\ h.blinded = page.blinded
  BY <1>1, <1>3, <1>5 DEF Page
<1>7. PICK q : q = page'
  OBVIOUS
<1>8. CASE status[page.id] \in {"draft", "direct"}
  <2>1. q = [h EXCEPT !.answer = "missing"]
    BY <1>2, <1>3, <1>6, <1>7, <1>8 DEF Read, Page
  <2>2. q \in Page /\ q.answer = "missing" /\ q.kind = page.kind /\ q.id = page.id /\ q.blinded = page.blinded
    BY <1>6, <2>1 DEF Page
  <2> QED BY <1>3, <1>7, <2>2, MissingKeeps
<1>9. CASE status[page.id] \notin {"draft", "direct"}
  <2>1. g = h
    BY <1>2, <1>9
  <2>2. Onward(q, g)
    BY <1>3, <1>4, <1>6, <1>7, <2>1, ReadOn
  <2>3. /\ q \in Page /\ q.at = 2 /\ q.kind = "record" /\ q.id = page.id /\ q.round = page.round
        /\ q.rows = {page.id} /\ q.blind = page.blind /\ q.answer = "loading" /\ q.calm = page.calm
        /\ q.blinded = page.blinded
    BY <1>4, <1>6, <2>1, <2>2 DEF Onward
  <2>4. Placed(q)
    BY <1>5, <2>3 DEF Placed
  <2>5. SeesBlind(q) /\ Tells(q)
    <3>1. ~HasRounds(q)
      BY <2>3 DEF HasRounds
    <3> QED BY <1>3, <1>4, <2>3, <3>1, BlindSame
  <2>6. SeesNow(q)
    BY <1>9, <2>3 DEF SeesNow, ReadSo
  <2> QED BY <1>3, <1>7, <2>3, <2>4, <2>5, <2>6, PageKeeps DEF Sees
<1> QED BY <1>8, <1>9

LEMMA CheckAccessKeeps ==
  ASSUME IInv, CheckAccess
  PROVE  IInv'
<1>1. PICK g : g = IF page.id \in Visible(page) THEN page ELSE [page EXCEPT !.answer = "missing"]
  OBVIOUS
<1>2. /\ page \in Page /\ page.answer = "loading" /\ page.kind # "none" /\ Sees(page)
      /\ At("access") /\ Read("access", g) /\ UNCHANGED <<committee, asked, strayed, changes>>
  BY <1>1 DEF IInv, TypeOK, CheckAccess, Missing, Read, At
<1>3. ~Last /\ page.at = 4 /\ page.kind = "record"
  BY <1>2, OfList, OfRecord, OfQueue, OfScorecard, PageFields
<1>4. PICK q : q = page'
  OBVIOUS
<1>5. CASE page.id \notin Visible(page)
  <2>1. q = [page EXCEPT !.answer = "missing"]
    BY <1>1, <1>2, <1>4, <1>5 DEF Read, Page
  <2>2. q \in Page /\ q.answer = "missing" /\ q.kind = page.kind /\ q.id = page.id /\ q.blinded = page.blinded
    BY <1>2, <2>1 DEF Page
  <2> QED BY <1>2, <1>4, <2>2, MissingKeeps
<1>6. CASE page.id \in Visible(page)
  <2>1. g = page
    BY <1>1, <1>6
  <2>2. Onward(q, page)
    BY <1>2, <1>3, <1>4, <2>1, ReadOn
  <2>3. /\ q \in Page /\ q.at = 5 /\ q.kind = "record" /\ q.id = page.id /\ q.round = page.round
        /\ q.rows = page.rows /\ q.routed = page.routed /\ q.links = page.links
        /\ q.blind = page.blind /\ q.answer = "loading" /\ q.calm = page.calm
        /\ q.blinded = page.blinded
    BY <1>2, <1>3, <2>2 DEF Onward
  <2>4. Placed(q)
    BY <1>2, <1>3, <2>3 DEF Sees, Placed
  <2>5. SeesBlind(q) /\ Tells(q)
    <3>1. ~HasRounds(q)
      BY <2>3 DEF HasRounds
    <3> QED BY <1>2, <1>3, <2>3, <3>1, BlindSame
  <2>6. SeesNow(q)
    <3> SUFFICES ASSUME q.calm
                 PROVE  ReadSo(q)
      BY <2>3 DEF SeesNow
    <3>1. ReadSo(page)
      BY <1>2, <2>3 DEF Sees, SeesNow
    <3>2. page.links = tracksOf /\ page.routed = routed /\ status[page.id] \notin {"draft", "direct"}
      <4>1. page.at > 1 /\ page.at > 2 /\ page.at > 3 /\ page.kind = "record"
        BY <1>3
      <4> QED BY <3>1, <4>1 DEF ReadSo
    <3>3. RecordOpens(page.id)
      BY <1>6, <3>2 DEF Visible, RecordOpens
    <3> QED BY <1>3, <2>3, <3>1, <3>3 DEF ReadSo
  <2> QED BY <1>2, <1>4, <2>3, <2>4, <2>5, <2>6, PageKeeps DEF Sees
<1> QED BY <1>5, <1>6

LEMMA ReadMineKeeps ==
  ASSUME IInv, ReadMine
  PROVE  IInv'
<1>1. PICK m : m = {x \in Pairs : Holds(x)}
  OBVIOUS
<1>2. PICK a : a = {x \in m : held[x] = "active"}
  OBVIOUS
<1>3. PICK h : h = [page EXCEPT !.mine = m, !.active = a]
  OBVIOUS
<1>4. PICK g : g = IF page.kind = "scorecard" => <<page.round, page.id>> \in m THEN h
                   ELSE [h EXCEPT !.answer = "missing"]
  OBVIOUS
<1>5. /\ page \in Page /\ page.answer = "loading" /\ page.kind # "none" /\ Sees(page)
      /\ At("mine") /\ Read("mine", g) /\ UNCHANGED <<committee, asked, strayed, changes>>
  BY <1>1, <1>2, <1>3, <1>4 DEF IInv, TypeOK, ReadMine, Missing, Read, At
<1>6. m \subseteq Pairs /\ a \subseteq m
  BY <1>1, <1>2
<1>7. /\ h \in Page /\ h.at = page.at /\ h.kind = page.kind /\ h.round = page.round /\ h.id = page.id
      /\ h.rows = page.rows /\ h.routed = page.routed /\ h.links = page.links /\ h.blind = page.blind
      /\ h.mine = m /\ h.active = a /\ h.answer = "loading" /\ h.calm = page.calm
      /\ h.blinded = page.blinded
  BY <1>3, <1>5, <1>6 DEF Page
<1>8. PICK q : q = page'
  OBVIOUS
<1>9. CASE page.kind = "scorecard" /\ <<page.round, page.id>> \notin m
  <2>1. q = [h EXCEPT !.answer = "missing"]
    BY <1>4, <1>5, <1>7, <1>8, <1>9 DEF Read, Page
  <2>2. q \in Page /\ q.answer = "missing" /\ q.kind = page.kind /\ q.id = page.id /\ q.blinded = page.blinded
    BY <1>7, <2>1 DEF Page
  <2> QED BY <1>5, <1>8, <2>2, MissingKeeps
<1>10. CASE page.kind \in {"queue", "scorecard"} /\ ~(page.kind = "scorecard" /\ <<page.round, page.id>> \notin m)
  <2>1. g = h
    BY <1>4, <1>10
  <2>2. ~Last /\ page.at = 2
    BY <1>5, <1>10, OfQueue, OfScorecard
  <2>3. Onward(q, g)
    BY <1>5, <1>7, <1>8, <2>1, <2>2, ReadOn
  <2>4. /\ q \in Page /\ q.at = 3 /\ q.kind = page.kind /\ q.id = page.id /\ q.round = page.round
        /\ q.mine = m /\ q.blind = page.blind /\ q.answer = "loading" /\ q.calm = page.calm
        /\ q.blinded = page.blinded
    BY <1>7, <2>1, <2>2, <2>3 DEF Onward
  <2>5. Placed(q)
    BY <1>10, <2>4 DEF Placed
  <2>6. SeesBlind(q) /\ Tells(q)
    <3>1. HasRounds(page)
      BY <1>10, <2>2 DEF HasRounds
    <3> QED BY <1>5, <2>4, <3>1, BlindSame
  <2>7. SeesNow(q)
    BY <1>1, <1>10, <2>4 DEF SeesNow, ReadSo
  <2> QED BY <1>5, <1>8, <2>4, <2>5, <2>6, <2>7, PageKeeps DEF Sees
<1>11. CASE page.kind \in {"list", "record"}
  <2>1. g = h
    BY <1>4, <1>11
  <2>2. /\ Last
        /\ \/ page.kind = "list" /\ page.at = 5
           \/ page.kind = "record" /\ page.at = 9
    BY <1>5, <1>11, OfList, OfRecord
  <2>3. PICK v \in SUBSET Proposals : v = Visible(g)
    BY <1>7, <2>1, PageFields DEF Visible
  <2>4. PICK w \in SUBSET Proposals : w = Assigned(g)
    BY <1>7, <2>1, PageFields DEF Assigned, Visible
  <2>5. PICK b \in BOOLEAN : b = \E x \in m : x[1] \in page.blind
    OBVIOUS
  <2>6. \A p : Withheld(g, p) <=> b
    BY <1>7, <2>1, <2>5 DEF Withheld
  <2>7. PICK n \in SUBSET Proposals :
          n = IF b THEN {} ELSE IF page.kind = "list" THEN v ELSE {page.id}
    BY <1>5, <1>11 DEF Sees, Placed
  <2>8. page' = Rendered(g)
    BY <1>5, <1>7, <2>1, <2>2 DEF Read
  <2>9. /\ q \in Page /\ q.answer = "shown" /\ q.kind = page.kind /\ q.id = page.id
        /\ q.calm = page.calm /\ q.blinded = page.blinded /\ q.listed = v /\ q.authors = n
        /\ page.kind = "list" => q.mineListed = w
    <3>1. CASE page.kind = "list"
      <4>1. n = {p \in v : ~Withheld(g, p)}
        BY <2>6, <2>7, <3>1
      <4>2. q = [g EXCEPT !.answer = "shown", !.listed = v, !.mineListed = w, !.authors = n]
        BY <1>7, <1>8, <2>1, <2>3, <2>4, <2>8, <3>1, <4>1 DEF Rendered
      <4> QED BY <1>7, <2>1, <4>2 DEF Page
    <3>2. CASE page.kind = "record"
      <4>1. n = {page.id} \ {p \in Proposals : Withheld(g, p)}
        BY <1>5, <2>6, <2>7, <3>2 DEF Sees, Placed
      <4>2. q = [g EXCEPT !.answer = "shown", !.listed = v, !.authors = n]
        BY <1>7, <1>8, <2>1, <2>3, <2>8, <3>2, <4>1 DEF Rendered
      <4> QED BY <1>7, <2>1, <3>2, <4>2 DEF Page
    <3> QED BY <1>11, <3>1, <3>2
  <2>10. Placed(q) /\ SeesBlind(q)
    BY <1>5, <2>9 DEF Sees, Placed, SeesBlind
  <2>11. Tells(q)
    <3> SUFFICES ASSUME q.blinded # {}
                 PROVE  n = {}
      BY <2>9 DEF Tells
    <3>1. PICK x \in page.blinded : TRUE
      BY <2>9
    <3>2. x \in m
      BY <1>1, <1>5 DEF Sees, SeesBlind, Blinded
    <3>3. x[1] \in page.blind
      BY <1>5, <1>11, <2>2 DEF Sees, SeesBlind, HasRounds, OfPage
    <3> QED BY <2>5, <2>7, <3>2, <3>3
  <2>12. SeesNow(q)
    <3> SUFFICES ASSUME q.calm
                 PROVE  Agrees(q)
      BY <2>9 DEF SeesNow
    <3>1. ReadSo(page)
      BY <1>5, <2>9 DEF Sees, SeesNow
    <3>2. /\ g.rows = Listed /\ g.routed = routed /\ g.links = tracksOf
          /\ page.kind = "record" => RecordOpens(page.id)
      <4>1. CASE page.kind = "list"
        <5>1. page.at > 1 /\ page.at > 2 /\ page.at > 3
          BY <2>2, <4>1
        <5> QED BY <1>7, <2>1, <3>1, <4>1, <5>1 DEF ReadSo
      <4>2. CASE page.kind = "record"
        <5>1. page.at > 2 /\ page.at > 3 /\ page.at > 4 /\ page.at > 5
          BY <2>2, <4>2
        <5> QED BY <1>7, <2>1, <3>1, <4>2, <5>1 DEF ReadSo
      <4> QED BY <1>11, <4>1, <4>2
    <3>3. \A p : p \in v <=> p \in Proposals /\ RecordOpens(p)
      <4>1. \A p \in Proposals : p \in Listed <=> status[p] \notin {"draft", "direct"}
        BY DEF Listed, ListedStatuses, IInv, TypeOK
      <4>2. Listed \subseteq Proposals
        BY DEF Listed
      <4> QED BY <2>3, <3>2, <4>1, <4>2 DEF Visible, RecordOpens
    <3>4. page.kind = "record" => page.id \in v
      BY <1>5, <3>2, <3>3 DEF Sees, Placed
    <3>5. ASSUME page.kind = "list", NEW y \in Owed, y[1] \in OpenRounds
          PROVE  y[2] \in w
      <4>1. y \in Pairs \ strayed /\ held[y] = "active" /\ status[y[2]] = "submitted"
        BY DEF Owed
      <4>2. Holds(y)
        BY <4>1 DEF Holds
      <4>3. InTrack(y[2])
        BY <4>1, <4>2 DEF IInv, Fitting
      <4>4. y[2] \in Proposals
        BY <4>1, ScreenConstants
      <4>5. y[2] \in v
        BY <3>3, <4>1, <4>3, <4>4 DEF RecordOpens, InTrack
      <4>6. y \in a
        BY <1>1, <1>2, <4>1, <4>2
      <4> QED BY <1>7, <2>1, <2>3, <2>4, <3>5, <4>5, <4>6 DEF Assigned
    <3> QED BY <1>11, <2>9, <3>3, <3>4, <3>5 DEF Agrees
  <2> QED BY <1>5, <1>8, <2>9, <2>10, <2>11, <2>12, PageKeeps DEF Sees
<1> QED BY <1>5, <1>9, <1>10, <1>11, PageFields
LEMMA NoPageIsPage ==
  /\ NoPage \in Page /\ NoPage.kind = "none" /\ NoPage.answer = "loading" /\ NoPage.at = 1
  /\ NoPage.calm = TRUE /\ NoPage.blinded = {}
<1>1. [p \in Proposals |-> {}] \in [Proposals -> SUBSET Tracks]
  OBVIOUS
<1> QED BY <1>1 DEF NoPage, Page

LEMMA OpenKeeps ==
  ASSUME IInv, NEW kind \in {"list", "record", "queue", "scorecard"}, NEW r \in Rounds \cup {None},
         NEW s \in Proposals \cup {None}, Open(kind, r, s), kind = "record" => s \in Proposals
  PROVE  IInv'
<1>1. PICK b \in SUBSET Pairs : b = Blinded
  BY DEF Blinded
<1>2. PICK q : q = [NoPage EXCEPT !.kind = kind, !.round = r, !.id = s, !.blinded = b]
  OBVIOUS
<1>3. /\ q \in Page /\ q.kind = kind /\ q.id = s /\ q.round = r /\ q.blinded = b /\ q.at = 1
      /\ q.answer = "loading"
  BY <1>2, NoPageIsPage DEF Page
<1>4. Placed(q)
  BY <1>3 DEF Placed
<1>5. SeesBlind(q) /\ Tells(q)
  BY <1>1, <1>3 DEF SeesBlind, HasRounds, Tells
<1>6. SeesNow(q)
  BY <1>3 DEF SeesNow, ReadSo
<1>7. page' = q /\ UNCHANGED <<committee, asked, strayed, changes>>
  BY <1>1, <1>2 DEF Open
<1> QED BY <1>3, <1>4, <1>5, <1>6, <1>7, PageKeeps DEF Sees

----------------------------------------------------------------------------
(* One lemma per change *)

LEMMA DisturbKeeps ==
  ASSUME IInv, Disturb, changes' \in 0..MaxChanges,
         status' \in [Proposals -> {"draft", "submitted", "withdrawn", "direct"}],
         tracksOf' \in [Proposals -> SUBSET Tracks], routed' \subseteq Tracks, blind' \subseteq Rounds,
         held' \in [Pairs -> {"none", "active", "recused"}], asked' \in Orders,
         strayed' \subseteq Pairs, Fitting'
  PROVE  IInv'
<1>1. page \in Page /\ Sees(page)
  BY DEF IInv, TypeOK
<1>2. PICK b \in SUBSET Pairs : b = page.blinded \cap Blinded'
  BY <1>1, PageFields
<1>3. PICK q : q = [page EXCEPT !.calm = FALSE, !.blinded = b]
  OBVIOUS
<1>4. page' = q
  BY <1>2, <1>3 DEF Disturb
<1>5. /\ q \in Page /\ q.at = page.at /\ q.kind = page.kind /\ q.round = page.round /\ q.id = page.id
      /\ q.blind = page.blind /\ q.answer = page.answer /\ q.authors = page.authors
      /\ q.calm = FALSE /\ q.blinded = b
  BY <1>1, <1>3 DEF Page
<1>6. Placed(q) /\ Tells(q)
  BY <1>1, <1>2, <1>5 DEF Sees, Placed, Tells, OfPage
<1>7. q.blinded \subseteq Blinded'
  BY <1>2, <1>5
<1>8. q.answer = "loading" /\ HasRounds(q) => \A x \in OfPage(q) : x[1] \in q.blind
  BY <1>1, <1>2, <1>5 DEF Sees, SeesBlind, HasRounds, OfPage
<1>9. Placed(page)' /\ Tells(page)' /\ SeesBlind(page)' /\ SeesNow(page)'
  <2>1. Placed(page)' /\ Tells(page)'
    BY <1>4, <1>6 DEF Placed, Tells, OfPage
  <2>2. SeesBlind(page)'
    BY <1>4, <1>7, <1>8 DEF SeesBlind, HasRounds, OfPage
  <2>3. SeesNow(page)'
    BY <1>4, <1>5 DEF SeesNow
  <2> QED BY <2>1, <2>2, <2>3
<1>10. TypeOK'
  BY <1>4, <1>5 DEF TypeOK
<1> QED BY <1>9, <1>10 DEF IInv, Sees

LEMMA ChangeCounts ==
  ASSUME IInv, Change
  PROVE  Disturb /\ changes' \in 0..MaxChanges
<1>1. changes \in 0..MaxChanges /\ MaxChanges \in Nat
  BY ScreenConstants DEF IInv, TypeOK
<1> QED BY <1>1 DEF Change

LEMMA TracksKeep ==
  ASSUME IInv, NEW s \in Proposals, NEW tracks \in SUBSET Tracks, UpdateSubmissionTracks(s, tracks)
  PROVE  IInv'
<1>1. /\ tracksOf' = [tracksOf EXCEPT ![s] = tracks]
      /\ strayed' = strayed \cup {x \in Checked : x[2] = s}
      /\ status' = status /\ routed' = routed /\ blind' = blind /\ held' = held /\ asked' = asked
      /\ Disturb /\ changes' \in 0..MaxChanges
  BY ChangeCounts DEF UpdateSubmissionTracks
<1>2. TypeOK /\ Fitting /\ Checked \subseteq Pairs
  BY DEF IInv, Checked, InCheck
<1>3. InCheck' = InCheck /\ \A x : Holds(x)' <=> Holds(x)
  BY <1>1 DEF InCheck, Holds
<1>4. \A p \in Proposals \ {s} : InTrack(p)' <=> InTrack(p)
  BY <1>1, <1>2 DEF InTrack, TypeOK
<1>5. Fitting'
  <2>1. ASSUME NEW x \in Pairs \ strayed', Holds(x)
        PROVE  InTrack(x[2])'
    <3>1. x[2] # s
      BY <1>1, <2>1 DEF Checked
    <3>2. x[2] \in Proposals
      BY ScreenConstants
    <3> QED BY <1>1, <1>2, <1>4, <2>1, <3>1, <3>2 DEF Fitting
  <2>2. ASSUME asked.pc = "insert", NEW p \in asked.todo, <<asked.round, p>> \in Pairs \ strayed'
        PROVE  InTrack(p)'
    <3>1. <<asked.round, p>> \in InCheck
      BY <2>2 DEF InCheck
    <3>2. p # s /\ p \in Proposals
      BY <1>1, <2>2, <3>1, ScreenConstants DEF Checked
    <3> QED BY <1>1, <1>2, <1>4, <2>2, <3>2 DEF Fitting
  <2>3. asked.pc \in {"rows", "links"} => asked.routed = routed \/ InCheck \subseteq strayed'
    BY <1>1, <1>2 DEF Fitting
  <2> QED BY <1>1, <1>3, <2>1, <2>2, <2>3 DEF Fitting
<1>6. tracksOf' \in [Proposals -> SUBSET Tracks] /\ strayed' \subseteq Pairs
  BY <1>1, <1>2 DEF TypeOK
<1> QED BY <1>1, <1>2, <1>5, <1>6, DisturbKeeps DEF TypeOK

LEMMA RoutingKeeps ==
  ASSUME IInv, NEW tracks \in SUBSET Tracks, SetTracksForReviewer(tracks)
  PROVE  IInv'
<1>1. /\ routed' = tracks /\ strayed' = strayed \cup Checked
      /\ status' = status /\ tracksOf' = tracksOf /\ blind' = blind /\ held' = held /\ asked' = asked
      /\ Disturb /\ changes' \in 0..MaxChanges
  BY ChangeCounts DEF SetTracksForReviewer
<1>2. TypeOK /\ Checked \subseteq Pairs /\ InCheck \subseteq Checked
  BY DEF IInv, Checked, InCheck
<1>3. InCheck' = InCheck /\ \A x : Holds(x)' <=> Holds(x)
  BY <1>1 DEF InCheck, Holds
<1>4. \A x \in Pairs \ strayed' : ~Holds(x)
  BY <1>1 DEF Checked
<1>5. asked.pc = "insert" => \A p \in asked.todo : <<asked.round, p>> \notin Pairs \ strayed'
  BY <1>1, <1>2 DEF InCheck
<1>6. Fitting'
  BY <1>1, <1>2, <1>3, <1>4, <1>5 DEF Fitting
<1>7. strayed' \subseteq Pairs
  BY <1>1, <1>2 DEF TypeOK
<1> QED BY <1>1, <1>2, <1>6, <1>7, DisturbKeeps DEF TypeOK

LEMMA DraftAndRoundKeep ==
  ASSUME IInv, (\E p \in Proposals : SendDraft(p)) \/ (\E r \in Rounds : UpdateRound(r))
  PROVE  IInv'
<1>1. /\ tracksOf' = tracksOf /\ routed' = routed /\ held' = held /\ asked' = asked
      /\ strayed' = strayed /\ Disturb /\ changes' \in 0..MaxChanges
  BY ChangeCounts DEF SendDraft, UpdateRound
<1>2. TypeOK
  BY DEF IInv
<1>3. /\ status' \in [Proposals -> {"draft", "submitted", "withdrawn", "direct"}]
      /\ blind' \subseteq Rounds
  BY <1>2 DEF SendDraft, UpdateRound, TypeOK
<1>4. Fitting'
  BY <1>1 DEF IInv, Fitting, Holds, InTrack, InCheck
<1> QED BY <1>1, <1>2, <1>3, <1>4, DisturbKeeps DEF TypeOK

LEMMA UnassignKeeps ==
  ASSUME IInv, NEW x \in Pairs, Unassign(x)
  PROVE  IInv'
<1>1. /\ held' = [held EXCEPT ![x] = "none"] /\ strayed' = strayed \ ({x} \ InCheck)
      /\ status' = status /\ tracksOf' = tracksOf /\ routed' = routed /\ blind' = blind
      /\ asked' = asked /\ Disturb /\ changes' \in 0..MaxChanges
  BY ChangeCounts DEF Unassign
<1>2. TypeOK /\ Fitting
  BY DEF IInv
<1>3. held' \in [Pairs -> {"none", "active", "recused"}] /\ strayed' \subseteq Pairs
  BY <1>1, <1>2 DEF TypeOK
<1>4. \A y \in Pairs : Holds(y)' => y # x /\ Holds(y)
  BY <1>1, <1>2 DEF Holds, TypeOK
<1>5. \A y : y \notin strayed' /\ (y # x \/ y \in InCheck) => y \notin strayed
  BY <1>1
<1>6. InCheck' = InCheck /\ \A p : InTrack(p)' <=> InTrack(p)
  BY <1>1 DEF InCheck, InTrack
<1>7. Fitting'
  <2>1. ASSUME NEW y \in Pairs \ strayed', Holds(y)'
        PROVE  InTrack(y[2])
    BY <1>2, <1>4, <1>5, <2>1 DEF Fitting
  <2>2. ASSUME asked.pc = "insert", NEW p \in asked.todo, <<asked.round, p>> \in Pairs \ strayed'
        PROVE  InTrack(p)
    <3>1. <<asked.round, p>> \in InCheck
      BY <2>2 DEF InCheck
    <3> QED BY <1>2, <1>5, <2>2, <3>1 DEF Fitting
  <2>3. asked.pc \in {"rows", "links"} => asked.routed = routed \/ InCheck \subseteq strayed'
    BY <1>1, <1>2 DEF Fitting
  <2> QED BY <1>1, <1>6, <2>1, <2>2, <2>3 DEF Fitting
<1> QED BY <1>1, <1>2, <1>3, <1>7, DisturbKeeps DEF TypeOK

LEMMA RecuseKeeps ==
  ASSUME IInv, NEW x \in Pairs, Recuse(x)
  PROVE  IInv'
<1>1. /\ held' = [held EXCEPT ![x] = "recused"] /\ Holds(x)
      /\ status' = status /\ tracksOf' = tracksOf /\ routed' = routed /\ blind' = blind
      /\ asked' = asked /\ strayed' = strayed /\ Disturb /\ changes' \in 0..MaxChanges
  BY ChangeCounts DEF Recuse
<1>2. TypeOK /\ Fitting
  BY DEF IInv
<1>3. held' \in [Pairs -> {"none", "active", "recused"}]
  BY <1>1, <1>2 DEF TypeOK
<1>4. \A y \in Pairs : Holds(y)' <=> Holds(y)
  BY <1>1, <1>2 DEF Holds, TypeOK
<1>5. InCheck' = InCheck /\ \A p : InTrack(p)' <=> InTrack(p)
  BY <1>1 DEF InCheck, InTrack
<1>6. Fitting'
  BY <1>1, <1>2, <1>4, <1>5 DEF Fitting
<1> QED BY <1>1, <1>2, <1>3, <1>6, DisturbKeeps DEF TypeOK
----------------------------------------------------------------------------
(* A request to assign *)

LEMMA NoOrderIsOrder == NoOrder \in Orders /\ NoOrder.pc = "none"
  BY DEF NoOrder, Orders

LEMMA OrderKeeps ==
  ASSUME IInv, NEW r \in Rounds, NEW wanted \in SUBSET Proposals, NEW track \in Tracks \cup {None},
         Order(r, wanted, track)
  PROVE  IInv'
<1>1. PICK o : o = [NoOrder EXCEPT !.pc = "routing", !.round = r, !.wanted = wanted, !.track = track]
  OBVIOUS
<1>2. o \in Orders /\ o.pc = "routing"
  BY <1>1, NoOrderIsOrder DEF Orders
<1>3. /\ asked' = o /\ strayed' = strayed \ {x \in Pairs : x[1] = r /\ ~Holds(x)}
      /\ status' = status /\ tracksOf' = tracksOf /\ routed' = routed /\ blind' = blind
      /\ held' = held /\ Disturb /\ changes' \in 0..MaxChanges
  BY <1>1, ChangeCounts DEF Order, committee
<1>4. TypeOK /\ Fitting
  BY DEF IInv
<1>5. \A x \in Pairs : /\ Holds(x)' <=> Holds(x)
                       /\ Holds(x) /\ x \notin strayed' => x \notin strayed
  BY <1>3 DEF Holds
<1>6. Fitting'
  <2>1. \A p : InTrack(p)' <=> InTrack(p)
    BY <1>3 DEF InTrack
  <2> QED BY <1>2, <1>3, <1>4, <1>5, <2>1 DEF Fitting
<1>7. strayed' \subseteq Pairs
  BY <1>3, <1>4 DEF TypeOK
<1> QED BY <1>2, <1>3, <1>4, <1>6, <1>7, DisturbKeeps DEF TypeOK

(* What a request reads changes nothing but the request. *)
LEMMA QuietKeeps ==
  ASSUME IInv, Quiet, asked' \in Orders, Fitting'
  PROVE  IInv'
<1>1. /\ page \in Page /\ Sees(page) /\ page' = page /\ UNCHANGED <<committee, strayed, changes>>
  BY DEF IInv, TypeOK, Quiet
<1> QED BY <1>1, StillKeeps

LEMMA AskedFields ==
  ASSUME IInv
  PROVE  /\ asked \in Orders /\ asked.round \in Rounds \cup {None} /\ asked.wanted \subseteq Proposals
         /\ asked.track \in Tracks \cup {None} /\ asked.routed \subseteq Tracks
         /\ asked.todo \subseteq Proposals
  BY DEF IInv, TypeOK, Orders

LEMMA ReadContextKeeps ==
  ASSUME IInv, ReadContext
  PROVE  IInv'
<1>1. PICK o : o = [asked EXCEPT !.pc = "rows", !.routed = routed]
  OBVIOUS
<1>2. o \in Orders /\ o.pc = "rows" /\ o.routed = routed
  BY <1>1, AskedFields DEF IInv, TypeOK, Orders
<1>3. asked' = o /\ Quiet
  BY <1>1 DEF ReadContext
<1>4. /\ tracksOf' = tracksOf /\ routed' = routed /\ held' = held /\ strayed' = strayed
  BY <1>3 DEF Quiet, committee
<1>5. Fitting'
  BY <1>2, <1>3, <1>4 DEF IInv, Fitting, Holds, InTrack
<1> QED BY <1>2, <1>3, <1>5, QuietKeeps

LEMMA ReadSubmissionsKeeps ==
  ASSUME IInv, ReadSubmissions
  PROVE  IInv'
<1>1. PICK t \in SUBSET Proposals : t = Assignable(asked.wanted)
  BY AskedFields DEF Assignable
<1>2. PICK o : o = IF t = {} THEN NoOrder ELSE [asked EXCEPT !.pc = "links", !.todo = t]
  OBVIOUS
<1>3. asked' = o /\ Quiet /\ asked.pc = "rows"
  BY <1>1, <1>2 DEF ReadSubmissions
<1>4. /\ o \in Orders /\ o.pc \in {"none", "links"}
      /\ o.pc = "links" => o.routed = asked.routed /\ o.round = asked.round
  <2>1. CASE t = {}
    BY <1>2, <2>1, NoOrderIsOrder
  <2>2. CASE t # {}
    BY <1>2, <2>2, AskedFields DEF Orders
  <2> QED BY <2>1, <2>2
<1>5. /\ tracksOf' = tracksOf /\ routed' = routed /\ held' = held /\ strayed' = strayed
  BY <1>3 DEF Quiet, committee
<1>6. Fitting'
  <2>1. o.pc = "links" => InCheck' = InCheck
    BY <1>3, <1>4 DEF InCheck
  <2>2. (\A x : Holds(x)' <=> Holds(x)) /\ \A p : InTrack(p)' <=> InTrack(p)
    BY <1>5 DEF Holds, InTrack
  <2>3. Fitting
    BY DEF IInv
  <2> QED BY <1>3, <1>4, <1>5, <2>1, <2>2, <2>3 DEF Fitting
<1> QED BY <1>3, <1>4, <1>6, QuietKeeps

LEMMA CheckTracksKeeps ==
  ASSUME IInv, CheckTracks
  PROVE  IInv'
<1>1. PICK t \in SUBSET Proposals : t = Reachable(asked)
  BY AskedFields DEF Reachable
<1>2. PICK o \in {NoOrder, [asked EXCEPT !.pc = "insert", !.todo = t]} :
        asked' = o /\ Quiet /\ asked.pc = "links"
  BY <1>1 DEF CheckTracks
<1>3. CASE o = NoOrder
  <2>1. Fitting'
    BY <1>2, <1>3, NoOrderIsOrder DEF IInv, Fitting, Holds, InTrack, Quiet, committee
  <2> QED BY <1>2, <1>3, <2>1, NoOrderIsOrder, QuietKeeps
<1>4. CASE o = [asked EXCEPT !.pc = "insert", !.todo = t]
  <2>1. o \in Orders /\ o.pc = "insert" /\ o.todo = t /\ o.round = asked.round
    BY <1>4, AskedFields DEF Orders
  <2>2. /\ tracksOf' = tracksOf /\ routed' = routed /\ held' = held /\ strayed' = strayed
    BY <1>2 DEF Quiet, committee
  <2>3. ASSUME NEW p \in t, <<asked.round, p>> \in Pairs \ strayed
        PROVE  InTrack(p)
    <3>1. <<asked.round, p>> \in InCheck
      BY <1>2, <2>3 DEF InCheck
    <3>2. asked.routed = routed
      BY <1>2, <2>3, <3>1 DEF IInv, Fitting
    <3> QED BY <1>1, <3>2 DEF Reachable, InTrack
  <2>4. Fitting'
    <3>1. (\A x : Holds(x)' <=> Holds(x)) /\ \A p : InTrack(p)' <=> InTrack(p)
      BY <2>2 DEF Holds, InTrack
    <3> QED BY <1>2, <2>1, <2>2, <2>3, <3>1 DEF IInv, Fitting
  <2> QED BY <1>2, <2>1, <2>4, QuietKeeps
<1> QED BY <1>2, <1>3, <1>4

LEMMA AssignNextKeeps ==
  ASSUME IInv, AssignNext
  PROVE  IInv'
<1>1. PICK p \in asked.todo :
        /\ held' = IF <<asked.round, p>> \in Pairs /\ held[<<asked.round, p>>] = "none"
                   THEN [held EXCEPT ![<<asked.round, p>>] = "active"] ELSE held
        /\ asked' = IF asked.todo = {p} THEN NoOrder ELSE [asked EXCEPT !.todo = @ \ {p}]
  BY DEF AssignNext
<1>2. /\ asked.pc = "insert" /\ status' = status /\ tracksOf' = tracksOf /\ routed' = routed
      /\ blind' = blind /\ strayed' = strayed /\ changes' = changes /\ Disturb
  BY DEF AssignNext
<1>3. TypeOK /\ Fitting
  BY DEF IInv
<1>4. held' \in [Pairs -> {"none", "active", "recused"}]
  BY <1>1, <1>3 DEF TypeOK
<1>5. \A x \in Pairs : Holds(x)' => Holds(x) \/ x = <<asked.round, p>>
  BY <1>1, <1>3 DEF Holds, TypeOK
<1>6. /\ asked' \in Orders
      /\ asked'.pc = "none" \/ /\ asked'.pc = "insert" /\ asked'.round = asked.round
                               /\ asked'.todo \subseteq asked.todo
  <2>1. CASE asked.todo = {p}
    BY <1>1, <2>1, NoOrderIsOrder
  <2>2. CASE asked.todo # {p}
    BY <1>1, <1>2, <2>2, AskedFields DEF Orders
  <2> QED BY <2>1, <2>2
<1>7. Fitting'
  <2>1. \A s : InTrack(s)' <=> InTrack(s)
    BY <1>2 DEF InTrack
  <2>2. ASSUME NEW x \in Pairs \ strayed', Holds(x)'
        PROVE  InTrack(x[2])
    <3>1. CASE Holds(x)
      BY <1>2, <1>3, <3>1 DEF Fitting
    <3>2. CASE x = <<asked.round, p>>
      BY <1>2, <1>3, <3>2 DEF Fitting
    <3> QED BY <1>5, <2>2, <3>1, <3>2
  <2> QED BY <1>2, <1>3, <1>6, <2>1, <2>2 DEF Fitting
<1> QED BY <1>2, <1>3, <1>4, <1>6, <1>7, DisturbKeeps DEF TypeOK

----------------------------------------------------------------------------
(* The invariant is one *)

LEMMA InitKeeps == Init => IInv
<1> SUFFICES ASSUME Init
             PROVE  IInv
  OBVIOUS
<1>1. TypeOK
  <2>1. held \in [Pairs -> {"none", "active", "recused"}]
    BY DEF Init
  <2>2. 0 \in 0..MaxChanges
    BY ScreenConstants
  <2>3. tracksOf \in [Proposals -> SUBSET Tracks] /\ blind \subseteq Rounds /\ routed \subseteq Tracks
    BY DEF Init
  <2> QED BY <2>1, <2>2, <2>3, NoPageIsPage, NoOrderIsOrder DEF Init, TypeOK
<1>2. Sees(page)
  BY NoPageIsPage DEF Init, Sees, Placed, SeesBlind, HasRounds, Tells, SeesNow, ReadSo
<1>3. Fitting
  BY NoOrderIsOrder DEF Init, Fitting, InTrack
<1> QED BY <1>1, <1>2, <1>3 DEF IInv

LEMMA NextKeeps == IInv /\ [Next]_screenVars => IInv'
<1> SUFFICES ASSUME IInv, [Next]_screenVars
             PROVE  IInv'
  OBVIOUS
<1>1. ASSUME NEW p \in Proposals, NEW tracks \in SUBSET Tracks, UpdateSubmissionTracks(p, tracks)
      PROVE  IInv'
  BY <1>1, TracksKeep
<1>2. ASSUME NEW tracks \in SUBSET Tracks, SetTracksForReviewer(tracks)
      PROVE  IInv'
  BY <1>2, RoutingKeeps
<1>3. CASE (\E p \in Proposals : SendDraft(p)) \/ (\E r \in Rounds : UpdateRound(r))
  BY <1>3, DraftAndRoundKeep
<1>4. ASSUME NEW r \in Rounds, NEW track \in Tracks \cup {None}, AssignTrack(r, track)
      PROVE  IInv'
  <2>1. Order(r, {}, track) /\ {} \in SUBSET Proposals
    BY <1>4 DEF AssignTrack
  <2> QED BY <2>1, OrderKeeps
<1>5. ASSUME NEW r \in Rounds, NEW wanted \in SUBSET Proposals, AssignSubmissions(r, wanted)
      PROVE  IInv'
  <2>1. Order(r, wanted, None) /\ None \in Tracks \cup {None}
    BY <1>5 DEF AssignSubmissions
  <2> QED BY <2>1, OrderKeeps
<1>6. ASSUME NEW x \in Pairs, Unassign(x) \/ Recuse(x)
      PROVE  IInv'
  BY <1>6, UnassignKeeps, RecuseKeeps
<1>7. CASE ReadContext \/ ReadSubmissions \/ CheckTracks \/ AssignNext
  BY <1>7, ReadContextKeeps, ReadSubmissionsKeeps, CheckTracksKeeps, AssignNextKeeps
<1>8. CASE \/ Open("list", None, None) \/ (\E p \in Proposals : Open("record", None, p))
           \/ (\E r \in Rounds : Open("queue", r, None))
           \/ (\E r \in Rounds, p \in Proposals : Open("scorecard", r, p))
  BY <1>8, OpenKeeps
<1>9. CASE \/ ReadRows \/ ReadRouting \/ ReadLinks \/ ReadRounds \/ ReadRound \/ ReadMine
           \/ ReadDetail \/ CheckAccess
  BY <1>9, ReadRowsKeeps, ReadRoutingKeeps, ReadLinksKeeps, ReadRoundsKeeps, ReadRoundKeeps,
     ReadMineKeeps, ReadDetailKeeps, CheckAccessKeeps
<1>10. CASE UNCHANGED screenVars
  <2>1. page' = page /\ UNCHANGED <<committee, asked, strayed, changes>> /\ page \in Page /\ Sees(page)
    BY <1>10 DEF screenVars, committee, IInv, TypeOK
  <2> QED BY <2>1, PageKeeps
<1> QED BY <1>1, <1>2, <1>3, <1>4, <1>5, <1>6, <1>7, <1>8, <1>9, <1>10 DEF Next

LEMMA AlwaysIInv == Spec => []IInv
<1>1. Init => IInv
  BY InitKeeps
<1>2. IInv /\ [Next]_screenVars => IInv'
  BY NextKeeps
<1> QED BY <1>1, <1>2, PTL DEF Spec

----------------------------------------------------------------------------
(* What holds *)

(* Whatever is assigned, routed or edited while a page is put together,     *)
(* every variable keeps its type.                                           *)
THEOREM TypeCorrect == Spec => []TypeOK
<1>1. IInv => TypeOK
  BY DEF IInv
<1> QED BY <1>1, AlwaysIInv, PTL

(* No page tells an author to a reviewer who is in blind review all the     *)
(* while it is put together, but the queue and the scorecards of another,   *)
(* sighted round: whichever of the reads comes first, the page has read the *)
(* round to be blind, and the assignment in it, by when it decides          *)
(* (viewerRoundScoping, hidesSpeakerIdentity).                              *)
THEOREM BlindnessAlwaysHolds == Spec => []BlindnessHolds
<1>1. IInv => BlindnessHolds
  <2> SUFFICES ASSUME IInv, page.answer = "shown", page.blinded # {}
               PROVE  \/ page.authors = {}
                      \/ /\ page.kind \in {"queue", "scorecard"}
                         /\ page.round \notin {x[1] : x \in page.blinded}
    BY DEF BlindnessHolds
  <2>1. Tells(page)
    BY DEF IInv, Sees
  <2> QED BY <2>1 DEF Tells, OfPage
<1> QED BY <1>1, AlwaysIInv, PTL

(* Pages put together while nothing changed agree on what there is, what    *)
(* opens and what is owed, however requests to assign overlap with changes  *)
(* of tracks and routing: an assignment that is in none of the reviewer's   *)
(* tracks was moved there after it was checked (canAssignReviewer).         *)
THEOREM ScreensAlwaysAgree == Spec => []ScreensAgree
<1>1. IInv => ScreensAgree
  <2> SUFFICES ASSUME IInv, page.answer = "shown", page.calm
               PROVE  Agrees(page)
    BY DEF ScreensAgree, Agrees
  <2> QED BY DEF IInv, Sees, SeesNow
<1> QED BY <1>1, AlwaysIInv, PTL
----------------------------------------------------------------------------
(* Onboarding tasks *)

Assignment == [by : Organizers, work : Types \cup {None}, told : 0..1, late : BOOLEAN]
Reading == [task : Asked!Ids, work : Types \cup {None}]
Ordering ==
  [kind : {"create", "update", "all", "one", None},
   pc : {"idle", "duplicates", "create", "load", "lock", "update", "roster", "holders",
         "assign", "look", "mail", "done"},
   task : Asked!Ids \cup {None}, type : Types \cup {None},
   picks : SUBSET Speakers, missing : SUBSET Speakers, made : SUBSET Speakers,
   asked : SUBSET Speakers, whole : BOOLEAN]

(* A task has the id of the request that makes it; once that is past its    *)
(* creation the task can only go.                                           *)
Unborn == {"idle", "duplicates", "create"}
Giving == {"assign", "look", "mail"}
Born(t) == t \in Organizers => order[t].pc \notin Unborn

(* What a request knows: nobody is asked for or given anything before the   *)
(* roster is read, whoever is asked for holds the task or is still missing, *)
(* the rows it made are its own and nobody was told, and a change of what   *)
(* a task asks for has met no row but those that came late.                 *)
Remembers(r, q) ==
  /\ q.pc # "idle" => q.task \in Asked!Ids /\ (q.task # r => Born(q.task))
  /\ q.pc \in {"duplicates", "create"} => q.task = r
  /\ q.pc \notin Giving => q.made = {}
  /\ q.pc \notin Giving \cup {"done"} => q.missing = q.asked
  /\ q.pc \in Unborn \cup {"lock", "update", "roster"} \/ (q.pc = "load" /\ q.kind # "one") =>
       q.asked = {}
  /\ q.pc \in Giving \cup {"done"} /\ q.whole /\ task[q.task] # None =>
       q.asked \subseteq Asked!Holders(q.task) \cup (IF q.pc = "assign" THEN q.missing ELSE {})
  /\ \A s \in q.made :
       /\ task[q.task] # None => given[q.task][s] # None
       /\ given[q.task][s] # None => given[q.task][s].by = r /\ given[q.task][s].told = 0
  /\ q.pc = "update" => \A s \in Asked!Holders(q.task) : given[q.task][s].late \/ task[q.task] = q.type

(* Whoever was not told will be, or the request that gave them broke off.   *)
ToTell(t, s, q) == \/ q.pc \in Giving /\ q.task = t /\ s \in q.made
                   \/ q.pc = "done" /\ ~q.whole
RowsFit ==
  \A t \in Asked!Ids, s \in Speakers : given[t][s] # None =>
    /\ Born(t)
    /\ given[t][s].told = 0 => ToTell(t, s, order[given[t][s].by])
    /\ given[t][s].work # None /\ ~given[t][s].late => given[t][s].work = task[t]

(* What a speaker's completion has read is so still of a row not late.      *)
PageFits(s, t, work) ==
  /\ Born(t)
  /\ task[t] # None => given[t][s] # None
  /\ given[t][s] # None /\ ~given[t][s].late => work = task[t]
PortalFits == \A s \in Speakers : portal[s] # None => PageFits(s, portal[s].task, portal[s].work)

TaskInv ==
  /\ Original \notin Organizers
  /\ task \in [Asked!Ids -> Types \cup {None}]
  /\ given \in [Asked!Ids -> [Speakers -> Assignment \cup {None}]]
  /\ portal \in [Speakers -> Reading \cup {None}]
  /\ order \in [Organizers -> Ordering]
  /\ \A t \in Asked!Ids : task[t] # None => Born(t)
  /\ \A r \in Organizers : Remembers(r, order[r])
  /\ RowsFit /\ PortalFits

(* None is neither a row nor what a page has read. *)
NoneApart == None \notin Assignment /\ None \notin Reading

LEMMA IdleOrder ==
  /\ Asked!Idle \in Ordering /\ Asked!Idle.pc = "idle" /\ Asked!Idle.made = {} /\ Asked!Idle.asked = {}
  /\ Asked!Idle.missing = {}
  BY DEF Asked!Idle, Ordering

LEMMA TasksInit == Asked!Init => TaskInv
<1> SUFFICES ASSUME Asked!Init PROVE TaskInv
  OBVIOUS
<1>1. \A r \in Organizers : order[r] = Asked!Idle
  BY DEF Asked!Init
<1>2. order \in [Organizers -> Ordering]
  BY IdleOrder DEF Asked!Init
<1>3. /\ given \in [Asked!Ids -> [Speakers -> Assignment \cup {None}]]
      /\ \A t \in Asked!Ids, s \in Speakers : given[t][s] = None
  BY DEF Asked!Init, Asked!Nobody
<1>4. portal \in [Speakers -> Reading \cup {None}] /\ \A s \in Speakers : portal[s] = None
  BY DEF Asked!Init, Asked!Nobody
<1>5. /\ Original \notin Organizers /\ task \in [Asked!Ids -> Types \cup {None}]
      /\ \A t \in Asked!Ids : task[t] # None => Born(t)
  BY DEF Asked!Init, Asked!Ids, Born
<1>6. \A r \in Organizers : Remembers(r, order[r])
  BY <1>1, IdleOrder DEF Remembers, Giving, Unborn
<1> QED BY <1>2, <1>3, <1>4, <1>5, <1>6 DEF TaskInv, RowsFit, PortalFits

LEMMA OrderFields ==
  ASSUME NEW q \in Ordering
  PROVE  /\ q.task \in Asked!Ids \cup {None} /\ q.type \in Types \cup {None}
         /\ q.picks \subseteq Speakers /\ q.missing \subseteq Speakers
         /\ q.made \subseteq Speakers /\ q.asked \subseteq Speakers
         /\ q.whole \in BOOLEAN
  BY DEF Ordering

(* A request's own memory changes: the tasks and their rows stay.           *)
LEMMA OrderMoves ==
  ASSUME TaskInv, NEW r \in Organizers, NEW q \in Ordering, order' = [order EXCEPT ![r] = q],
         UNCHANGED <<task, given, portal>>, Remembers(r, q),
         order[r].pc \in Unborn \/ q.pc \notin Unborn, order[r].pc # "done",
         \A s \in order[r].made : given[order[r].task][s] # None => ToTell(order[r].task, s, q)
  PROVE  TaskInv'
<1>1. /\ order' \in [Organizers -> Ordering] /\ order'[r] = q
      /\ \A o \in Organizers \ {r} : order'[o] = order[o]
  BY DEF TaskInv
<1>2. ASSUME NEW t, Born(t) PROVE Born(t)'
  BY <1>1, <1>2 DEF Born
<1>3. \A t : Asked!Holders(t)' = Asked!Holders(t)
  BY DEF Asked!Holders
<1>4. ASSUME NEW o \in Organizers PROVE Remembers(o, order[o])'
  <2>1. Remembers(o, order'[o])
    BY <1>1 DEF TaskInv
  <2>2. Born(order'[o].task) => Born(order[o].task)'
    BY <1>2
  <2> QED BY <1>3, <2>1, <2>2 DEF Remembers
<1>5. RowsFit'
  <2>0. \A t \in Asked!Ids, s \in Speakers : given[t][s] # None => Born(t)'
    BY <1>2 DEF TaskInv, RowsFit
  <2> SUFFICES ASSUME NEW t \in Asked!Ids, NEW s \in Speakers, given[t][s] # None, given[t][s].told = 0
               PROVE  ToTell(t, s, order'[given[t][s].by])
    BY <2>0 DEF TaskInv, RowsFit
  <2> DEFINE b == given[t][s].by
  <2>1. b \in Organizers
    BY DEF TaskInv, Assignment
  <2>2. ToTell(t, s, order[b])
    BY DEF TaskInv, RowsFit
  <2>3. CASE b # r
    BY <1>1, <2>1, <2>2, <2>3
  <2>4. CASE b = r
    BY <1>1, <2>2, <2>4 DEF ToTell
  <2> QED BY <2>3, <2>4
<1>6. PortalFits'
  <2> SUFFICES ASSUME NEW s \in Speakers, portal[s] # None PROVE Born(portal[s].task)'
    BY DEF TaskInv, PortalFits, PageFits
  <2>1. Born(portal[s].task)
    BY DEF TaskInv, PortalFits, PageFits
  <2> QED BY <1>2, <2>1
<1>7. \A t \in Asked!Ids : task'[t] # None => Born(t)'
  BY <1>2 DEF TaskInv
<1> QED BY <1>1, <1>4, <1>5, <1>6, <1>7 DEF TaskInv

LEMMA PagesRead ==
  ASSUME TaskInv, NEW s \in Speakers, portal[s] # None
  PROVE  /\ portal[s] \in Reading /\ portal[s].task \in Asked!Ids
         /\ PageFits(s, portal[s].task, portal[s].work)
  BY DEF TaskInv, PortalFits, Reading

LEMMA Ordered ==
  ASSUME TaskInv, NEW r \in Organizers
  PROVE  order[r] \in Ordering /\ Remembers(r, order[r])
  BY DEF TaskInv

(* A request that ends keeps only what it was asked. *)
LEMMA EndedOrder ==
  ASSUME NEW q \in Ordering
  PROVE  LET e == Asked!Ended(q) IN
         /\ e \in Ordering /\ e.pc = "done" /\ e.task = q.task /\ e.asked = q.asked /\ e.whole = q.whole
         /\ e.made = {}
  BY DEF Asked!Ended, Asked!Idle, Ordering

LEMMA OrderEnds ==
  ASSUME TaskInv, NEW r \in Organizers, NEW q \in Ordering, order' = [order EXCEPT ![r] = Asked!Ended(q)],
         UNCHANGED <<task, given, portal>>,
         q.task \in Asked!Ids, q.task # r => Born(q.task), order[r].pc # "done",
         q.whole /\ task[q.task] # None => q.asked \subseteq Asked!Holders(q.task),
         \A s \in order[r].made : given[order[r].task][s] # None => ~q.whole
  PROVE  TaskInv'
<1> DEFINE e == Asked!Ended(q)
<1>1. /\ e \in Ordering /\ e.pc = "done" /\ e.task = q.task /\ e.asked = q.asked /\ e.whole = q.whole
      /\ e.made = {}
  BY EndedOrder
<1> HIDE DEF e
<1>2. Remembers(r, e)
  BY <1>1 DEF Remembers, Giving, Unborn
<1>3. e.pc \notin Unborn
  BY <1>1 DEF Unborn
<1>4. \A s \in order[r].made : given[order[r].task][s] # None => ToTell(order[r].task, s, e)
  BY <1>1 DEF ToTell
<1> QED BY <1>1, <1>2, <1>3, <1>4, OrderMoves DEF e

(* An exception, or the worker stops. *)
LEMMA OrderFails ==
  ASSUME TaskInv, NEW r \in Organizers, order[r].pc \notin {"idle", "done"}, Asked!Fail(r),
         UNCHANGED <<task, given, portal>>
  PROVE  TaskInv'
<1> DEFINE q == [order[r] EXCEPT !.pc = "done", !.whole = FALSE]
<1>1. q \in Ordering /\ q.pc = "done" /\ ~q.whole /\ q.task = order[r].task
  BY Ordered, ZenonT(60) DEF Ordering
<1>2. order' = [order EXCEPT ![r] = Asked!Ended(q)]
  BY <1>1 DEF Asked!Fail, Asked!Set
<1> HIDE DEF q
<1>3. q.task \in Asked!Ids /\ (q.task # r => Born(q.task))
  BY <1>1, Ordered DEF Remembers
<1> QED BY <1>1, <1>2, <1>3, OrderEnds

LEMMA OrderStarts ==
  ASSUME TaskInv, NEW r \in Organizers, NEW q \in Ordering, Asked!Starts(r, q),
         q.pc \in {"duplicates", "create", "load", "roster"}, q.kind # "one" \/ q.pc = "roster",
         q.made = {}, q.missing = {}, q.asked = {},
         q.task \in Asked!Ids, q.pc \in {"duplicates", "create"} => q.task = r, q.task # r => Born(q.task)
  PROVE  TaskInv'
<1>1. order[r].pc = "idle" /\ order' = [order EXCEPT ![r] = q] /\ UNCHANGED <<task, given, portal>>
  BY DEF Asked!Starts, Asked!At, Asked!Set, Asked!theTasks, Asked!people
<1>2. Remembers(r, q)
  BY DEF Remembers, Giving, Unborn
<1>3. order[r].made = {}
  BY <1>1, Ordered DEF Remembers, Giving
<1> QED BY <1>1, <1>2, <1>3, OrderMoves DEF Unborn

LEMMA OrdersBegin ==
  ASSUME TaskInv, NEW r \in Organizers,
         \/ \E type \in Types, picks \in SUBSET Speakers :
              \/ \E again \in BOOLEAN : Asked!CreateTask(r, type, picks, again)
              \/ \E t \in Asked!Existing : Asked!UpdateTask(r, t, type, picks)
         \/ \E t \in Asked!Existing :
              Asked!AssignTaskToConfirmedSpeakers(r, t) \/ \E s \in Speakers : Asked!AssignTaskToSpeaker(r, t, s)
  PROVE  TaskInv'
<1>1. ASSUME NEW t \in Asked!Existing PROVE t \in Asked!Ids /\ Born(t)
  BY DEF TaskInv, Asked!Existing
<1>2. ASSUME NEW type \in Types, NEW picks \in SUBSET Speakers, NEW again \in BOOLEAN,
             Asked!CreateTask(r, type, picks, again)
      PROVE  TaskInv'
  <2> DEFINE q == [Asked!Idle EXCEPT !.kind = "create", !.task = r, !.type = type, !.picks = picks,
                                    !.pc = IF again THEN "create" ELSE "duplicates"]
  <2>1. q \in Ordering /\ q.pc \in {"duplicates", "create"} /\ q.kind = "create" /\ q.task = r
        /\ q.made = {} /\ q.missing = {} /\ q.asked = {}
    BY DEF Asked!Idle, Ordering, Asked!Ids
  <2>2. r \in Asked!Ids
    BY DEF Asked!Ids
  <2>3. Asked!Starts(r, q)
    BY <1>2 DEF Asked!CreateTask
  <2> HIDE DEF q
  <2> QED BY <2>1, <2>2, <2>3, OrderStarts
<1>3. ASSUME NEW type \in Types, NEW picks \in SUBSET Speakers, NEW t \in Asked!Existing,
             Asked!UpdateTask(r, t, type, picks)
      PROVE  TaskInv'
  <2> DEFINE q == [Asked!Idle EXCEPT !.kind = "update", !.pc = "load", !.task = t, !.type = type,
                                    !.picks = picks]
  <2>1. q \in Ordering /\ q.pc = "load" /\ q.kind = "update" /\ q.task = t
        /\ q.made = {} /\ q.missing = {} /\ q.asked = {}
    BY <1>1 DEF Asked!Idle, Ordering
  <2>2. Asked!Starts(r, q)
    BY <1>3 DEF Asked!UpdateTask
  <2> HIDE DEF q
  <2> QED BY <1>1, <2>1, <2>2, OrderStarts
<1>4. ASSUME NEW t \in Asked!Existing, Asked!AssignTaskToConfirmedSpeakers(r, t) PROVE TaskInv'
  <2> DEFINE q == [Asked!Idle EXCEPT !.kind = "all", !.pc = "load", !.task = t]
  <2>1. q \in Ordering /\ q.pc = "load" /\ q.kind = "all" /\ q.task = t
        /\ q.made = {} /\ q.missing = {} /\ q.asked = {}
    BY <1>1 DEF Asked!Idle, Ordering
  <2>2. Asked!Starts(r, q)
    BY <1>4 DEF Asked!AssignTaskToConfirmedSpeakers
  <2> HIDE DEF q
  <2> QED BY <1>1, <2>1, <2>2, OrderStarts
<1>5. ASSUME NEW t \in Asked!Existing, NEW s \in Speakers, Asked!AssignTaskToSpeaker(r, t, s) PROVE TaskInv'
  <2> DEFINE q == [Asked!Idle EXCEPT !.kind = "one", !.pc = "roster", !.task = t, !.picks = {s}]
  <2>1. q \in Ordering /\ q.pc = "roster" /\ q.task = t
        /\ q.made = {} /\ q.missing = {} /\ q.asked = {}
    BY <1>1 DEF Asked!Idle, Ordering
  <2>2. Asked!Starts(r, q)
    BY <1>5 DEF Asked!AssignTaskToSpeaker
  <2> HIDE DEF q
  <2> QED BY <1>1, <2>1, <2>2, OrderStarts
<1> QED BY <1>2, <1>3, <1>4, <1>5

(* The reads of a request, up to the rows it makes.                         *)
LEMMA OrderGoes ==
  ASSUME TaskInv, NEW r \in Organizers, NEW l \in {"create", "lock", "update", "roster", "holders", "done"},
         Asked!Goto(r, l), UNCHANGED <<task, given, portal>>,
         order[r].pc \in {"duplicates", "load", "lock"},
         l = "create" => order[r].pc = "duplicates",
         order[r].pc = "duplicates" => l \in {"create", "done"},
         order[r].pc = "load" /\ order[r].kind = "one" => l = "holders",
         l = "update" => \A s \in Asked!Holders(order[r].task) :
                           given[order[r].task][s].late \/ task[order[r].task] = order[r].type
  PROVE  TaskInv'
<1> DEFINE p == order[r]
           q == [p EXCEPT !.pc = l]
<1>1. /\ p \in Ordering /\ Remembers(r, p) /\ p.made = {} /\ p.missing = p.asked
      /\ p.task \in Asked!Ids /\ (p.task # r => Born(p.task))
      /\ ~(p.pc = "load" /\ p.kind = "one") => p.asked = {}
  BY Ordered DEF Remembers, Giving, Unborn
<1>2. /\ q \in Ordering /\ q.pc = l /\ q.task = p.task /\ q.kind = p.kind /\ q.type = p.type /\ q.made = {}
      /\ q.missing = p.missing /\ q.asked = p.asked /\ q.whole = p.whole
  BY <1>1 DEF Ordering
<1>3. order' = [order EXCEPT ![r] = IF l = "done" THEN Asked!Ended(q) ELSE q]
  BY <1>2 DEF Asked!Goto, Asked!Set
<1> HIDE DEF q
<1>4. CASE l = "done"
  <2>1. p.asked = {}
    BY <1>1, <1>4
  <2> QED BY <1>1, <1>2, <1>3, <1>4, <2>1, OrderEnds
<1>5. CASE l # "done"
  <2>1. Remembers(r, q)
    BY <1>1, <1>2, <1>5 DEF Remembers, Giving, Unborn
  <2> QED BY <1>1, <1>2, <1>3, <1>5, <2>1, OrderMoves DEF Unborn
<1> QED BY <1>4, <1>5

LEMMA OrderReads ==
  ASSUME TaskInv, NEW r \in Organizers, Asked!FindDuplicate(r) \/ Asked!Load(r) \/ Asked!Lock(r)
  PROVE  TaskInv'
<1> DEFINE q == order[r]
<1>0. UNCHANGED <<task, given, portal>>
  BY DEF Asked!FindDuplicate, Asked!Load, Asked!Lock, Asked!theTasks, Asked!people
<1>1. CASE Asked!FindDuplicate(r)
  <2>1. PICK l \in {"done", "create"} : Asked!Goto(r, l)
    BY <1>1 DEF Asked!FindDuplicate
  <2> QED BY <1>0, <1>1, <2>1, OrderGoes DEF Asked!FindDuplicate, Asked!At
<1>2. CASE Asked!Load(r)
  <2>1. q.pc = "load" /\ q \in Ordering
    BY <1>2, Ordered DEF Asked!Load, Asked!At
  <2>2. CASE task[q.task] = None
    <3>1. Asked!Fail(r)
      BY <1>2, <2>2 DEF Asked!Load
    <3> QED BY <1>0, <2>1, <3>1, OrderFails
  <2>3. CASE task[q.task] # None /\ q.kind = "update" /\ q.type # task[q.task]
    <3>1. Asked!Goto(r, "lock")
      BY <1>2, <2>3 DEF Asked!Load
    <3> QED BY <1>0, <2>1, <2>3, <3>1, OrderGoes
  <2>4. CASE task[q.task] # None /\ q.kind = "update" /\ q.type = task[q.task]
    <3>1. Asked!Goto(r, "update")
      BY <1>2, <2>4 DEF Asked!Load
    <3> QED BY <1>0, <2>1, <2>4, <3>1, OrderGoes
  <2>5. CASE task[q.task] # None /\ q.kind = "all"
    <3>1. Asked!Goto(r, "roster")
      BY <1>2, <2>5 DEF Asked!Load
    <3> QED BY <1>0, <2>1, <2>5, <3>1, OrderGoes
  <2>6. CASE task[q.task] # None /\ q.kind \notin {"update", "all"}
    <3>1. Asked!Goto(r, "holders")
      BY <1>2, <2>6 DEF Asked!Load
    <3> QED BY <1>0, <2>1, <2>6, <3>1, OrderGoes
  <2> QED BY <2>2, <2>3, <2>4, <2>5, <2>6
<1>3. CASE Asked!Lock(r)
  <2>1. q.pc = "lock"
    BY <1>3 DEF Asked!Lock, Asked!At
  <2>2. CASE Asked!Holders(q.task) # {}
    <3>1. Asked!Goto(r, "done")
      BY <1>3, <2>2 DEF Asked!Lock
    <3> QED BY <1>0, <2>1, <3>1, OrderGoes
  <2>3. CASE Asked!Holders(q.task) = {}
    <3>1. Asked!Goto(r, "update")
      BY <1>3, <2>3 DEF Asked!Lock
    <3> QED BY <1>0, <2>1, <2>3, <3>1, OrderGoes
  <2> QED BY <2>2, <2>3
<1> QED BY <1>1, <1>2, <1>3

LEMMA RosterIsRead == ASSUME TaskInv, NEW r \in Organizers, Asked!ReadRoster(r) PROVE TaskInv'
<1> DEFINE p == order[r]
           meant == IF p.kind = "all" THEN Asked!Confirmed ELSE p.picks \cap Asked!Roster
           l == IF meant = {} THEN "done" ELSE IF p.kind = "one" THEN "load" ELSE "holders"
           q == [p EXCEPT !.missing = meant, !.asked = meant, !.pc = l]
<1>1. /\ p.pc = "roster" /\ UNCHANGED <<task, given, portal>> /\ Asked!Set(r, q)
      /\ p \in Ordering /\ p.made = {} /\ p.task \in Asked!Ids /\ (p.task # r => Born(p.task))
  BY Ordered DEF Asked!ReadRoster, Asked!At, Asked!theTasks, Asked!people, Remembers, Giving
<1>2. meant \in SUBSET Speakers
  BY DEF Asked!Confirmed, Asked!Roster
<1> HIDE DEF meant
<1>3. l \in {"done", "load", "holders"} /\ (l = "done" => meant = {}) /\ (l = "load" => p.kind = "one")
  OBVIOUS
<1> HIDE DEF l
<1>4. /\ q \in Ordering /\ q.pc = l /\ q.task = p.task /\ q.kind = p.kind /\ q.made = {}
      /\ q.missing = meant /\ q.asked = meant /\ q.whole = p.whole
  BY <1>1, <1>2, <1>3 DEF Ordering
<1> HIDE DEF q
<1>5. order' = [order EXCEPT ![r] = IF l = "done" THEN Asked!Ended(q) ELSE q]
  BY <1>1, <1>4 DEF Asked!Set
<1>6. CASE l = "done"
  BY <1>1, <1>3, <1>4, <1>5, <1>6, OrderEnds
<1>7. CASE l # "done"
  <2>1. Remembers(r, q)
    BY <1>1, <1>3, <1>4, <1>7 DEF Remembers, Giving, Unborn
  <2> QED BY <1>1, <1>3, <1>4, <1>5, <1>7, <2>1, OrderMoves DEF Unborn
<1> QED BY <1>6, <1>7

LEMMA HoldersAreRead == ASSUME TaskInv, NEW r \in Organizers, Asked!ReadHolders(r) PROVE TaskInv'
<1> DEFINE p == order[r]
           missing == Asked!Plan(p)
           l == IF missing = {} THEN "done" ELSE "assign"
           q == [p EXCEPT !.missing = missing, !.pc = l]
<1>1. /\ p.pc = "holders" /\ UNCHANGED <<task, given, portal>> /\ Asked!Set(r, q)
      /\ p \in Ordering /\ p.made = {} /\ p.missing = p.asked /\ p.task \in Asked!Ids
      /\ (p.task # r => Born(p.task))
  BY Ordered DEF Asked!ReadHolders, Asked!At, Asked!theTasks, Asked!people, Remembers, Giving
<1>2. missing = p.asked \ Asked!Holders(p.task) /\ missing \in SUBSET Speakers
  BY <1>1, OrderFields DEF Asked!Plan
<1> HIDE DEF missing
<1>3. l \in {"done", "assign"} /\ (l = "done" => missing = {})
  OBVIOUS
<1> HIDE DEF l
<1>4. /\ q \in Ordering /\ q.pc = l /\ q.task = p.task /\ q.kind = p.kind /\ q.made = {}
      /\ q.missing = missing /\ q.asked = p.asked /\ q.whole = p.whole
  BY <1>1, <1>2, <1>3 DEF Ordering
<1> HIDE DEF q
<1>5. order' = [order EXCEPT ![r] = IF l = "done" THEN Asked!Ended(q) ELSE q]
  BY <1>1, <1>4 DEF Asked!Set
<1>6. CASE l = "done"
  BY <1>1, <1>2, <1>3, <1>4, <1>5, <1>6, OrderEnds
<1>7. CASE l # "done"
  <2>1. Remembers(r, q)
    BY <1>1, <1>2, <1>3, <1>4, <1>7 DEF Remembers, Giving, Unborn
  <2> QED BY <1>1, <1>3, <1>4, <1>5, <1>7, <2>1, OrderMoves DEF Unborn
<1> QED BY <1>6, <1>7

LEMMA NewsAreRead == ASSUME TaskInv, NEW r \in Organizers, Asked!Look(r) PROVE TaskInv'
<1> DEFINE p == order[r]
           there == p.made \cap Asked!Holders(p.task)
           l == IF there = {} THEN "done" ELSE "mail"
           q == [p EXCEPT !.made = there, !.pc = l]
<1>1. /\ p.pc = "look" /\ UNCHANGED <<task, given, portal>> /\ Asked!Set(r, q)
      /\ p \in Ordering /\ p.task \in Asked!Ids /\ (p.task # r => Born(p.task)) /\ Remembers(r, p)
  BY Ordered DEF Asked!Look, Asked!News, Asked!At, Asked!theTasks, Asked!people, Remembers
<1>2. there \in SUBSET Speakers /\ there \subseteq p.made /\ p.made \subseteq Speakers
  BY <1>1, OrderFields
<1>3. \A s \in p.made : given[p.task][s] # None => s \in there
  BY <1>2 DEF Asked!Holders
<1> HIDE DEF there
<1>4. l \in {"done", "mail"} /\ (l = "done" => there = {})
  OBVIOUS
<1> HIDE DEF l
<1>5. /\ q \in Ordering /\ q.pc = l /\ q.task = p.task /\ q.kind = p.kind /\ q.made = there
      /\ q.missing = p.missing /\ q.asked = p.asked /\ q.whole = p.whole
  BY <1>1, <1>2, <1>4 DEF Ordering
<1> HIDE DEF q
<1>6. order' = [order EXCEPT ![r] = IF l = "done" THEN Asked!Ended(q) ELSE q]
  BY <1>1, <1>5 DEF Asked!Set
<1>7. p.whole /\ task[p.task] # None => p.asked \subseteq Asked!Holders(p.task)
  BY <1>1 DEF Remembers, Giving
<1>8. CASE l = "done"
  BY <1>1, <1>3, <1>4, <1>5, <1>6, <1>7, <1>8, OrderEnds
<1>9. CASE l # "done"
  <2>1. Remembers(r, q)
    BY <1>1, <1>2, <1>4, <1>5, <1>7, <1>9 DEF Remembers, Giving, Unborn
  <2>2. \A s \in p.made : given[p.task][s] # None => ToTell(p.task, s, q)
    BY <1>3, <1>4, <1>5, <1>9 DEF ToTell, Giving
  <2> QED BY <1>1, <1>4, <1>5, <1>6, <1>9, <2>1, <2>2, OrderMoves DEF Unborn
<1> QED BY <1>8, <1>9

(* Where a request goes after the task is saved                             *)
LEMMA Saved ==
  ASSUME TaskInv, NEW r \in Organizers, order[r].pc \in {"create", "update"},
         Asked!Goto(r, Asked!AfterSave(order[r]))
  PROVE  /\ order' \in [Organizers -> Ordering] /\ order'[r].task = order[r].task /\ order'[r].made = {}
         /\ order'[r].asked = {} /\ order'[r].pc \in {"done", "roster"}
         /\ (order'[r].pc = "roster" => order'[r].missing = {})
         /\ \A o \in Organizers \ {r} : order'[o] = order[o]
         /\ order[r].made = {}
<1> DEFINE p == order[r]
           l == Asked!AfterSave(p)
           q == [p EXCEPT !.pc = l]
<1>1. p \in Ordering /\ p.made = {} /\ p.asked = {} /\ p.missing = {}
  BY Ordered DEF Remembers, Giving, Unborn
<1>2. l \in {"done", "roster"}
  BY DEF Asked!AfterSave
<1> HIDE DEF l
<1>3. q \in Ordering /\ q.pc = l /\ q.task = p.task /\ q.made = {} /\ q.asked = {} /\ q.missing = {}
  BY <1>1, <1>2 DEF Ordering
<1> HIDE DEF q
<1>4. order' = [order EXCEPT ![r] = IF l = "done" THEN Asked!Ended(q) ELSE q]
  BY <1>3 DEF Asked!Goto, Asked!Set, l, q
<1>5. CASE l = "done"
  <2>1. order' = [order EXCEPT ![r] = Asked!Ended(q)]
    BY <1>4, <1>5
  <2> QED BY <1>1, <1>3, <2>1, EndedOrder DEF TaskInv
<1>6. CASE l # "done"
  <2>1. order' = [order EXCEPT ![r] = q]
    BY <1>4, <1>6
  <2> QED BY <1>1, <1>2, <1>3, <2>1 DEF TaskInv
<1> QED BY <1>5, <1>6

LEMMA TaskIsMade == ASSUME TaskInv, NEW r \in Organizers, Asked!Create(r) PROVE TaskInv'
<1>1. /\ order[r].pc = "create" /\ order[r].task = r /\ UNCHANGED <<given, portal>>
      /\ task' = [task EXCEPT ![r] = order[r].type] /\ Asked!Goto(r, Asked!AfterSave(order[r]))
      /\ order[r] \in Ordering /\ r \in Asked!Ids
  BY Ordered DEF Asked!Create, Asked!At, Asked!people, Remembers, Asked!Ids
<1>2. /\ order' \in [Organizers -> Ordering] /\ order'[r].task = r /\ order'[r].made = {}
      /\ order'[r].asked = {} /\ order'[r].pc \in {"done", "roster"}
      /\ (order'[r].pc = "roster" => order'[r].missing = {})
      /\ \A o \in Organizers \ {r} : order'[o] = order[o]
  BY <1>1, Saved
<1>3. ~Born(r) /\ Born(r)'
  BY <1>1, <1>2 DEF Born, Unborn
<1>4. \A t : Born(t) => Born(t)'
  BY <1>2, <1>3 DEF Born
<1>5. /\ task' \in [Asked!Ids -> Types \cup {None}]
      /\ \A t \in Asked!Ids : t # r => task'[t] = task[t]
  BY <1>1, OrderFields DEF TaskInv
<1>6. ASSUME NEW o \in Organizers PROVE Remembers(o, order[o])'
  <2>1. CASE o = r
    BY <1>2, <2>1, <1>1 DEF Remembers, Giving, Unborn
  <2>2. CASE o # r
    <3>1. Remembers(o, order[o]) /\ order'[o] = order[o]
      BY <1>2, <2>2, Ordered
    <3>2. order[o].pc # "idle" =>
            /\ order[o].task \in Asked!Ids /\ order[o].task # r
            /\ (order[o].task # o => Born(order[o].task)')
      BY <1>3, <1>4, <2>2, <3>1 DEF Remembers
    <3>3. order[o].pc # "idle" => task'[order[o].task] = task[order[o].task]
      BY <1>5, <3>2
    <3>4. order[o].pc = "idle" => order[o].made = {}
      BY <3>1 DEF Remembers, Giving
    <3> QED BY <1>1, <3>1, <3>2, <3>3, <3>4 DEF Remembers, Giving, Unborn, Asked!Holders
  <2> QED BY <2>1, <2>2
<1>7. RowsFit'
  <2> SUFFICES ASSUME NEW t \in Asked!Ids, NEW s \in Speakers, given[t][s] # None
               PROVE  /\ Born(t)'
                      /\ given[t][s].told = 0 => ToTell(t, s, order'[given[t][s].by])
                      /\ given[t][s].work # None /\ ~given[t][s].late => given[t][s].work = task'[t]
    BY <1>1 DEF RowsFit
  <2>1. /\ Born(t) /\ given[t][s].by \in Organizers
        /\ given[t][s].told = 0 => ToTell(t, s, order[given[t][s].by])
        /\ given[t][s].work # None /\ ~given[t][s].late => given[t][s].work = task[t]
    BY DEF TaskInv, RowsFit, Assignment
  <2>2. t # r
    BY <1>3, <2>1
  <2>3. given[t][s].told = 0 => given[t][s].by # r
    BY <1>1, <2>1 DEF ToTell, Giving
  <2> QED BY <1>2, <1>4, <1>5, <2>1, <2>2, <2>3
<1>8. PortalFits'
  <2> SUFFICES ASSUME NEW s \in Speakers, portal[s] # None
               PROVE  PageFits(s, portal[s].task, portal[s].work)'
    BY <1>1 DEF PortalFits
  <2>0. PICK t : t = portal[s].task
    OBVIOUS
  <2>1. t \in Asked!Ids /\ PageFits(s, t, portal[s].work)
    BY <2>0, PagesRead
  <2>2. t # r
    BY <1>3, <2>1 DEF PageFits
  <2>3. task'[t] = task[t] /\ Born(t)'
    BY <1>4, <1>5, <2>1, <2>2 DEF PageFits
  <2> QED BY <1>1, <2>0, <2>1, <2>3 DEF PageFits
<1>9. \A t \in Asked!Ids : task'[t] # None => Born(t)'
  BY <1>3, <1>4, <1>5 DEF TaskInv
<1> QED BY <1>1, <1>2, <1>5, <1>6, <1>7, <1>8, <1>9 DEF TaskInv

LEMMA TaskIsChanged == ASSUME TaskInv, NEW r \in Organizers, Asked!Update(r) PROVE TaskInv'
<1> DEFINE p == order[r]
<1>0. PICK w : w = p.task
  OBVIOUS
<1>1. p.pc = "update" /\ UNCHANGED <<given, portal>> /\ Remembers(r, p) /\ w \in Asked!Ids /\ p \in Ordering
  BY <1>0, Ordered DEF Asked!Update, Asked!At, Asked!people, Remembers
<1>2. CASE task[w] = None
  <2>1. Asked!Fail(r) /\ task' = task
    BY <1>0, <1>2 DEF Asked!Update
  <2> QED BY <1>1, <2>1, OrderFails
<1>3. CASE task[w] # None
  <2>1. task' = [task EXCEPT ![w] = p.type] /\ Asked!Goto(r, Asked!AfterSave(p))
    BY <1>0, <1>3 DEF Asked!Update
  <2>2. /\ order' \in [Organizers -> Ordering] /\ order'[r].task = w /\ order'[r].made = {}
        /\ order'[r].asked = {} /\ order'[r].pc \in {"done", "roster"}
        /\ (order'[r].pc = "roster" => order'[r].missing = {})
        /\ \A o \in Organizers \ {r} : order'[o] = order[o]
    BY <1>0, <1>1, <2>1, Saved
  <2>3. \A t : Born(t) => Born(t)'
    BY <2>2 DEF Born, Unborn
  <2>4. /\ task' \in [Asked!Ids -> Types \cup {None}]
        /\ \A t \in Asked!Ids : t # w => task'[t] = task[t]
        /\ \A t \in Asked!Ids : task'[t] # None => task[t] # None
        /\ \A s \in Asked!Holders(w) : given[w][s].late \/ task'[w] = task[w]
        /\ task'[w] = p.type
    BY <1>0, <1>1, <1>3, <2>1, OrderFields DEF TaskInv, Remembers
  <2>5. ASSUME NEW o \in Organizers PROVE Remembers(o, order[o])'
    <3>1. CASE o = r
      <4>1. w # r => Born(w)
        BY <1>0, <1>1 DEF Remembers
      <4>2. w # r => Born(w)'
        BY <2>3, <4>1
      <4> QED BY <1>1, <2>2, <3>1, <4>2 DEF Remembers, Giving, Unborn
    <3>2. CASE o # r
      <4> DEFINE q == order[o]
      <4>1. Remembers(o, q) /\ order'[o] = q
        BY <2>2, <3>2, Ordered
      <4>2. q.pc # "idle" => q.task \in Asked!Ids /\ (q.task # o => Born(q.task)')
        BY <2>3, <4>1 DEF Remembers
      <4>3. q.pc = "idle" => q.made = {}
        BY <4>1 DEF Remembers, Giving
      <4>4. q.pc # "idle" /\ task'[q.task] # None => task[q.task] # None
        BY <2>4, <4>2
      <4>5. q.pc = "update" => \A s \in Asked!Holders(q.task) : given[q.task][s].late \/ task'[q.task] = q.type
        BY <2>4, <4>1, <4>2 DEF Remembers
      <4>6. \A t : Asked!Holders(t)' = Asked!Holders(t)
        BY <1>1 DEF Asked!Holders
      <4> HIDE DEF q
      <4> QED BY <1>1, <4>1, <4>2, <4>3, <4>4, <4>5, <4>6 DEF Remembers, Giving, Unborn, q
    <3> QED BY <3>1, <3>2
  <2>6. RowsFit'
    <3> SUFFICES ASSUME NEW t \in Asked!Ids, NEW s \in Speakers, given[t][s] # None
                 PROVE  /\ Born(t)'
                        /\ given[t][s].told = 0 => ToTell(t, s, order'[given[t][s].by])
                        /\ given[t][s].work # None /\ ~given[t][s].late => given[t][s].work = task'[t]
      BY <1>1 DEF RowsFit
    <3>1. /\ Born(t) /\ given[t][s].by \in Organizers
          /\ given[t][s].told = 0 => ToTell(t, s, order[given[t][s].by])
          /\ given[t][s].work # None /\ ~given[t][s].late => given[t][s].work = task[t]
      BY DEF TaskInv, RowsFit, Assignment
    <3>2. given[t][s].told = 0 => given[t][s].by # r
      BY <1>1, <3>1 DEF ToTell, Giving
    <3>3. given[t][s].late \/ task'[t] = task[t]
      BY <2>4 DEF Asked!Holders
    <3> QED BY <2>2, <2>3, <3>1, <3>2, <3>3
  <2>7. PortalFits'
    <3> SUFFICES ASSUME NEW s \in Speakers, portal[s] # None
                 PROVE  PageFits(s, portal[s].task, portal[s].work)'
      BY <1>1 DEF PortalFits
    <3>0. PICK t : t = portal[s].task
      OBVIOUS
    <3>1. t \in Asked!Ids /\ PageFits(s, t, portal[s].work)
      BY <3>0, PagesRead
    <3>2. given[t][s] # None => given[t][s].late \/ task'[t] = task[t]
      BY <2>4, <3>1 DEF Asked!Holders
    <3>3. Born(t)' /\ (task'[t] # None => task[t] # None)
      BY <2>3, <2>4, <3>1 DEF PageFits
    <3> QED BY <1>1, <3>0, <3>1, <3>2, <3>3 DEF PageFits
  <2>8. \A t \in Asked!Ids : task'[t] # None => Born(t)'
    BY <2>3, <2>4 DEF TaskInv
  <2> QED BY <1>1, <2>2, <2>4, <2>5, <2>6, <2>7, <2>8 DEF TaskInv
<1> QED BY <1>2, <1>3

(* One row is written: the others stay.                                     *)
LEMMA RowWritten ==
  ASSUME TaskInv, NEW t \in Asked!Ids, NEW s \in Speakers, NEW row \in Assignment \cup {None},
         given' = [given EXCEPT ![t][s] = row]
  PROVE  /\ given' \in [Asked!Ids -> [Speakers -> Assignment \cup {None}]]
         /\ given'[t][s] = row
         /\ \A u \in Asked!Ids, x \in Speakers : u # t \/ x # s => given'[u][x] = given[u][x]
  BY DEF TaskInv

LEMMA RowFields ==
  ASSUME TaskInv, NEW t \in Asked!Ids, NEW s \in Speakers, given[t][s] # None
  PROVE  /\ given[t][s] \in Assignment /\ given[t][s].by \in Organizers /\ given[t][s].late \in BOOLEAN
         /\ given[t][s].work \in Types \cup {None} /\ given[t][s].told \in 0..1
         /\ Born(t)
         /\ given[t][s].told = 0 => ToTell(t, s, order[given[t][s].by])
         /\ given[t][s].work # None /\ ~given[t][s].late => given[t][s].work = task[t]
  BY DEF TaskInv, RowsFit, Assignment

(* A row is made: nobody held the task in that place, so no completion has  *)
(* read it and no request has made it.                                      *)
LEMMA TaskIsGiven ==
  ASSUME NoneApart, TaskInv, NEW r \in Organizers, NEW s \in Speakers, Asked!Assign(r, s)
  PROVE  TaskInv'
<1> DEFINE p == order[r]
<1>0. PICK t : t = p.task
  OBVIOUS
<1>1. /\ p.pc = "assign" /\ s \in p.missing /\ UNCHANGED <<task, portal>> /\ Remembers(r, p)
      /\ t \in Asked!Ids /\ p \in Ordering /\ Born(t) /\ r \in Asked!Ids
  <2>1. t # r => Born(t)
    BY <1>0, Ordered DEF Asked!Assign, Asked!At, Remembers
  <2>2. p.pc = "assign"
    BY DEF Asked!Assign, Asked!At
  <2>3. Born(r)
    BY <2>2 DEF Born, Unborn
  <2> QED BY <1>0, <2>1, <2>2, <2>3, Ordered DEF Asked!Assign, Asked!At, Asked!people, Remembers, Asked!Ids
<1>2. CASE task[t] = None \/ s \in Asked!Holders(t)
  <2>1. Asked!Fail(r) /\ given' = given
    BY <1>0, <1>2 DEF Asked!Assign
  <2> QED BY <1>1, <2>1, OrderFails
<1>3. CASE ~(task[t] = None \/ s \in Asked!Holders(t))
  <2>0. PICK late \in BOOLEAN : late = Asked!Changing(t)
    BY DEF Asked!Changing
  <2> DEFINE row == [by |-> r, work |-> None, told |-> 0, late |-> late]
             l == IF p.missing = {s} THEN "look" ELSE "assign"
             q == [p EXCEPT !.missing = p.missing \ {s}, !.made = p.made \cup {s}, !.pc = l]
  <2>1. given' = [given EXCEPT ![t][s] = row] /\ Asked!Set(r, q)
    BY <1>0, <1>3, <2>0 DEF Asked!Assign
  <2>2. row \in Assignment /\ row.by = r /\ row.work = None /\ row.told = 0 /\ row.late = late /\ row # None
    BY DEF Assignment, NoneApart
  <2> HIDE DEF row
  <2>3. given[t][s] = None /\ task[t] # None
    BY <1>3 DEF Asked!Holders
  <2>4. /\ given' \in [Asked!Ids -> [Speakers -> Assignment \cup {None}]]
        /\ given'[t][s] = row
        /\ \A u \in Asked!Ids, x \in Speakers : u # t \/ x # s => given'[u][x] = given[u][x]
    BY <1>1, <2>1, <2>2, RowWritten, ZenonT(60)
  <2>5. \A u \in Asked!Ids : Asked!Holders(u)' = Asked!Holders(u) \cup (IF u = t THEN {s} ELSE {})
    BY <2>2, <2>4 DEF Asked!Holders
  <2>6. l \in {"look", "assign"} /\ (l = "look" => p.missing = {s})
    OBVIOUS
  <2> HIDE DEF l
  <2>7. /\ q \in Ordering /\ q.pc = l /\ q.task = t /\ q.kind = p.kind /\ q.made = p.made \cup {s}
        /\ q.missing = p.missing \ {s} /\ q.asked = p.asked /\ q.whole = p.whole
    BY <1>0, <1>1, <2>6 DEF Ordering
  <2> HIDE DEF q
  <2>8. /\ order' \in [Organizers -> Ordering] /\ order'[r] = q
        /\ \A o \in Organizers \ {r} : order'[o] = order[o]
    BY <2>1, <2>6, <2>7 DEF Asked!Set, TaskInv
  <2>9. \A u : Born(u)' <=> Born(u)
    BY <1>1, <2>6, <2>7, <2>8 DEF Born, Unborn
  <2>10. ASSUME NEW o \in Organizers PROVE Remembers(o, order[o])'
    <3>1. CASE o = r
      <4>1. p.whole => p.asked \subseteq Asked!Holders(t)' \cup (IF l = "assign" THEN p.missing \ {s} ELSE {})
        <5>1. p.whole => p.asked \subseteq Asked!Holders(t) \cup p.missing
          BY <1>0, <1>1, <2>3 DEF Remembers, Giving
        <5> QED BY <1>1, <2>5, <2>6, <5>1
      <4>2. \A x \in p.made : given[t][x] # None /\ given[t][x].by = r /\ given[t][x].told = 0 /\ x \in Speakers
        BY <1>0, <1>1, <2>3, OrderFields DEF Remembers
      <4>3. \A x \in q.made : given'[t][x] # None /\ given'[t][x].by = r /\ given'[t][x].told = 0
        BY <1>1, <2>2, <2>3, <2>4, <2>7, <4>2
      <4>4. t # r => Born(t)'
        BY <1>1, <2>9
      <4> QED BY <1>1, <2>6, <2>7, <2>8, <3>1, <4>1, <4>3, <4>4 DEF Remembers, Giving, Unborn
    <3>2. CASE o # r
      <4>0. PICK b : b = order[o]
        OBVIOUS
      <4>1. b \in Ordering /\ Remembers(o, b) /\ order'[o] = b
        BY <2>8, <3>2, <4>0, Ordered
      <4>2. b.pc # "idle" => b.task \in Asked!Ids /\ (b.task # o => Born(b.task)')
        BY <2>9, <4>1 DEF Remembers
      <4>3. b.pc = "idle" => b.made = {}
        BY <4>1 DEF Remembers, Giving
      <4>4. \A x \in b.made : b.task # t \/ x # s
        BY <2>3, <4>1 DEF Remembers
      <4>5. \A x \in b.made : given'[b.task][x] = given[b.task][x]
        BY <2>4, <4>1, <4>2, <4>3, <4>4, OrderFields
      <4>6. ASSUME b.pc = "update", NEW x \in Asked!Holders(b.task)'
            PROVE  given'[b.task][x].late \/ task[b.task] = b.type
        <5>1. CASE b.task = t /\ x = s
          <6>1. b.type # task[t] => late
            BY <2>0, <4>0, <4>6, <5>1 DEF Asked!Changing, Asked!At
          <6> QED BY <2>2, <2>4, <5>1, <6>1
        <5>2. CASE ~(b.task = t /\ x = s)
          <6>1. x \in Asked!Holders(b.task) /\ x \in Speakers
            BY <2>5, <4>2, <4>6, <5>2 DEF Asked!Holders
          <6> QED BY <2>4, <4>1, <4>2, <4>6, <5>2, <6>1 DEF Remembers
        <5> QED BY <5>1, <5>2
      <4>7. b.pc # "idle" => Asked!Holders(b.task) \subseteq Asked!Holders(b.task)'
        BY <2>5, <4>2
      <4> QED BY <1>1, <4>1, <4>2, <4>3, <4>5, <4>6, <4>7 DEF Remembers, Giving, Unborn
    <3> QED BY <3>1, <3>2
  <2>11. RowsFit'
    <3> SUFFICES ASSUME NEW u \in Asked!Ids, NEW x \in Speakers, given'[u][x] # None
                 PROVE  /\ Born(u)'
                        /\ given'[u][x].told = 0 => ToTell(u, x, order'[given'[u][x].by])
                        /\ given'[u][x].work # None /\ ~given'[u][x].late => given'[u][x].work = task[u]
      BY <1>1 DEF RowsFit
    <3>1. CASE u = t /\ x = s
      <4>1. ToTell(t, s, q)
        BY <2>6, <2>7 DEF ToTell, Giving
      <4> QED BY <1>1, <2>2, <2>4, <2>8, <2>9, <3>1, <4>1
    <3>2. CASE ~(u = t /\ x = s)
      <4>1. given'[u][x] = given[u][x]
        BY <2>4, <3>2
      <4>2. given[u][x].told = 0 /\ given[u][x].by = r => ToTell(u, x, q)
        <5>1. given[u][x].told = 0 /\ given[u][x].by = r => ToTell(u, x, p)
          BY <4>1, RowFields
        <5> QED BY <1>0, <1>1, <2>6, <2>7, <5>1 DEF ToTell, Giving
      <4> QED BY <2>8, <2>9, <4>1, <4>2, RowFields
    <3> QED BY <3>1, <3>2
  <2>12. PortalFits'
    <3> SUFFICES ASSUME NEW x \in Speakers, portal[x] # None
                 PROVE  PageFits(x, portal[x].task, portal[x].work)'
      BY <1>1 DEF PortalFits
    <3>0. PICK u : u = portal[x].task
      OBVIOUS
    <3>1. u \in Asked!Ids /\ PageFits(x, u, portal[x].work)
      BY <3>0, PagesRead
    <3>2. u # t \/ x # s
      BY <2>3, <3>1 DEF PageFits
    <3> QED BY <1>1, <2>4, <2>9, <3>0, <3>1, <3>2 DEF PageFits
  <2>13. \A u \in Asked!Ids : task'[u] # None => Born(u)'
    BY <1>1, <2>9 DEF TaskInv
  <2> QED BY <1>1, <2>4, <2>8, <2>10, <2>11, <2>12, <2>13 DEF TaskInv
<1> QED BY <1>2, <1>3

(* A row that is there changes in what was told or done: whoever holds the  *)
(* task holds it still.                                                     *)
LEMMA RowKept ==
  ASSUME NoneApart, TaskInv, NEW t \in Asked!Ids, NEW s \in Speakers, given[t][s] # None,
         NEW row \in Assignment, row.by = given[t][s].by, row.late = given[t][s].late,
         given' = [given EXCEPT ![t][s] = row]
  PROVE  /\ given' \in [Asked!Ids -> [Speakers -> Assignment \cup {None}]]
         /\ given'[t][s] = row /\ row # None
         /\ \A u \in Asked!Ids, x \in Speakers : u # t \/ x # s => given'[u][x] = given[u][x]
         /\ \A u \in Asked!Ids, x \in Speakers : given'[u][x] # None <=> given[u][x] # None
         /\ \A u \in Asked!Ids, x \in Speakers : given[u][x] # None =>
              given'[u][x].by = given[u][x].by /\ given'[u][x].late = given[u][x].late
<1>1. row # None
  BY DEF NoneApart
<1>2. /\ given' \in [Asked!Ids -> [Speakers -> Assignment \cup {None}]]
      /\ given'[t][s] = row
      /\ \A u \in Asked!Ids, x \in Speakers : u # t \/ x # s => given'[u][x] = given[u][x]
  <2>1. row \in Assignment \cup {None}
    OBVIOUS
  <2> QED BY <2>1 DEF TaskInv
<1>3. \A u \in Asked!Ids, x \in Speakers : given'[u][x] # None <=> given[u][x] # None
  BY <1>1, <1>2
<1> QED BY <1>1, <1>2, <1>3

LEMMA HoldersKept ==
  ASSUME \A u \in Asked!Ids, x \in Speakers : given'[u][x] # None <=> given[u][x] # None
  PROVE  \A u \in Asked!Ids : Asked!Holders(u)' = Asked!Holders(u)
  BY DEF Asked!Holders

(* What a request remembers is not disturbed by rows it has not made.       *)
LEMMA OthersRemember ==
  ASSUME NEW o \in Organizers, NEW b \in Ordering, Remembers(o, b), UNCHANGED task,
         \A u : Born(u) => Born(u)',
         \A u \in Asked!Ids : Asked!Holders(u)' = Asked!Holders(u),
         \A u \in Asked!Ids, x \in Speakers : given[u][x] # None =>
           given'[u][x].late = given[u][x].late,
         b.pc # "idle" => \A x \in b.made : given'[b.task][x] = given[b.task][x]
                            \/ (given'[b.task][x] # None /\ given'[b.task][x].by = o
                                /\ given'[b.task][x].told = 0)
  PROVE  Remembers(o, b)'
<1>1. b.pc # "idle" => b.task \in Asked!Ids /\ (b.task # o => Born(b.task)')
  BY DEF Remembers
<1>2. b.pc = "idle" => b.made = {}
  BY DEF Remembers, Giving
<1>3. b.pc # "idle" => Asked!Holders(b.task)' = Asked!Holders(b.task)
  BY <1>1
<1>4. b.pc = "update" => \A x \in Asked!Holders(b.task)' : given'[b.task][x].late \/ task[b.task] = b.type
  BY <1>1, <1>3 DEF Remembers, Asked!Holders
<1>5. \A x \in b.made : /\ task[b.task] # None => given'[b.task][x] # None
                        /\ given'[b.task][x] # None => given'[b.task][x].by = o /\ given'[b.task][x].told = 0
  BY <1>2 DEF Remembers
<1> QED BY <1>1, <1>3, <1>4, <1>5 DEF Remembers, Giving, Unborn

(* A speaker is mailed: who made the row has no other row to tell of there. *)
LEMMA SpeakerIsTold ==
  ASSUME NoneApart, TaskInv, NEW r \in Organizers, NEW s \in Speakers, Asked!Mail(r, s)
  PROVE  TaskInv'
<1> DEFINE p == order[r]
           l == IF p.made = {s} THEN "done" ELSE "mail"
           q == [p EXCEPT !.made = p.made \ {s}, !.pc = l]
<1>0. PICK t : t = p.task
  OBVIOUS
<1>1. /\ p.pc = "mail" /\ s \in p.made /\ UNCHANGED <<task, portal>> /\ Remembers(r, p) /\ Asked!Set(r, q)
      /\ t \in Asked!Ids /\ p \in Ordering
      /\ given' = IF given[t][s] = None THEN given ELSE [given EXCEPT ![t][s].told = @ + 1]
  BY <1>0, Ordered DEF Asked!Mail, Asked!At, Asked!people, Remembers
<1>2. l \in {"done", "mail"} /\ (l = "done" => p.made = {s})
  OBVIOUS
<1> HIDE DEF l
<1>3. /\ q \in Ordering /\ q.pc = l /\ q.task = t /\ q.made = p.made \ {s} /\ q.kind = p.kind
      /\ q.missing = p.missing /\ q.asked = p.asked /\ q.whole = p.whole
  BY <1>0, <1>1, <1>2 DEF Ordering
<1> HIDE DEF q
<1>4. /\ order' \in [Organizers -> Ordering] /\ order'[r] \in Ordering
      /\ order'[r].pc = l /\ order'[r].task = t /\ order'[r].made = p.made \ {s}
      /\ order'[r].asked = p.asked /\ order'[r].whole = p.whole
      /\ \A o \in Organizers \ {r} : order'[o] = order[o]
  <2>1. order' = [order EXCEPT ![r] = IF l = "done" THEN Asked!Ended(q) ELSE q]
    BY <1>1, <1>3 DEF Asked!Set
  <2>2. CASE l = "done"
    <3>1. order' = [order EXCEPT ![r] = Asked!Ended(q)]
      BY <2>1, <2>2
    <3> QED BY <1>2, <1>3, <2>2, <3>1, EndedOrder DEF TaskInv
  <2>3. CASE l # "done"
    <3>1. order' = [order EXCEPT ![r] = q]
      BY <2>1, <2>3
    <3> QED BY <1>3, <3>1 DEF TaskInv
  <2> QED BY <2>2, <2>3
<1>5. \A u : Born(u)' <=> Born(u)
  BY <1>1, <1>2, <1>4 DEF Born, Unborn
<1>6. /\ given' \in [Asked!Ids -> [Speakers -> Assignment \cup {None}]]
      /\ \A u \in Asked!Ids, x \in Speakers : u # t \/ x # s => given'[u][x] = given[u][x]
      /\ \A u \in Asked!Ids, x \in Speakers : given'[u][x] # None <=> given[u][x] # None
      /\ \A u \in Asked!Ids, x \in Speakers : given[u][x] # None =>
           /\ given'[u][x].by = given[u][x].by /\ given'[u][x].late = given[u][x].late
           /\ given'[u][x].work = given[u][x].work
      /\ \A u \in Asked!Ids : Asked!Holders(u)' = Asked!Holders(u)
      /\ given[t][s] # None => given[t][s].by = r /\ given'[t][s].told = 1
  <2>1. CASE given[t][s] = None
    <3>1. given' = given
      BY <1>1, <2>1
    <3> QED BY <2>1, <3>1 DEF TaskInv, Asked!Holders
  <2>2. CASE given[t][s] # None
    <3>0. PICK row : row = [given[t][s] EXCEPT !.told = 1]
      OBVIOUS
    <3>1. given[t][s].by = r /\ given[t][s].told = 0 /\ given[t][s] \in Assignment
      BY <1>0, <1>1, <2>2, RowFields DEF Remembers
    <3>2. /\ row \in Assignment /\ row.by = given[t][s].by /\ row.late = given[t][s].late
          /\ row.told = 1 /\ row.work = given[t][s].work
      BY <3>0, <3>1 DEF Assignment
    <3>3. given' = [given EXCEPT ![t][s] = row]
      BY <1>1, <2>2, <3>0, <3>1
    <3>4. /\ given' \in [Asked!Ids -> [Speakers -> Assignment \cup {None}]]
          /\ given'[t][s] = row /\ row # None
          /\ \A u \in Asked!Ids, x \in Speakers : u # t \/ x # s => given'[u][x] = given[u][x]
          /\ \A u \in Asked!Ids, x \in Speakers : given'[u][x] # None <=> given[u][x] # None
          /\ \A u \in Asked!Ids, x \in Speakers : given[u][x] # None =>
               given'[u][x].by = given[u][x].by /\ given'[u][x].late = given[u][x].late
      BY <1>1, <2>2, <3>2, <3>3, RowKept, ZenonT(60)
    <3>5. \A u \in Asked!Ids, x \in Speakers : given[u][x] # None => given'[u][x].work = given[u][x].work
      BY <3>2, <3>4
    <3> QED BY <3>1, <3>2, <3>4, <3>5, HoldersKept
  <2> QED BY <2>1, <2>2
<1>7. ASSUME NEW o \in Organizers PROVE Remembers(o, order[o])'
  <2>1. CASE o = r
    <3>1. p.whole /\ task[t] # None => p.asked \subseteq Asked!Holders(t)'
      <4>1. p.whole /\ task[t] # None => p.asked \subseteq Asked!Holders(t)
        BY <1>0, <1>1 DEF Remembers, Giving
      <4>2. Asked!Holders(t)' = Asked!Holders(t)
        BY <1>1, <1>6
      <4> QED BY <4>1, <4>2
    <3>2. \A x \in p.made \ {s} : given'[t][x] = given[t][x]
      BY <1>1, <1>6, OrderFields
    <3>3. \A x \in p.made \ {s} :
            /\ task[t] # None => given'[t][x] # None
            /\ given'[t][x] # None => given'[t][x].by = r /\ given'[t][x].told = 0
      BY <1>0, <1>1, <3>2 DEF Remembers
    <3>4. t # r => Born(t)'
      BY <1>0, <1>1, <1>5 DEF Remembers
    <3>5. l = "done" => p.made \ {s} = {}
      BY <1>2
    <3> QED BY <1>1, <1>2, <1>4, <2>1, <3>1, <3>3, <3>4, <3>5, ZenonT(60) DEF Remembers, Giving, Unborn
  <2>2. CASE o # r
    <3>0. PICK b : b = order[o]
      OBVIOUS
    <3>1. b \in Ordering /\ Remembers(o, b) /\ order'[o] = b
      BY <1>4, <2>2, <3>0, Ordered
    <3>2. b.pc # "idle" => \A x \in b.made : given'[b.task][x] = given[b.task][x]
      <4> SUFFICES ASSUME b.pc # "idle", NEW x \in b.made PROVE given'[b.task][x] = given[b.task][x]
        OBVIOUS
      <4>1. b.task \in Asked!Ids /\ x \in Speakers
        BY <3>1, OrderFields DEF Remembers
      <4>2. CASE b.task = t /\ x = s
        <5>1. given[t][s] = None
          BY <1>6, <2>2, <3>1, <4>2 DEF Remembers
        <5>2. given'[t][s] = None
          BY <1>1, <1>6, <5>1
        <5> QED BY <4>2, <5>1, <5>2
      <4> QED BY <1>6, <4>1, <4>2
    <3>3. Remembers(o, b)'
      BY <1>1, <1>5, <1>6, <3>1, <3>2, OthersRemember
    <3> QED BY <3>1, <3>3 DEF Remembers
  <2> QED BY <2>1, <2>2
<1>8. RowsFit'
  <2> SUFFICES ASSUME NEW u \in Asked!Ids, NEW x \in Speakers, given'[u][x] # None
               PROVE  /\ Born(u)'
                      /\ given'[u][x].told = 0 => ToTell(u, x, order'[given'[u][x].by])
                      /\ given'[u][x].work # None /\ ~given'[u][x].late => given'[u][x].work = task[u]
    BY <1>1 DEF RowsFit
  <2>1. given[u][x] # None
    BY <1>6
  <2>2. /\ Born(u)' /\ given'[u][x].by = given[u][x].by /\ given[u][x].by \in Organizers
        /\ given'[u][x].work # None /\ ~given'[u][x].late => given'[u][x].work = task[u]
    BY <1>5, <1>6, <2>1, RowFields
  <2>3. ASSUME given'[u][x].told = 0 PROVE ToTell(u, x, order'[given[u][x].by])
    <3>1. u # t \/ x # s
      BY <1>6, <2>1, <2>3
    <3>2. ToTell(u, x, order[given[u][x].by])
      BY <1>6, <2>1, <2>3, <3>1, RowFields
    <3>3. CASE given[u][x].by = r
      <4>1. p.task = u /\ x \in p.made
        BY <1>1, <3>2, <3>3 DEF ToTell
      <4> QED BY <1>0, <1>2, <1>4, <3>1, <3>3, <4>1 DEF ToTell, Giving
    <3>4. CASE given[u][x].by # r
      BY <1>4, <2>2, <3>2, <3>4
    <3> QED BY <3>3, <3>4
  <2> QED BY <2>2, <2>3
<1>9. PortalFits'
  <2> SUFFICES ASSUME NEW x \in Speakers, portal[x] # None
               PROVE  PageFits(x, portal[x].task, portal[x].work)'
    BY <1>1 DEF PortalFits
  <2>0. PICK u : u = portal[x].task
    OBVIOUS
  <2>1. u \in Asked!Ids /\ PageFits(x, u, portal[x].work)
    BY <2>0, PagesRead
  <2> QED BY <1>1, <1>5, <1>6, <2>0, <2>1 DEF PageFits
<1>10. \A u \in Asked!Ids : task'[u] # None => Born(u)'
  BY <1>1, <1>5 DEF TaskInv
<1> QED BY <1>1, <1>4, <1>6, <1>7, <1>8, <1>9, <1>10 DEF TaskInv

(* The assignments go with their task. *)
LEMMA TaskIsDeleted == ASSUME TaskInv, NEW t \in Asked!Ids, Asked!DeleteTask(t) PROVE TaskInv'
<1>1. /\ task' = [task EXCEPT ![t] = None] /\ given' = [given EXCEPT ![t] = Asked!Nobody]
      /\ UNCHANGED <<portal, order>>
  BY DEF Asked!DeleteTask, Asked!people
<1>2. /\ task' \in [Asked!Ids -> Types \cup {None}] /\ task'[t] = None
      /\ \A u \in Asked!Ids : u # t => task'[u] = task[u]
  BY <1>1 DEF TaskInv
<1>3. /\ given' \in [Asked!Ids -> [Speakers -> Assignment \cup {None}]]
      /\ \A x \in Speakers : given'[t][x] = None
      /\ \A u \in Asked!Ids : u # t => given'[u] = given[u]
  BY <1>1 DEF TaskInv, Asked!Nobody
<1>4. \A u : Born(u)' <=> Born(u)
  BY <1>1 DEF Born
<1>5. \A u \in Asked!Ids : Asked!Holders(u)' = IF u = t THEN {} ELSE Asked!Holders(u)
  BY <1>3 DEF Asked!Holders
<1>6. ASSUME NEW o \in Organizers PROVE Remembers(o, order[o])'
  <2>0. PICK b : b = order[o]
    OBVIOUS
  <2>1. b \in Ordering /\ Remembers(o, b) /\ order'[o] = b
    BY <1>1, <2>0, Ordered
  <2>2. b.pc # "idle" => b.task \in Asked!Ids /\ (b.task # o => Born(b.task)')
    BY <1>4, <2>1 DEF Remembers
  <2>3. b.pc = "idle" => b.made = {}
    BY <2>1 DEF Remembers, Giving
  <2>4. b.made \subseteq Speakers
    BY <2>1, OrderFields
  <2>5. CASE b.task = t
    BY <1>2, <1>3, <1>5, <2>1, <2>2, <2>3, <2>4, <2>5 DEF Remembers, Giving, Unborn
  <2>6. CASE b.task # t
    <3>1. b.pc # "idle" => /\ task'[b.task] = task[b.task] /\ given'[b.task] = given[b.task]
                           /\ Asked!Holders(b.task)' = Asked!Holders(b.task)
      BY <1>2, <1>3, <1>5, <2>2, <2>6
    <3> QED BY <2>1, <2>2, <2>3, <3>1 DEF Remembers, Giving, Unborn
  <2> QED BY <2>5, <2>6
<1>7. RowsFit'
  <2> SUFFICES ASSUME NEW u \in Asked!Ids, NEW x \in Speakers, given'[u][x] # None
               PROVE  /\ Born(u)'
                      /\ given'[u][x].told = 0 => ToTell(u, x, order'[given'[u][x].by])
                      /\ given'[u][x].work # None /\ ~given'[u][x].late => given'[u][x].work = task'[u]
    BY DEF RowsFit
  <2>1. u # t
    BY <1>3
  <2> QED BY <1>1, <1>2, <1>3, <1>4, <2>1, RowFields
<1>8. PortalFits'
  <2> SUFFICES ASSUME NEW x \in Speakers, portal[x] # None
               PROVE  PageFits(x, portal[x].task, portal[x].work)'
    BY <1>1 DEF PortalFits
  <2>0. PICK u : u = portal[x].task
    OBVIOUS
  <2>1. u \in Asked!Ids /\ PageFits(x, u, portal[x].work)
    BY <2>0, PagesRead
  <2> QED BY <1>1, <1>2, <1>3, <1>4, <2>0, <2>1 DEF PageFits
<1>9. \A u \in Asked!Ids : task'[u] # None => Born(u)'
  BY <1>2, <1>4 DEF TaskInv
<1> QED BY <1>1, <1>2, <1>3, <1>6, <1>7, <1>8, <1>9 DEF TaskInv

(* A speaker's completion reads the assignment and its task. *)
LEMMA PageIsOpened ==
  ASSUME TaskInv, NEW s \in Speakers, NEW t \in Asked!Existing, Asked!Open(s, t)
  PROVE  TaskInv'
<1>1. /\ given[t][s] # None /\ UNCHANGED <<task, given, order>> /\ t \in Asked!Ids
      /\ portal' = [portal EXCEPT ![s] = [task |-> t, work |-> task[t]]]
  BY DEF Asked!Open, Asked!Holders, Asked!Existing, Asked!theTasks
<1>2. [task |-> t, work |-> task[t]] \in Reading
  BY <1>1 DEF Reading, TaskInv
<1>3. /\ portal' \in [Speakers -> Reading \cup {None}] /\ portal'[s] = [task |-> t, work |-> task[t]]
      /\ \A x \in Speakers : x # s => portal'[x] = portal[x]
  BY <1>1, <1>2 DEF TaskInv
<1>4. \A u : Born(u)' <=> Born(u)
  BY <1>1 DEF Born
<1>5. PortalFits'
  <2> SUFFICES ASSUME NEW x \in Speakers, portal'[x] # None
               PROVE  PageFits(x, portal[x].task, portal[x].work)'
    BY DEF PortalFits
  <2>1. CASE x = s
    <3>1. portal'[x].task = t /\ portal'[x].work = task[t] /\ Born(t)'
      BY <1>1, <1>3, <1>4, <2>1, RowFields
    <3> QED BY <1>1, <2>1, <3>1 DEF PageFits
  <2>2. CASE x # s
    <3>1. portal'[x] = portal[x] /\ PageFits(x, portal[x].task, portal[x].work)
      BY <1>3, <2>2, PagesRead
    <3> QED BY <1>1, <1>4, <3>1 DEF PageFits
  <2> QED BY <2>1, <2>2
<1>6. \A o \in Organizers : Remembers(o, order[o])'
  BY <1>1, <1>4 DEF TaskInv, Remembers, Asked!Holders
<1>7. RowsFit' /\ \A u \in Asked!Ids : task'[u] # None => Born(u)'
  BY <1>1, <1>4 DEF TaskInv, RowsFit
<1> QED BY <1>1, <1>3, <1>5, <1>6, <1>7 DEF TaskInv

(* It writes what it has read, if the row is still there.                   *)
LEMMA WorkIsDone ==
  ASSUME NoneApart, TaskInv, NEW s \in Speakers, Asked!Complete(s)
  PROVE  TaskInv'
<1>0. PICK p : p = portal[s]
  OBVIOUS
<1>0a. PICK t : t = p.task
  OBVIOUS
<1>1. /\ p # None /\ UNCHANGED <<task, order>> /\ portal' = [portal EXCEPT ![s] = None]
      /\ given' = IF given[t][s] = None THEN given ELSE [given EXCEPT ![t][s].work = p.work]
      /\ p \in Reading /\ t \in Asked!Ids /\ PageFits(s, t, p.work)
  BY <1>0, <1>0a, PagesRead DEF Asked!Complete
<1>2. /\ portal' \in [Speakers -> Reading \cup {None}] /\ portal'[s] = None
      /\ \A x \in Speakers : x # s => portal'[x] = portal[x]
  BY <1>1 DEF TaskInv
<1>3. \A u : Born(u)' <=> Born(u)
  BY <1>1 DEF Born
<1>4. /\ given' \in [Asked!Ids -> [Speakers -> Assignment \cup {None}]]
      /\ \A u \in Asked!Ids, x \in Speakers : u # t \/ x # s => given'[u][x] = given[u][x]
      /\ \A u \in Asked!Ids, x \in Speakers : given'[u][x] # None <=> given[u][x] # None
      /\ \A u \in Asked!Ids, x \in Speakers : given[u][x] # None =>
           /\ given'[u][x].by = given[u][x].by /\ given'[u][x].late = given[u][x].late
           /\ given'[u][x].told = given[u][x].told
      /\ \A u \in Asked!Ids : Asked!Holders(u)' = Asked!Holders(u)
      /\ given[t][s] # None /\ ~given[t][s].late => given'[t][s].work = task[t]
  <2>1. CASE given[t][s] = None
    <3>1. given' = given
      BY <1>1, <2>1
    <3> QED BY <2>1, <3>1 DEF TaskInv, Asked!Holders
  <2>2. CASE given[t][s] # None
    <3>0. PICK row : row = [given[t][s] EXCEPT !.work = p.work]
      OBVIOUS
    <3>1. given[t][s] \in Assignment /\ p.work \in Types \cup {None}
      BY <1>1, <2>2, RowFields DEF Reading
    <3>2. /\ row \in Assignment /\ row.by = given[t][s].by /\ row.late = given[t][s].late
          /\ row.told = given[t][s].told /\ row.work = p.work
      BY <3>0, <3>1 DEF Assignment
    <3>3. given' = [given EXCEPT ![t][s] = row]
      BY <1>1, <2>2, <3>0
    <3>4. /\ given' \in [Asked!Ids -> [Speakers -> Assignment \cup {None}]]
          /\ given'[t][s] = row /\ row # None
          /\ \A u \in Asked!Ids, x \in Speakers : u # t \/ x # s => given'[u][x] = given[u][x]
          /\ \A u \in Asked!Ids, x \in Speakers : given'[u][x] # None <=> given[u][x] # None
          /\ \A u \in Asked!Ids, x \in Speakers : given[u][x] # None =>
               given'[u][x].by = given[u][x].by /\ given'[u][x].late = given[u][x].late
      BY <1>1, <2>2, <3>2, <3>3, RowKept, ZenonT(60)
    <3>5. \A u \in Asked!Ids, x \in Speakers : given[u][x] # None => given'[u][x].told = given[u][x].told
      BY <3>2, <3>4
    <3>6. ~given[t][s].late => given'[t][s].work = task[t]
      BY <1>1, <2>2, <3>2, <3>4 DEF PageFits
    <3> QED BY <3>4, <3>5, <3>6, HoldersKept
  <2> QED BY <2>1, <2>2
<1>5. ASSUME NEW o \in Organizers PROVE Remembers(o, order[o])'
  <2>0. PICK b : b = order[o]
    OBVIOUS
  <2>1. b \in Ordering /\ Remembers(o, b) /\ order'[o] = b
    BY <1>1, <2>0, Ordered
  <2>2. ASSUME b.pc # "idle", NEW x \in b.made
        PROVE  \/ given'[b.task][x] = given[b.task][x]
               \/ /\ given'[b.task][x] # None /\ given'[b.task][x].by = o
                  /\ given'[b.task][x].told = 0
    <3>1. b.task \in Asked!Ids /\ x \in Speakers
      BY <2>1, <2>2, OrderFields DEF Remembers
    <3>2. given[b.task][x] # None => given[b.task][x].by = o /\ given[b.task][x].told = 0
      BY <2>1 DEF Remembers
    <3>3. CASE given[b.task][x] = None
      BY <1>4, <3>1, <3>3
    <3>4. CASE given[b.task][x] # None
      BY <1>4, <3>1, <3>2, <3>4
    <3> QED BY <3>3, <3>4
  <2>3. Remembers(o, b)'
    BY <1>1, <1>3, <1>4, <2>1, <2>2, OthersRemember
  <2> QED BY <2>1, <2>3 DEF Remembers
<1>6. RowsFit'
  <2> SUFFICES ASSUME NEW u \in Asked!Ids, NEW x \in Speakers, given'[u][x] # None
               PROVE  /\ Born(u)'
                      /\ given'[u][x].told = 0 => ToTell(u, x, order'[given'[u][x].by])
                      /\ given'[u][x].work # None /\ ~given'[u][x].late => given'[u][x].work = task[u]
    BY <1>1 DEF RowsFit
  <2>1. given[u][x] # None
    BY <1>4
  <2>2. Born(u)' /\ (given'[u][x].told = 0 => ToTell(u, x, order'[given'[u][x].by]))
    BY <1>1, <1>3, <1>4, <2>1, RowFields
  <2>3. given'[u][x].work # None /\ ~given'[u][x].late => given'[u][x].work = task[u]
    <3>1. CASE u = t /\ x = s
      BY <1>4, <2>1, <3>1
    <3>2. CASE ~(u = t /\ x = s)
      <4>1. given'[u][x] = given[u][x]
        BY <1>4, <3>2
      <4> QED BY <2>1, <4>1, RowFields
    <3> QED BY <3>1, <3>2
  <2> QED BY <2>2, <2>3
<1>7. PortalFits'
  <2> SUFFICES ASSUME NEW x \in Speakers, portal'[x] # None
               PROVE  PageFits(x, portal[x].task, portal[x].work)'
    BY DEF PortalFits
  <2>1. x # s /\ portal'[x] = portal[x] /\ portal[x] # None
    BY <1>2
  <2>2. portal[x].task \in Asked!Ids /\ PageFits(x, portal[x].task, portal[x].work)
    BY <2>1, PagesRead
  <2>3. given'[portal[x].task][x] = given[portal[x].task][x]
    BY <1>4, <2>1, <2>2
  <2> QED BY <1>1, <1>3, <2>1, <2>2, <2>3 DEF PageFits
<1>8. \A u \in Asked!Ids : task'[u] # None => Born(u)'
  BY <1>1, <1>3 DEF TaskInv
<1> QED BY <1>1, <1>2, <1>4, <1>5, <1>6, <1>7, <1>8 DEF TaskInv

LEMMA TasksNext ==
  ASSUME NoneApart, TaskInv, [Asked!Next]_Asked!taskVars
  PROVE  TaskInv'
<1>1. ASSUME UNCHANGED <<task, given, portal, order>> PROVE TaskInv'
  <2>1. \A u : Born(u)' <=> Born(u)
    BY <1>1 DEF Born
  <2> QED BY <1>1, <2>1, SMTT(30) DEF TaskInv, Remembers, Asked!Holders, RowsFit, PortalFits, PageFits
<1>2. CASE UNCHANGED Asked!taskVars
  BY <1>1, <1>2 DEF Asked!taskVars
<1>3. ASSUME NEW s \in Speakers, NEW a, Asked!SetConfirmation(s, a) PROVE TaskInv'
  BY <1>1, <1>3 DEF Asked!SetConfirmation, Asked!theTasks
<1>4. ASSUME NEW r \in Organizers, Asked!BreakOff(r) PROVE TaskInv'
  BY <1>4, OrderFails DEF Asked!BreakOff, Asked!theTasks, Asked!people
<1> QED BY <1>2, <1>3, <1>4, OrdersBegin, OrderReads, RosterIsRead, HoldersAreRead, NewsAreRead, TaskIsMade,
        TaskIsChanged, TaskIsGiven, SpeakerIsTold, TaskIsDeleted, PageIsOpened, WorkIsDone DEF Asked!Next

LEMMA TaskProps == TaskInv => Asked!AssignedAreTold /\ Asked!MeantAreGiven /\ Asked!WorkFitsTask
<1> SUFFICES ASSUME TaskInv PROVE Asked!AssignedAreTold /\ Asked!MeantAreGiven /\ Asked!WorkFitsTask
  OBVIOUS
<1>1. ASSUME NEW t \in Asked!Ids, NEW row \in Asked!Holding(t)
      PROVE  /\ row.told <= 1
             /\ Asked!At(row.by, "done") /\ order[row.by].whole => row.told = 1
             /\ row.work # None /\ ~row.late => row.work = task[t]
  <2>1. PICK s \in Speakers : given[t][s] # None /\ row = given[t][s]
    BY DEF Asked!Holding, Asked!Holders
  <2>2. row.told = 0 => ToTell(t, s, order[row.by])
    BY <2>1, RowFields
  <2>3. row.told \in 0..1
    BY <2>1, RowFields
  <2>4. order[row.by].pc = "done" /\ order[row.by].whole => row.told # 0
    BY <2>2 DEF ToTell, Giving
  <2> QED BY <2>1, <2>3, <2>4, RowFields DEF Asked!At
<1>2. Asked!MeantAreGiven
  BY DEF Asked!MeantAreGiven, Asked!At, TaskInv, Remembers, Giving
<1> QED BY <1>1, <1>2 DEF Asked!AssignedAreTold, Asked!WorkFitsTask

(* However organizers make, change, give out and delete tasks while their   *)
(* speakers do them: nobody hears of a task twice, everybody who was meant  *)
(* holds it and has heard, and what was done fits what it asks for, unless  *)
(* the request broke off (notifyNewAssignments, applyAssigneeSelection,     *)
(* updateTask).  What None is must be no row.                               *)
THEOREM TasksAreTold ==
  ASSUME NoneApart
  PROVE  Asked!Spec => [](Asked!AssignedAreTold /\ Asked!MeantAreGiven /\ Asked!WorkFitsTask)
<1>1. TaskInv /\ [Asked!Next]_Asked!taskVars => TaskInv'
  BY TasksNext
<1> QED BY <1>1, TasksInit, TaskProps, PTL DEF Asked!Spec

(* The same of the tasks among the parts that are checked together, for any *)
(* number of speakers, of requests and of answers.                          *)
THEOREM TasksAlwaysHold == ASSUME NoneApart PROVE Screens => []TasksHold
<1> DEFINE Stays == part = "tasks" => TaskInv
<1>1. Begins => Stays
  BY TasksInit DEF Begins, AskedFirst
<1>2. Stays /\ [Steps]_<<part, screenVars, tasks, people, program>> => Stays'
  <2>1. ASSUME TaskInv, UNCHANGED tasks PROVE TaskInv'
    <3>1. [Asked!Next]_Asked!taskVars
      BY <2>1 DEF tasks, Asked!taskVars
    <3> QED BY <2>1, <3>1, TasksNext
  <2>2. ASSUME TaskInv, Asked!Next PROVE TaskInv'
    BY <2>2, TasksNext
  <2> QED BY <2>1, <2>2 DEF Steps
<1>3. Stays => TasksHold
  BY TaskProps DEF TasksHold
<1> QED BY <1>1, <1>2, <1>3, PTL DEF Screens

----------------------------------------------------------------------------
(* The directory *)

(* What an import of at least one line comes to is at least one row: the    *)
(* rows after each line are given by those after the one before.            *)
Less == {ss \in Nat \X Nat : ss[1] < ss[2]}
LEMMA Least == ASSUME NEW T \in SUBSET Nat, T # {} PROVE \E x \in T : \A y \in T : x <= y
<1>1. IsWellFoundedOn(Less, Nat)
  BY NatLessThanWellFounded DEF OpToRel, Less
<1>2. PICK x \in T : \A y \in T : ~(<<y, x>> \in Less)
  BY <1>1, WFMin
<1>3. \A y \in T : ~(y < x)
  BY <1>2 DEF Less
<1> QED BY <1>3

LEMMA FoldedRows ==
  ASSUME NEW rows \in Seq(Brought), NEW line \in Brought
  PROVE  Listing!Folded(rows, line) \in Seq(Brought) \ {<<>>}
<1>1. CASE \E i \in DOMAIN rows : rows[i].email = line.email
  <2>1. ASSUME NEW i \in DOMAIN rows PROVE [rows[i] EXCEPT !.bio = @ \/ line.bio] \in Brought
    <3>0. PICK b : b = (rows[i].bio \/ line.bio)
      OBVIOUS
    <3>1. b \in BOOLEAN /\ rows[i] \in Brought
      BY <3>0
    <3>2. [rows[i] EXCEPT !.bio = b] \in Brought
      BY <3>1 DEF Brought
    <3>3. [rows[i] EXCEPT !.bio = @ \/ line.bio] = [rows[i] EXCEPT !.bio = b]
      BY <3>0
    <3> QED BY <3>2, <3>3
  <2>2. PICK more : more = [i \in DOMAIN rows |->
                              IF rows[i].email = line.email
                              THEN [rows[i] EXCEPT !.bio = @ \/ line.bio] ELSE rows[i]]
    OBVIOUS
  <2>3. \A i \in DOMAIN rows : more[i] \in Brought
    BY <2>1, <2>2
  <2>4. DOMAIN rows = 1..Len(rows) /\ Len(rows) \in Nat
    OBVIOUS
  <2>5. more \in [1..Len(rows) -> Brought]
    BY <2>2, <2>3, <2>4
  <2>6. more \in Seq(Brought) /\ Len(more) = Len(rows) /\ Len(rows) # 0
    BY <1>1, <2>4, <2>5
  <2>7. Listing!Folded(rows, line) = more
    BY <1>1, <2>2 DEF Listing!Folded
  <2> QED BY <2>6, <2>7
<1>2. CASE ~\E i \in DOMAIN rows : rows[i].email = line.email
  BY <1>2 DEF Listing!Folded
<1> QED BY <1>1, <1>2

LEMMA FoldRows ==
  ASSUME NEW lines \in Seq(Brought), lines # <<>>
  PROVE  Listing!FoldLines(lines) \in Seq(Brought) \ {<<>>}
<1>0. PICK n : n = Len(lines)
  OBVIOUS
<1> DEFINE Eq(f, k) == f = [i \in 0..k |-> IF i = 0 THEN <<>> ELSE Listing!Folded(f[i - 1], lines[i])]
           Has(k) == \E f : Eq(f, k)
<1>1. n \in Nat \ {0} /\ \A i \in 1..n : lines[i] \in Brought
  BY <1>0
<1>2. Has(0)
  <2>1. PICK f : f = [i \in 0..0 |-> <<>>]
    OBVIOUS
  <2>2. Eq(f, 0)
    BY <2>1
  <2> QED BY <2>2
<1>3. ASSUME NEW k \in Nat, k < n, Has(k) PROVE Has(k + 1)
  <2>1. PICK f : Eq(f, k)
    BY <1>3
  <2>2. PICK g : g = [i \in 0..(k + 1) |-> IF i <= k THEN f[i] ELSE Listing!Folded(f[k], lines[k + 1])]
    OBVIOUS
  <2>3. \A i \in 0..(k + 1) : g[i] = IF i = 0 THEN <<>> ELSE Listing!Folded(g[i - 1], lines[i])
    <3> SUFFICES ASSUME NEW i \in 0..(k + 1)
                 PROVE  g[i] = IF i = 0 THEN <<>> ELSE Listing!Folded(g[i - 1], lines[i])
      OBVIOUS
    <3>1. CASE i <= k
      <4>1. i \in 0..k /\ g[i] = f[i] /\ (i # 0 => i - 1 \in 0..(k + 1) /\ i - 1 <= k)
        BY <1>3, <2>2, <3>1
      <4>2. i # 0 => g[i - 1] = f[i - 1]
        BY <2>2, <4>1
      <4>3. f[i] = IF i = 0 THEN <<>> ELSE Listing!Folded(f[i - 1], lines[i])
        BY <2>1, <4>1
      <4> QED BY <4>1, <4>2, <4>3
    <3>2. CASE ~(i <= k)
      <4>1. i = k + 1 /\ i # 0 /\ i - 1 = k /\ k \in 0..(k + 1) /\ k <= k
        BY <1>3, <3>2
      <4> QED BY <2>2, <3>2, <4>1
    <3> QED BY <3>1, <3>2
  <2>4. Eq(g, k + 1)
    BY <2>2, <2>3
  <2> QED BY <2>4
<1>4. Has(n)
  <2> SUFFICES ASSUME ~Has(n) PROVE FALSE
    OBVIOUS
  <2> HIDE DEF Has
  <2>0. PICK T : T = {k \in Nat : k <= n /\ ~Has(k)}
    OBVIOUS
  <2>1. PICK m \in T : \A k \in T : m <= k
    <3>1. n \in T /\ T \in SUBSET Nat
      BY <1>1, <2>0
    <3> QED BY <3>1, Least
  <2>2. PICK k : k = m - 1
    OBVIOUS
  <2>3. m \in Nat /\ m <= n /\ ~Has(m) /\ m # 0
    BY <1>2, <2>0, <2>1
  <2>4. k \in Nat /\ k < n /\ k < m /\ m = k + 1
    BY <1>1, <2>2, <2>3
  <2>5. Has(k)
    <3>1. k \notin T
      BY <2>1, <2>4
    <3>2. k \in Nat /\ k <= n
      BY <1>1, <2>4
    <3> QED BY <2>0, <3>1, <3>2
  <2>6. Has(k + 1)
    BY <1>3, <2>4, <2>5
  <2> QED BY <2>3, <2>4, <2>6
<1>5. PICK f : Eq(f, n) /\ Listing!FoldLines(lines) = f[n]
  <2>1. PICK f : f = CHOOSE g : Eq(g, n)
    OBVIOUS
  <2>2. Eq(f, n)
    BY <1>4, <2>1
  <2>3. Listing!FoldLines(lines) = f[n]
    BY <1>0, <2>1 DEF Listing!FoldLines
  <2> QED BY <2>2, <2>3
<1>6. \A i \in 0..n : f[i] = IF i = 0 THEN <<>> ELSE Listing!Folded(f[i - 1], lines[i])
  BY <1>5
<1> DEFINE Fit(i) == f[i] \in Seq(Brought) /\ (i # 0 => f[i] # <<>>)
<1>7. ASSUME NEW i \in Nat, i < n, Fit(i) PROVE Fit(i + 1)
  <2>1. f[i + 1] = Listing!Folded(f[i], lines[i + 1]) /\ lines[i + 1] \in Brought
    <3>1. i + 1 \in 0..n /\ i + 1 # 0 /\ i + 1 - 1 = i /\ i + 1 \in 1..n
      BY <1>1, <1>7
    <3> QED BY <1>1, <1>6, <3>1
  <2> QED BY <1>7, <2>1, FoldedRows
<1>8. Fit(0)
  <2>1. 0 \in 0..n
    BY <1>1
  <2>2. f[0] = <<>>
    BY <1>6, <2>1
  <2> QED BY <2>2
<1>9. Fit(n)
  <2> SUFFICES ASSUME ~Fit(n) PROVE FALSE
    OBVIOUS
  <2> HIDE DEF Fit
  <2>0. PICK T : T = {k \in Nat : k <= n /\ ~Fit(k)}
    OBVIOUS
  <2>1. PICK m \in T : \A k \in T : m <= k
    <3>1. n \in T /\ T \in SUBSET Nat
      BY <1>1, <2>0
    <3> QED BY <3>1, Least
  <2>2. PICK k : k = m - 1
    OBVIOUS
  <2>3. m \in Nat /\ m <= n /\ ~Fit(m) /\ m # 0
    BY <1>8, <2>0, <2>1
  <2>4. k \in Nat /\ k < n /\ k < m /\ m = k + 1
    BY <1>1, <2>2, <2>3
  <2>5. Fit(k)
    <3>1. k \notin T
      BY <2>1, <2>4
    <3>2. k \in Nat /\ k <= n
      BY <1>1, <2>4
    <3> QED BY <2>0, <3>1, <3>2
  <2>6. Fit(k + 1)
    BY <1>7, <2>4, <2>5
  <2> QED BY <2>3, <2>4, <2>6
<1> QED BY <1>1, <1>5, <1>9
(* What an import has: lines to go, people it knows of and what it reports. *)
Entry == [email : Addresses, name : Names \cup {None}]
Report ==
  [email : Addresses, name : Names, outcome : {"known", "created", "merged"}, flagged : BOOLEAN]
Importing ==
  [pc : {"idle", "list", "find", "create", "patch", "enter", "done"},
   into : {None, "directory", "roster"}, rows : Seq(Brought), known : SUBSET Entry,
   patch : SUBSET {"name", "bio"}, results : SUBSET Report]

Running(q) == q.pc \notin {"idle", "done"}
Who(q) == Head(q.rows).email
ImportFits(q) ==
  /\ Running(q) => q.rows # <<>> /\ q.into \in {"directory", "roster"}
  /\ q.pc \in {"idle", "list"} => q.results = {}

(* A report comes before what it reports: the person it is about is the     *)
(* current one, whose account is still awaited, or where it says.           *)
Current(q, x) == q.pc \in {"create", "patch", "enter"} /\ x.email = Who(q)
Awaited(q, x) == q.pc = "create" /\ x.email = Who(q)
Where(q, x, c, m) == IF x.outcome = "known" THEN c \cup m ELSE IF q.into = "directory" THEN c ELSE m
Known(q, x, n) == x.email \in n \/ [email |-> x.email, name |-> x.name] \in q.known
Bears(x, a, n) ==
  a[x.email] # None /\ a[x.email].name # None /\ (x.email \notin n => a[x.email].name = x.name)
(* What is so of an import, the accounts, the contacts, the roster, and the *)
(* bios people wrote, those among them while it was to fill them, and who   *)
(* was given another name.                                                  *)
Knows(q, a, c, m, o, t, n) ==
  /\ \A k \in q.known : k.email \in c \cup m
  /\ q.pc \in {"patch", "enter"} => a[Who(q)] # None
  /\ q.pc = "patch" /\ "bio" \in q.patch /\ Who(q) \in o => Who(q) \in t
  /\ \A x \in q.results : Current(q, x) \/ x.email \in Where(q, x, c, m)
  /\ \A x \in q.results : x.outcome = "created" =>
       /\ IF Awaited(q, x) THEN x.name = Head(q.rows).name ELSE Bears(x, a, n)
       /\ q.into = "directory" /\ Running(q) => Current(q, x) \/ Known(q, x, n)

(* Whoever an import made no other one is about to name.                    *)
Unnamed(p, q) ==
  q.pc = "patch" /\ "name" \in q.patch =>
    \A x \in p.results : x.outcome = "created" /\ x.email = Who(q) => Awaited(p, x)
Flags(p, q, n) ==
  p.into = "directory" /\ q.into = "directory" =>
    \A x \in p.results, y \in q.results :
      x.email # y.email /\ x.name = y.name /\ x.outcome = "created" /\ y.outcome = "created"
      => x.flagged \/ y.flagged \/ {x.email, y.email} \cap n # {}
(* Of two that never ran together the later one knows whom the other made.  *)
Recalls(p, q, n) ==
  p.pc = "done" /\ p.into = "directory" /\ Running(q) /\ q.pc # "list" /\ q.into = "directory" =>
    \A x \in p.results : x.outcome = "created" => Known(q, x, n)
Apart(p, q, n) == ~(Running(p) /\ Running(q)) /\ Recalls(p, q, n) /\ Recalls(q, p, n)

PeopleInv ==
  /\ account \in [Addresses -> Account \cup {None}]
  /\ request \in [Organizers -> Importing]
  /\ \A e \in contacts \cup members \cup owns : e \in Addresses /\ account[e] # None
  /\ Listing!OwnWordsStay
  /\ \A r \in Organizers : ImportFits(request[r])
  /\ \A r \in Organizers : Knows(request[r], account, contacts, members, owns, trod, renamed)
  /\ \A r, s \in Organizers : Unnamed(request[r], request[s])
  /\ \A r, s \in Organizers : {r, s} \notin crossed =>
       Flags(request[r], request[s], renamed) /\ (r # s => Apart(request[r], request[s], renamed))

LEMMA IdleImport ==
  /\ Listing!Idle \in Importing /\ Listing!Idle.pc = "idle" /\ Listing!Idle.results = {}
  /\ Listing!Idle.known = {}
BY DEF Listing!Idle, Importing

LEMMA ImportNow ==
  ASSUME PeopleInv, NEW r \in Organizers
  PROVE  /\ request[r] \in Importing /\ ImportFits(request[r])
         /\ Knows(request[r], account, contacts, members, owns, trod, renamed)
BY DEF PeopleInv

LEMMA ImportRows ==
  ASSUME NEW q \in Importing, q.rows # <<>>
  PROVE  /\ Head(q.rows) \in Brought /\ Who(q) \in Addresses /\ Head(q.rows).name \in Names
         /\ Tail(q.rows) \in Seq(Brought)
         /\ Len(q.rows) # 1 => Tail(q.rows) # <<>>
<1>1. q.rows \in Seq(Brought)
  BY DEF Importing
<1>2. Head(q.rows) \in Brought
  BY <1>1
<1>3. Who(q) \in Addresses /\ Head(q.rows).name \in Names
  BY <1>2 DEF Who, Brought
<1>4. Tail(q.rows) \in Seq(Brought)
  BY <1>1
<1>5. Len(q.rows) # 1 => Tail(q.rows) # <<>>
  <2>1. PICK rows : rows = q.rows
    OBVIOUS
  <2>2. rows \in Seq(Brought) /\ Len(rows) \in Nat \ {0} /\ Len(Tail(rows)) = Len(rows) - 1
    BY <1>1, <2>1
  <2>3. Len(rows) # 1 => Len(Tail(rows)) # 0
    BY <2>2
  <2> QED BY <2>1, <2>3
<1> QED BY <1>2, <1>3, <1>4, <1>5

(* When a row is done with, all that is reported is so.                     *)
Told(q, a, c, m, n) ==
  /\ \A k \in q.known : k.email \in c \cup m
  /\ \A x \in q.results :
       /\ x.email \in Where(q, x, c, m)
       /\ x.outcome = "created" => Bears(x, a, n) /\ (q.into = "directory" => Known(q, x, n))
LEMMA ImportEnds ==
  ASSUME NEW q \in Importing, q.rows # <<>>, q.into \in {"directory", "roster"},
         NEW r \in Organizers, Listing!Ended(r, q),
         NEW a, NEW c, NEW m, NEW o, NEW t, NEW n, Told(q, a, c, m, n)
  PROVE  \E e \in Importing :
           /\ request' = [request EXCEPT ![r] = e] /\ e.into = q.into /\ e.results = q.results
           /\ e.pc \in {"find", "done"} /\ (e.pc = "find" => e.known = q.known)
           /\ ImportFits(e) /\ Knows(e, a, c, m, o, t, n)
<1>1. PICK e : e = IF Len(q.rows) = 1
                   THEN [Listing!Idle EXCEPT !.pc = "done", !.into = q.into, !.results = q.results]
                   ELSE Listing!AfterRow(q)
  OBVIOUS
<1>2. request' = [request EXCEPT ![r] = e]
  BY <1>1 DEF Listing!Ended, Listing!Set
<1>3. /\ e \in Importing /\ e.into = q.into /\ e.results = q.results
      /\ e.pc \in {"find", "done"} /\ (e.pc = "find" => e.known = q.known /\ e.rows # <<>>)
      /\ e.pc = "done" => e.known = {}
  <2>1. CASE Len(q.rows) = 1
    <3>1. e = [Listing!Idle EXCEPT !.pc = "done", !.into = q.into, !.results = q.results]
      BY <1>1, <2>1
    <3> QED BY <3>1, IdleImport DEF Importing
  <2>2. CASE Len(q.rows) # 1
    <3>1. e = [q EXCEPT !.rows = Tail(@), !.patch = {}, !.pc = "find"]
      BY <1>1, <2>2 DEF Listing!AfterRow
    <3> QED BY <2>2, <3>1, ImportRows DEF Importing
  <2> QED BY <2>1, <2>2
<1>4. ImportFits(e)
  BY <1>3 DEF ImportFits, Running
<1>5. \A x : Known(q, x, n) /\ e.pc = "find" => Known(e, x, n)
  BY <1>3 DEF Known
<1>6. Knows(e, a, c, m, o, t, n)
  BY <1>3, <1>5 DEF Knows, Told, Current, Awaited, Where, Running
<1> QED BY <1>2, <1>3, <1>4, <1>6

LEMMA ImportFails ==
  ASSUME NEW q \in Importing, Running(q), q.pc # "list",
         NEW a, NEW c, NEW m, NEW o, NEW t, NEW n, Knows(q, a, c, m, o, t, n)
  PROVE  \E p \in Importing :
           /\ p = Listing!Failed(q) /\ p.rows = q.rows /\ p.into = q.into /\ p.known = q.known
           /\ \A x \in p.results : x \in q.results /\ ~Awaited(q, x)
           /\ Told(p, a, c, m, n)
<1>1. PICK p : p = [q EXCEPT !.results = {x \in @ : x.email # Head(q.rows).email}]
  OBVIOUS
<1>2. /\ p \in Importing /\ p.rows = q.rows /\ p.into = q.into /\ p.known = q.known
      /\ \A x \in p.results : x \in q.results /\ x.email # Who(q)
  BY <1>1 DEF Importing, Who
<1>3. \A x \in p.results : x \in q.results /\ ~Awaited(q, x) /\ ~Current(q, x)
  BY <1>2 DEF Awaited, Current
<1>4. Told(p, a, c, m, n)
  BY <1>2, <1>3 DEF Told, Knows, Where, Known
<1> QED BY <1>1, <1>2, <1>3, <1>4 DEF Listing!Failed

(* Accounts stay, and so does whatever name an import gave.                 *)
LEMMA KnowsStill ==
  ASSUME NEW q \in Importing, ImportFits(q),
         NEW a, NEW c, NEW m, NEW o, NEW t, NEW n, Knows(q, a, c, m, o, t, n),
         NEW ax, NEW cx, NEW mx, NEW ox, NEW tx, NEW nx,
         c \subseteq cx, m \subseteq mx, t \subseteq tx, n \subseteq nx,
         \A e \in Addresses : a[e] # None => ax[e] # None,
         \A x \in q.results : x.outcome = "created" /\ ~Awaited(q, x) =>
           ax[x.email].name = a[x.email].name \/ (x.email \in nx /\ ax[x.email].name # None),
         q.pc = "patch" /\ "bio" \in q.patch /\ Who(q) \in ox => Who(q) \in o \/ Who(q) \in tx
  PROVE  Knows(q, ax, cx, mx, ox, tx, nx)
<1>1. q.pc \in {"patch", "enter"} => ax[Who(q)] # None
  BY ImportRows DEF Knows, ImportFits, Running
<1>2. \A x \in q.results : x.email \in Addresses
  BY DEF Importing, Report
<1>3. \A x \in q.results : x.outcome = "created" =>
        IF Awaited(q, x) THEN x.name = Head(q.rows).name ELSE Bears(x, ax, nx)
  BY <1>2 DEF Knows, Bears
<1>4. \A x \in q.results : Current(q, x) \/ x.email \in Where(q, x, cx, mx)
  BY DEF Knows, Where
<1>5. \A x : Known(q, x, n) => Known(q, x, nx)
  BY DEF Known
<1> QED BY <1>1, <1>3, <1>4, <1>5 DEF Knows

LEMMA FlagsBoth == ASSUME NEW p, NEW q, NEW n, Flags(p, q, n) PROVE Flags(q, p, n)
BY DEF Flags

(* A step of one request. *)
LEMMA PeopleStep ==
  ASSUME PeopleInv, NEW r \in Organizers, NEW e \in Importing,
         request' = [request EXCEPT ![r] = e], ImportFits(e),
         Knows(e, account', contacts', members', owns', trod', renamed'),
         \A s \in Organizers \ {r} : Knows(request[s], account', contacts', members', owns', trod', renamed'),
         account' \in [Addresses -> Account \cup {None}],
         \A x \in contacts' \cup members' \cup owns' : x \in Addresses /\ account'[x] # None,
         Listing!OwnWordsStay', crossed \subseteq crossed', UNCHANGED renamed, Unnamed(e, e),
         \A s \in Organizers \ {r} : Unnamed(e, request[s]) /\ Unnamed(request[s], e),
         {r, r} \notin crossed' => Flags(e, e, renamed),
         \A s \in Organizers \ {r} : {r, s} \notin crossed' => Flags(e, request[s], renamed) /\ Apart(e, request[s], renamed)
  PROVE  PeopleInv'
<1>1. /\ request' \in [Organizers -> Importing] /\ request'[r] = e
      /\ \A s \in Organizers \ {r} : request'[s] = request[s]
  BY DEF PeopleInv
<1>2. \A s \in Organizers : ImportFits(request'[s])
  BY <1>1 DEF PeopleInv
<1>3. \A s \in Organizers : Knows(request'[s], account', contacts', members', owns', trod', renamed')
  BY <1>1
<1>4. \A s, p \in Organizers : Unnamed(request'[s], request'[p])
  <2> SUFFICES ASSUME NEW s \in Organizers, NEW p \in Organizers PROVE Unnamed(request'[s], request'[p])
    OBVIOUS
  <2>1. CASE s # r /\ p # r
    BY <1>1, <2>1 DEF PeopleInv
  <2>2. CASE s = r \/ p = r
    BY <1>1, <2>2
  <2> QED BY <2>1, <2>2
<1>5. \A s, p \in Organizers : {s, p} \notin crossed' =>
        Flags(request'[s], request'[p], renamed) /\ (s # p => Apart(request'[s], request'[p], renamed))
  <2> SUFFICES ASSUME NEW s \in Organizers, NEW p \in Organizers, {s, p} \notin crossed'
               PROVE  Flags(request'[s], request'[p], renamed) /\ (s # p => Apart(request'[s], request'[p], renamed))
    OBVIOUS
  <2>1. CASE s # r /\ p # r
    <3>1. {s, p} \notin crossed
      OBVIOUS
    <3> QED BY <1>1, <2>1, <3>1 DEF PeopleInv
  <2>2. CASE s = r /\ p = r
    BY <1>1, <2>2
  <2>3. CASE s = r /\ p # r
    BY <1>1, <2>3
  <2>4. CASE s # r /\ p = r
    <3>1. {r, s} \notin crossed'
      <4>1. {s, p} = {r, s}
        BY <2>4
      <4> QED BY <4>1
    <3>2. Flags(e, request[s], renamed) /\ Apart(e, request[s], renamed)
      BY <2>4, <3>1
    <3>3. Flags(request[s], e, renamed) /\ Apart(request[s], e, renamed)
      BY <3>2, FlagsBoth DEF Apart
    <3> QED BY <1>1, <2>4, <3>3
  <2> QED BY <2>1, <2>2, <2>3, <2>4
<1> QED BY <1>1, <1>2, <1>3, <1>4, <1>5 DEF PeopleInv

(* A step of a request that runs and read nothing new of the others, or     *)
(* read who is listed.  Whom it is about to make has no account, and is     *)
(* flagged if it knows one of that name.                                    *)
LEMMA ImportGoes ==
  ASSUME PeopleInv, NEW r \in Organizers, NEW q, q = request[r], Running(q),
         NEW e \in Importing, request' = [request EXCEPT ![r] = e], ImportFits(e), e.into = q.into,
         Knows(e, account', contacts', members', owns', trod', renamed'),
         account' \in [Addresses -> Account \cup {None}],
         \A x \in Addresses : account[x] # None => account'[x] # None,
         \A s \in Organizers : \A x \in request[s].results :
           x.outcome = "created" /\ ~Awaited(request[s], x) => account'[x.email].name = account[x.email].name,
         contacts \subseteq contacts', members \subseteq members',
         \A x \in contacts' \cup members' : x \in Addresses /\ account'[x] # None,
         Listing!OwnWordsStay', UNCHANGED <<owns, trod, renamed, crossed>>,
         e.pc = "patch" /\ "name" \in e.patch => account'[Who(e)] # None /\ account'[Who(e)].name = None,
         \A x \in e.results : x.outcome = "created" =>
           \/ x \in q.results /\ (Awaited(e, x) \/ ~Awaited(q, x) \/ account[x.email] = None)
           \/ /\ q.pc = "find" /\ Awaited(e, x)
              /\ x.flagged \/ ~\E k \in q.known : k.name = x.name,
         Running(e) /\ e.pc # "list" /\ e.into = "directory" =>
           \/ q.pc # "list" /\ q.known \subseteq e.known
           \/ \A k \in contacts : [email |-> k, name |-> account[k].name] \in e.known
  PROVE  PeopleInv'
<1>1. /\ q \in Importing /\ ImportFits(q) /\ Knows(q, account, contacts, members, owns, trod, renamed)
      /\ \A s \in Organizers : request[s] \in Importing /\ ImportFits(request[s])
      /\ \A s \in Organizers : Knows(request[s], account, contacts, members, owns, trod, renamed)
  BY ImportNow
<1>2. \A s \in Organizers : Knows(request[s], account', contacts', members', owns', trod', renamed')
  <2> SUFFICES ASSUME NEW s \in Organizers
               PROVE  Knows(request[s], account', contacts', members', owns', trod', renamed')
    OBVIOUS
  <2>0. PICK p : p = request[s]
    OBVIOUS
  <2>1. p \in Importing /\ ImportFits(p) /\ Knows(p, account, contacts, members, owns, trod, renamed)
    BY <1>1, <2>0
  <2>2. \A x \in p.results : x.outcome = "created" /\ ~Awaited(p, x) => account'[x.email].name = account[x.email].name
    BY <2>0
  <2>3. Knows(p, account', contacts', members', owns', trod', renamed')
    <3>1. trod \subseteq trod' /\ (Who(p) \in owns' => Who(p) \in owns \/ Who(p) \in trod')
      OBVIOUS
    <3> QED BY <2>1, <2>2, <3>1, KnowsStill
  <2> QED BY <2>0, <2>3
<1>3. \A x \in contacts' \cup members' \cup owns' : x \in Addresses /\ account'[x] # None
  BY DEF PeopleInv
(* Nobody whom it is to name was made by an import.                         *)
<1>4. \A p : /\ p \in Importing /\ Knows(p, account', contacts', members', owns', trod', renamed')
             => Unnamed(p, e)
  <2>1. None \notin Names
    BY PeopleOK
  <2> QED BY <2>1 DEF Unnamed, Knows, Bears, Importing, Report
<1>5. ASSUME NEW s \in Organizers PROVE Unnamed(e, request[s])
  <2> SUFFICES ASSUME request[s].pc = "patch", "name" \in request[s].patch,
                      NEW x \in e.results, x.outcome = "created", x.email = Who(request[s])
               PROVE  Awaited(e, x)
    BY DEF Unnamed
  <2>1. account[x.email] # None
    BY <1>1 DEF Knows
  <2>2. x \in q.results => Awaited(q, x)
    BY DEF PeopleInv, Unnamed
  <2> QED BY <2>1, <2>2
<1>6. ASSUME NEW s \in Organizers, {r, s} \notin crossed, q.pc = "find", q.into = "directory",
             request[s].into = "directory", NEW y \in request[s].results, y.outcome = "created"
      PROVE  y.email \in renamed \/ \E k \in q.known : k.name = y.name
  <2>1. Known(q, y, renamed)
    <3>1. CASE s = r
      BY <1>1, <1>6, <3>1 DEF Knows, Running, Current
    <3>2. CASE s # r
      <4>1. ~Running(request[s]) /\ Recalls(request[s], q, renamed)
        BY <1>6, <3>2 DEF PeopleInv, Apart
      <4>2. request[s].pc = "done"
        BY <1>1, <1>6, <4>1 DEF Running, ImportFits
      <4> QED BY <1>6, <4>1, <4>2 DEF Recalls, Running
    <3> QED BY <3>1, <3>2
  <2> QED BY <2>1 DEF Known
<1>7. ASSUME NEW s \in Organizers, {r, s} \notin crossed PROVE Flags(e, request[s], renamed)
  <2> SUFFICES ASSUME e.into = "directory", request[s].into = "directory",
                      NEW x \in e.results, NEW y \in request[s].results,
                      x.email # y.email, x.name = y.name, x.outcome = "created", y.outcome = "created"
               PROVE  x.flagged \/ y.flagged \/ {x.email, y.email} \cap renamed # {}
    BY DEF Flags
  <2>0. Flags(q, request[s], renamed) /\ q.into = "directory"
    BY <1>7 DEF PeopleInv
  <2>1. CASE x \in q.results
    BY <2>0, <2>1 DEF Flags
  <2>2. CASE x \notin q.results
    BY <1>6, <1>7, <2>2
  <2> QED BY <2>1, <2>2
<1>8. {r, r} \notin crossed => Flags(e, e, renamed)
  <2> SUFFICES ASSUME {r, r} \notin crossed, e.into = "directory", NEW x \in e.results, NEW y \in e.results,
                      x.email # y.email, x.name = y.name, x.outcome = "created", y.outcome = "created"
               PROVE  x.flagged \/ y.flagged \/ {x.email, y.email} \cap renamed # {}
    BY DEF Flags
  <2>1. Flags(e, q, renamed) /\ Flags(q, e, renamed)
    BY <1>7, FlagsBoth
  <2>2. CASE x \in q.results \/ y \in q.results
    BY <2>1, <2>2 DEF Flags
  <2>3. CASE x \notin q.results /\ y \notin q.results
    BY <2>3 DEF Awaited
  <2> QED BY <2>2, <2>3
<1>9. ASSUME NEW s \in Organizers \ {r}, {r, s} \notin crossed PROVE Apart(e, request[s], renamed)
  <2>1. ~Running(request[s]) /\ Recalls(request[s], q, renamed)
    BY <1>9 DEF PeopleInv, Apart
  <2>2. Recalls(e, request[s], renamed)
    BY <2>1 DEF Recalls
  <2>3. Recalls(request[s], e, renamed)
    <3> SUFFICES ASSUME request[s].pc = "done", request[s].into = "directory",
                        Running(e), e.pc # "list", e.into = "directory",
                        NEW x \in request[s].results, x.outcome = "created"
                 PROVE  Known(e, x, renamed)
      BY DEF Recalls
    <3>1. CASE q.pc # "list" /\ q.known \subseteq e.known
      BY <2>1, <3>1 DEF Recalls, Known
    <3>2. CASE \A k \in contacts : [email |-> k, name |-> account[k].name] \in e.known
      <4>1. x.email \in contacts /\ (x.email \notin renamed => account[x.email].name = x.name)
        BY <1>1 DEF Knows, Current, Where, Awaited, Bears
      <4> QED BY <3>2, <4>1 DEF Known
    <3> QED BY <3>1, <3>2
  <2> QED BY <2>1, <2>2, <2>3 DEF Apart
<1>10. Unnamed(e, e) /\ \A s \in Organizers \ {r} : Unnamed(e, request[s]) /\ Unnamed(request[s], e)
  BY <1>1, <1>2, <1>4, <1>5
<1> QED BY <1>2, <1>3, <1>7, <1>8, <1>9, <1>10, PeopleStep

(* A step of the people themselves. *)
LEMMA PeopleMove ==
  ASSUME PeopleInv, UNCHANGED <<request, crossed>>,
         account' \in [Addresses -> Account \cup {None}],
         \A x \in Addresses : account[x] # None => account'[x] # None,
         \A s \in Organizers : \A x \in request[s].results :
           x.outcome = "created" /\ ~Awaited(request[s], x) =>
             account'[x.email].name = account[x.email].name
             \/ (x.email \in renamed' /\ account'[x.email].name # None),
         contacts \subseteq contacts', members \subseteq members', trod \subseteq trod',
         renamed \subseteq renamed',
         \A x \in contacts' \cup members' \cup owns' : x \in Addresses /\ account'[x] # None,
         Listing!OwnWordsStay',
         \A x \in owns' : Listing!Filling(x) => x \in owns \cup trod'
  PROVE  PeopleInv'
<1>1. ASSUME NEW s \in Organizers
      PROVE  Knows(request[s], account', contacts', members', owns', trod', renamed')
  <2>0. PICK p : p = request[s]
    OBVIOUS
  <2>1. p \in Importing /\ ImportFits(p) /\ Knows(p, account, contacts, members, owns, trod, renamed)
    BY <2>0, ImportNow
  <2>2. p.pc = "patch" /\ "bio" \in p.patch /\ Who(p) \in owns' => Who(p) \in owns \/ Who(p) \in trod'
    BY <2>0 DEF Listing!Filling, Listing!At, Who
  <2>3. \A x \in p.results : x.outcome = "created" /\ ~Awaited(p, x) =>
          account'[x.email].name = account[x.email].name
          \/ (x.email \in renamed' /\ account'[x.email].name # None)
    BY <2>0
  <2>4. Knows(p, account', contacts', members', owns', trod', renamed')
    BY <2>1, <2>2, <2>3, KnowsStill
  <2> QED BY <2>0, <2>4
<1>2. ASSUME NEW p, NEW q
      PROVE  /\ Flags(p, q, renamed) => Flags(p, q, renamed')
             /\ Apart(p, q, renamed) => Apart(p, q, renamed')
  BY DEF Flags, Apart, Recalls, Known
<1> QED BY <1>1, <1>2 DEF PeopleInv

(* What an organizer brings: nobody is reported before it is looked at.     *)
LEMMA ImportBegins ==
  ASSUME PeopleInv, NEW r \in Organizers, NEW into \in {"directory", "roster"}, NEW file \in Files,
         Listing!Begin(r, into, file)
  PROVE  PeopleInv'
<1>0. PICK e : e = [Listing!Idle EXCEPT !.pc = IF into = "directory" THEN "list" ELSE "find",
                                        !.into = into, !.rows = Listing!FoldLines(file)]
  OBVIOUS
<1>1. /\ request' = [request EXCEPT ![r] = e] /\ request[r].pc = "idle"
      /\ crossed' = crossed \cup {{r, q} : q \in {p \in Organizers : Listing!Active(p)}}
      /\ UNCHANGED <<account, contacts, members, owns, trod, renamed>>
  BY <1>0 DEF Listing!Begin, Listing!Set, Listing!At
<1>2. Listing!FoldLines(file) \in Seq(Brought) \ {<<>>}
  BY PeopleOK, FoldRows
<1>3. /\ e \in Importing /\ e.pc \in {"list", "find"} /\ e.rows # <<>> /\ e.into = into
      /\ e.results = {} /\ e.known = {} /\ (into = "directory" => e.pc = "list")
  BY <1>0, <1>2, IdleImport DEF Importing
<1>4. ImportFits(e) /\ Knows(e, account', contacts', members', owns', trod', renamed')
  BY <1>3 DEF ImportFits, Knows
<1>5. \A p : Unnamed(p, e) /\ Unnamed(e, p) /\ Flags(e, p, renamed)
  BY <1>3 DEF Unnamed, Flags
<1>6. ASSUME NEW s \in Organizers \ {r}, {r, s} \notin crossed' PROVE Apart(e, request[s], renamed)
  <2>1. ~Listing!Active(s)
    BY <1>1, <1>6
  <2>2. ~Running(request[s])
    BY <2>1 DEF Listing!Active, Running
  <2> QED BY <1>3, <2>2 DEF Apart, Recalls
<1>7. \A s \in Organizers : Knows(request[s], account', contacts', members', owns', trod', renamed')
  BY <1>1, ImportNow
<1>8. /\ account' \in [Addresses -> Account \cup {None}] /\ Listing!OwnWordsStay'
      /\ \A x \in contacts' \cup members' \cup owns' : x \in Addresses /\ account'[x] # None
  BY <1>1 DEF PeopleInv, Listing!OwnWordsStay
<1> QED BY <1>1, <1>3, <1>4, <1>5, <1>6, <1>7, <1>8, PeopleStep

(* A step that leaves the people alone. *)
LEMMA PeopleStay ==
  ASSUME PeopleInv, UNCHANGED <<account, contacts, members, owns, trod, renamed, crossed>>
  PROVE  /\ account' \in [Addresses -> Account \cup {None}]
         /\ \A x \in Addresses : account[x] # None => account'[x] # None
         /\ \A s \in Organizers : \A x \in request[s].results :
              x.outcome = "created" /\ ~Awaited(request[s], x) => account'[x.email].name = account[x.email].name
         /\ contacts \subseteq contacts' /\ members \subseteq members'
         /\ \A x \in contacts' \cup members' : x \in Addresses /\ account'[x] # None
         /\ Listing!OwnWordsStay'
BY DEF PeopleInv, Listing!OwnWordsStay

LEMMA PeopleAreListed ==
  ASSUME PeopleInv, NEW r \in Organizers, Listing!List(r)
  PROVE  PeopleInv'
<1>0. PICK q : q = request[r]
  OBVIOUS
<1>a. PICK k : k = {[email |-> e, name |-> account[e].name] : e \in Listing!Listed}
  OBVIOUS
<1>b. PICK e : e = [q EXCEPT !.pc = "find", !.known = k]
  OBVIOUS
<1>1. /\ q.pc = "list" /\ request' = [request EXCEPT ![r] = e]
      /\ UNCHANGED <<account, contacts, members, owns, trod, renamed, crossed>>
  BY <1>0, <1>a, <1>b DEF Listing!List, Listing!Set, Listing!At, Listing!people
<1>2. q \in Importing /\ ImportFits(q) /\ Running(q)
  BY <1>0, <1>1, ImportNow DEF Running
<1>3. k \subseteq Entry /\ \A x \in k : x.email \in contacts \cup members
  BY <1>a DEF PeopleInv, Listing!Listed, Entry, Account
<1>4. /\ e \in Importing /\ e.pc = "find" /\ e.into = q.into /\ e.results = q.results /\ e.rows = q.rows
      /\ e.known = k
  BY <1>b, <1>2, <1>3 DEF Importing
<1>5. q.results = {} /\ ImportFits(e) /\ Knows(e, account', contacts', members', owns', trod', renamed')
  BY <1>1, <1>2, <1>3, <1>4 DEF ImportFits, Knows, Running
<1>6. \A x \in contacts : [email |-> x, name |-> account[x].name] \in e.known
  BY <1>a, <1>4 DEF Listing!Listed
<1>7. \A x \in e.results : FALSE
  BY <1>4, <1>5
<1>8. e.pc # "patch"
  BY <1>4
<1> QED BY <1>0, <1>1, <1>2, <1>4, <1>5, <1>6, <1>7, <1>8, PeopleStay, ImportGoes

LEMMA PersonIsSought ==
  ASSUME PeopleInv, NEW r \in Organizers, Listing!Find(r)
  PROVE  PeopleInv'
<1>0. PICK q : q = request[r]
  OBVIOUS
<1>a. PICK row : row = Head(q.rows)
  OBVIOUS
<1>1. q.pc = "find" /\ UNCHANGED <<account, contacts, members, owns, trod, renamed, crossed>>
  BY <1>0 DEF Listing!Find, Listing!At, Listing!people
<1>2. /\ q \in Importing /\ ImportFits(q) /\ Knows(q, account, contacts, members, owns, trod, renamed)
      /\ Running(q) /\ q.rows # <<>> /\ q.into \in {"directory", "roster"}
  BY <1>0, <1>1, ImportNow DEF Running, ImportFits
<1>3. row \in Brought /\ Who(q) = row.email /\ row.email \in Addresses /\ row.name \in Names
  BY <1>a, <1>2, ImportRows DEF Who
<1>4. \A x \in q.results : ~Awaited(q, x) /\ ~Current(q, x)
  BY <1>1 DEF Awaited, Current
<1>5. CASE \E c \in q.known : c.email = row.email
  <2>0. PICK y : y = Listing!Result(row, "known", FALSE)
    OBVIOUS
  <2>1. y \in Report /\ y.outcome = "known" /\ y.email = row.email
    BY <1>3, <2>0 DEF Listing!Result, Report
  <2>2. PICK p : p = [q EXCEPT !.results = @ \cup {y}]
    OBVIOUS
  <2>3. /\ p \in Importing /\ p.rows = q.rows /\ p.into = q.into /\ p.known = q.known
        /\ p.results = q.results \cup {y}
    BY <1>2, <2>1, <2>2 DEF Importing
  <2>4. Listing!Ended(r, p)
    BY <1>0, <1>a, <1>5, <2>0, <2>2 DEF Listing!Find
  <2>5. row.email \in contacts \cup members
    BY <1>2, <1>5 DEF Knows
  <2>6. Told(p, account, contacts, members, renamed)
    <3>1. \A x \in q.results : /\ x.email \in Where(p, x, contacts, members)
                               /\ x.outcome = "created" => Bears(x, account, renamed) /\ (p.into = "directory" => Known(p, x, renamed))
      BY <1>2, <1>4, <2>3 DEF Knows, Where, Known
    <3> QED BY <1>2, <2>1, <2>3, <2>5, <3>1 DEF Told, Knows, Where
  <2>7. PICK e \in Importing :
          /\ request' = [request EXCEPT ![r] = e] /\ e.into = p.into /\ e.results = p.results
          /\ e.pc \in {"find", "done"} /\ (e.pc = "find" => e.known = p.known)
          /\ ImportFits(e) /\ Knows(e, account, contacts, members, owns, trod, renamed)
    <3>1. p \in Importing /\ p.rows # <<>> /\ p.into \in {"directory", "roster"}
      BY <1>2, <2>3
    <3> QED BY <2>4, <2>6, <3>1, ImportEnds
  <2>8. /\ Knows(e, account', contacts', members', owns', trod', renamed') /\ e.into = q.into /\ e.pc # "patch"
        /\ Running(e) => e.known = q.known
    BY <1>1, <2>3, <2>7 DEF Running
  <2>9. \A x \in e.results : x.outcome = "created" => x \in q.results /\ ~Awaited(q, x)
    BY <1>4, <2>1, <2>3, <2>7
  <2> QED BY <1>0, <1>1, <1>2, <2>7, <2>8, <2>9, PeopleStay, ImportGoes
<1>6. CASE ~\E c \in q.known : c.email = row.email
  <2>0. PICK there : there = account[row.email]
    OBVIOUS
  <2>a. PICK fills : fills = IF there = None THEN {} ELSE Listing!Patch(there, row)
    OBVIOUS
  <2>b. PICK l : l = IF there = None THEN "create" ELSE IF fills = {} THEN "enter" ELSE "patch"
    OBVIOUS
  <2>c. PICK f : f = Listing!Collides(q.known, row)
    OBVIOUS
  <2>d. PICK y : y = Listing!Result(row, IF there = None THEN "created" ELSE "merged", f)
    OBVIOUS
  <2>e. PICK e : e = [q EXCEPT !.patch = fills, !.pc = l, !.results = @ \cup {y}]
    OBVIOUS
  <2>1. request' = [request EXCEPT ![r] = e]
    <3>1. request' = [request EXCEPT ![r] =
            [q EXCEPT
                !.patch = IF there = None THEN {} ELSE Listing!Patch(there, row),
                !.pc = IF there = None THEN "create" ELSE IF Listing!Patch(there, row) = {} THEN "enter" ELSE "patch",
                !.results = @ \cup {Listing!Result(row, IF there = None THEN "created" ELSE "merged", Listing!Collides(q.known, row))}]]
      BY <1>0, <1>a, <1>6, <2>0 DEF Listing!Find, Listing!Set
    <3>2. l = IF there = None THEN "create" ELSE IF Listing!Patch(there, row) = {} THEN "enter" ELSE "patch"
      BY <2>a, <2>b
    <3> QED BY <2>a, <2>c, <2>d, <2>e, <3>1, <3>2
  <2>2. f \in BOOLEAN /\ (f <=> \E c \in q.known : c.name = row.name)
    BY <2>c DEF Listing!Collides
  <2>3. /\ y \in Report /\ y.email = row.email /\ y.name = row.name /\ y.flagged = f
        /\ y.outcome = IF there = None THEN "created" ELSE "merged"
    BY <1>3, <2>2, <2>d DEF Listing!Result, Report
  <2>4. /\ fills \subseteq {"name", "bio"}
        /\ "name" \in fills => there # None /\ there.name = None
        /\ "bio" \in fills => there # None /\ there.bio = None
    BY <2>a DEF Listing!Patch
  <2>5. /\ e \in Importing /\ e.rows = q.rows /\ e.into = q.into /\ e.known = q.known /\ e.patch = fills
        /\ e.pc = l /\ e.results = q.results \cup {y} /\ l \in {"create", "enter", "patch"}
        /\ there = None <=> l = "create"
    BY <1>2, <2>3, <2>4, <2>b, <2>e DEF Importing
  <2>6. Who(e) = row.email /\ ImportFits(e) /\ Running(e)
    BY <1>2, <1>3, <2>5 DEF Who, ImportFits, Running
  <2>7. Current(e, y) /\ (y.outcome = "created" => Awaited(e, y) /\ y.name = Head(e.rows).name)
    BY <1>a, <2>3, <2>5, <2>6 DEF Current, Awaited
  <2>8. \A x \in q.results : x.outcome = "created" => ~Awaited(e, x)
    BY <1>2, <1>4, <2>0, <2>5, <2>6 DEF Awaited, Knows, Bears
  <2>9. Knows(e, account, contacts, members, owns, trod, renamed)
    <3>1. l = "patch" /\ "bio" \in fills /\ row.email \in owns => row.email \in trod
      <4>1. None # "own"
        BY PeopleOK
      <4> QED BY <2>0, <2>4, <4>1 DEF PeopleInv, Listing!OwnWordsStay
    <3>2. \A x \in q.results : x.email \in Where(e, x, contacts, members)
      BY <1>2, <1>4, <2>5 DEF Knows, Where
    <3>3. \A x \in q.results : x.outcome = "created" => Bears(x, account, renamed) /\ (e.into = "directory" => Known(e, x, renamed))
      BY <1>2, <1>4, <2>5 DEF Knows, Known
    <3>4. \A x \in e.results : Current(e, x) \/ x.email \in Where(e, x, contacts, members)
      BY <2>5, <2>7, <3>2
    <3>5. \A x \in e.results : x.outcome = "created" =>
            /\ IF Awaited(e, x) THEN x.name = Head(e.rows).name ELSE Bears(x, account, renamed)
            /\ e.into = "directory" /\ Running(e) => Current(e, x) \/ Known(e, x, renamed)
      BY <2>5, <2>7, <2>8, <3>3
    <3>6. \A k \in e.known : k.email \in contacts \cup members
      BY <1>2, <2>5 DEF Knows
    <3> QED BY <2>0, <2>5, <2>6, <3>1, <3>4, <3>5, <3>6 DEF Knows
  <2>10. Knows(e, account', contacts', members', owns', trod', renamed')
    BY <1>1, <2>9
  <2>11. e.pc = "patch" /\ "name" \in e.patch => account'[Who(e)] # None /\ account'[Who(e)].name = None
    BY <1>1, <2>0, <2>4, <2>5, <2>6
  <2>12. \A x \in e.results : x.outcome = "created" =>
           \/ x \in q.results /\ ~Awaited(q, x)
           \/ q.pc = "find" /\ Awaited(e, x) /\ (x.flagged \/ ~\E k \in q.known : k.name = x.name)
    BY <1>1, <1>4, <2>2, <2>3, <2>5, <2>7
  <2> QED BY <1>0, <1>1, <1>2, <2>1, <2>5, <2>6, <2>10, <2>11, <2>12, PeopleStay, ImportGoes
<1> QED BY <1>5, <1>6

(* A row is given up. *)
LEMMA RowFails ==
  ASSUME PeopleInv, NEW r \in Organizers, Running(request[r]), request[r].pc # "list",
         Listing!Ended(r, Listing!Failed(request[r])),
         UNCHANGED <<account, contacts, members, owns, trod, renamed, crossed>>
  PROVE  PeopleInv'
<1>0. PICK q : q = request[r]
  OBVIOUS
<1>1. /\ q \in Importing /\ ImportFits(q) /\ Knows(q, account, contacts, members, owns, trod, renamed)
      /\ Running(q) /\ q.rows # <<>> /\ q.into \in {"directory", "roster"} /\ q.pc # "list"
  BY <1>0, ImportNow DEF ImportFits
<1>2. PICK p \in Importing :
        /\ p = Listing!Failed(q) /\ p.rows = q.rows /\ p.into = q.into /\ p.known = q.known
        /\ \A x \in p.results : x \in q.results /\ ~Awaited(q, x)
        /\ Told(p, account, contacts, members, renamed)
  BY <1>1, ImportFails
<1>3. Listing!Ended(r, p)
  BY <1>0, <1>2
<1>4. PICK e \in Importing :
        /\ request' = [request EXCEPT ![r] = e] /\ e.into = p.into /\ e.results = p.results
        /\ e.pc \in {"find", "done"} /\ (e.pc = "find" => e.known = p.known)
        /\ ImportFits(e) /\ Knows(e, account, contacts, members, owns, trod, renamed)
  <2>1. p.rows # <<>> /\ p.into \in {"directory", "roster"} /\ Told(p, account, contacts, members, renamed)
    BY <1>1, <1>2
  <2> QED BY <1>3, <2>1, ImportEnds
<1>5. /\ Knows(e, account', contacts', members', owns', trod', renamed') /\ e.into = q.into /\ e.pc # "patch"
      /\ Running(e) => e.known = q.known
  BY <1>2, <1>4 DEF Running
<1>6. \A x \in e.results : x \in q.results /\ ~Awaited(q, x)
  BY <1>2, <1>4
<1> QED BY <1>0, <1>1, <1>4, <1>5, <1>6, PeopleStay, ImportGoes

LEMMA RequestFails ==
  ASSUME PeopleInv, NEW r \in Organizers, Listing!Fail(r)
  PROVE  PeopleInv'
<1>0. PICK q : q = request[r]
  OBVIOUS
<1>1. Running(q) /\ UNCHANGED <<account, contacts, members, owns, trod, renamed, crossed>>
  BY <1>0 DEF Listing!Fail, Listing!Active, Listing!people, Running
<1>2. CASE q.pc # "list"
  BY <1>0, <1>1, <1>2, RowFails DEF Listing!Fail, Listing!At
<1>3. CASE q.pc = "list"
  <2>0. PICK e : e = [Listing!Idle EXCEPT !.pc = "done", !.into = q.into]
    OBVIOUS
  <2>1. request' = [request EXCEPT ![r] = e]
    BY <1>0, <1>3, <2>0 DEF Listing!Fail, Listing!At, Listing!Set
  <2>2. q \in Importing /\ ImportFits(q)
    BY <1>0, ImportNow
  <2>3. /\ e \in Importing /\ e.pc = "done" /\ e.into = q.into /\ e.results = {} /\ e.known = {}
        /\ ~Running(e)
    BY <2>0, <2>2, IdleImport DEF Importing, Running
  <2>4. ImportFits(e) /\ Knows(e, account', contacts', members', owns', trod', renamed')
    BY <2>3 DEF ImportFits, Knows
  <2>5. e.pc # "patch" /\ \A x \in e.results : FALSE
    BY <2>3
  <2> QED BY <1>0, <1>1, <2>1, <2>3, <2>4, <2>5, PeopleStay, ImportGoes
<1> QED BY <1>2, <1>3

(* What writing an account of one address comes to. *)
LEMMA AccountWritten ==
  ASSUME PeopleInv, NEW w \in Addresses, NEW to \in Account, account' = [account EXCEPT ![w] = to]
  PROVE  /\ account' \in [Addresses -> Account \cup {None}]
         /\ \A x \in Addresses : account[x] # None => account'[x] # None
         /\ account'[w] = to /\ to # None
         /\ \A x \in Addresses \ {w} : account'[x] = account[x]
BY PeopleOK DEF PeopleInv

(* Whom an import made has the name it gave. *)
LEMMA MadeAreNamed ==
  ASSUME PeopleInv, NEW s \in Organizers, NEW x \in request[s].results,
         x.outcome = "created", ~Awaited(request[s], x)
  PROVE  /\ x.email \in Addresses /\ account[x.email] # None
         /\ account[x.email].name # None /\ x.name # None
         /\ x.email \notin renamed => account[x.email].name = x.name
<1>1. request[s] \in Importing /\ Knows(request[s], account, contacts, members, owns, trod, renamed)
  BY ImportNow
<1> QED BY <1>1, PeopleOK DEF Knows, Bears, Importing, Report

LEMMA PersonIsMade ==
  ASSUME PeopleInv, NEW r \in Organizers, Listing!Create(r)
  PROVE  PeopleInv'
<1>0. PICK q : q = request[r]
  OBVIOUS
<1>a. PICK row : row = Head(q.rows)
  OBVIOUS
<1>1. q.pc = "create" /\ UNCHANGED <<contacts, members, owns, trod, renamed, crossed>>
  BY <1>0 DEF Listing!Create, Listing!At, Listing!people
<1>2. /\ q \in Importing /\ ImportFits(q) /\ Knows(q, account, contacts, members, owns, trod, renamed)
      /\ Running(q) /\ q.rows # <<>> /\ q.into \in {"directory", "roster"}
  BY <1>0, <1>1, ImportNow DEF Running, ImportFits
<1>3. row \in Brought /\ Who(q) = row.email /\ row.email \in Addresses /\ row.name \in Names
  BY <1>a, <1>2, ImportRows DEF Who
<1>4. CASE account[row.email] # None
  <2>1. Listing!Ended(r, Listing!Failed(request[r])) /\ UNCHANGED account
    BY <1>0, <1>a, <1>4 DEF Listing!Create
  <2> QED BY <1>0, <1>1, <1>2, <2>1, RowFails
<1>5. CASE account[row.email] = None
  <2>0. PICK to : to = [name |-> row.name, bio |-> IF row.bio THEN r ELSE None]
    OBVIOUS
  <2>a. PICK e : e = [q EXCEPT !.pc = "enter"]
    OBVIOUS
  <2>1. /\ account' = [account EXCEPT ![row.email] = to] /\ request' = [request EXCEPT ![r] = e]
    BY <1>0, <1>a, <1>5, <2>0, <2>a DEF Listing!Create, Listing!Goto, Listing!Set
  <2>2. to \in Account /\ to.name = row.name
    BY <1>3, <2>0 DEF Account
  <2>3. /\ account' \in [Addresses -> Account \cup {None}]
        /\ \A x \in Addresses : account[x] # None => account'[x] # None
        /\ account'[row.email] # None /\ account'[row.email].name = row.name
        /\ \A x \in Addresses \ {row.email} : account'[x] = account[x]
    BY <1>3, <2>1, <2>2, AccountWritten
  <2>4. /\ e \in Importing /\ e.rows = q.rows /\ e.into = q.into /\ e.known = q.known
        /\ e.pc = "enter" /\ e.results = q.results
    BY <1>2, <2>a DEF Importing
  <2>5. Who(e) = row.email /\ ImportFits(e) /\ Running(e)
    BY <1>2, <1>3, <2>4 DEF Who, ImportFits, Running
  <2>6. \A x \in q.results : /\ Current(e, x) <=> Current(q, x)
                             /\ Current(e, x) <=> Awaited(q, x) /\ ~Awaited(e, x)
    BY <1>1, <1>3, <2>4, <2>5 DEF Current, Awaited
  <2>7. \A x \in q.results : Awaited(q, x) <=> x.email = row.email
    BY <1>1, <1>3 DEF Awaited
  <2>8. Knows(e, account', contacts', members', owns', trod', renamed')
    <3>1. \A x \in e.results : x.outcome = "created" => Bears(x, account', renamed')
      <4> SUFFICES ASSUME NEW x \in q.results, x.outcome = "created" PROVE Bears(x, account', renamed')
        BY <2>4
      <4>1. CASE x.email = row.email
        <5>1. x.name = row.name
          BY <1>2, <1>a, <2>7, <4>1 DEF Knows
        <5> QED BY <1>1, <1>3, <2>3, <4>1, <5>1, PeopleOK DEF Bears
      <4>2. CASE x.email # row.email
        <5>1. Bears(x, account, renamed) /\ x.email \in Addresses
          BY <1>2, <2>7, <4>2 DEF Knows, Importing, Report
        <5> QED BY <1>1, <2>3, <4>2, <5>1 DEF Bears
      <4> QED BY <4>1, <4>2
    <3>2. \A x \in e.results : ~Awaited(e, x)
      BY <2>4 DEF Awaited
    <3>3. \A x \in e.results : Current(e, x) \/ x.email \in Where(e, x, contacts', members')
      BY <1>1, <1>2, <2>4, <2>6 DEF Knows, Where
    <3>4. \A x \in e.results : x.outcome = "created" /\ e.into = "directory" => Current(e, x) \/ Known(e, x, renamed)
      BY <1>2, <2>4, <2>6 DEF Knows, Known
    <3>5. \A k \in e.known : k.email \in contacts' \cup members'
      BY <1>1, <1>2, <2>4 DEF Knows
    <3> QED BY <1>1, <2>3, <2>4, <2>5, <3>1, <3>2, <3>3, <3>4, <3>5 DEF Knows
  <2>9. \A s \in Organizers : \A x \in request[s].results :
          x.outcome = "created" /\ ~Awaited(request[s], x) => account'[x.email].name = account[x.email].name
    BY <1>5, <2>3, MadeAreNamed
  <2>10. /\ \A x \in contacts' \cup members' : x \in Addresses /\ account'[x] # None
         /\ contacts \subseteq contacts' /\ members \subseteq members'
    BY <1>1, <2>3 DEF PeopleInv
  <2>11. Listing!OwnWordsStay'
    BY <1>1, <1>5, <2>3 DEF PeopleInv, Listing!OwnWordsStay
  <2>12. \A x \in e.results : x.outcome = "created" =>
           \/ x \in q.results /\ (Awaited(e, x) \/ ~Awaited(q, x) \/ account[x.email] = None)
           \/ /\ q.pc = "find" /\ Awaited(e, x)
              /\ x.flagged \/ ~\E k \in q.known : k.name = x.name
    BY <1>5, <2>4, <2>7
  <2>13. e.pc # "patch" /\ q.pc # "list" /\ q.known \subseteq e.known /\ e.into = q.into
    BY <1>1, <2>4
  <2>14. Running(q) /\ UNCHANGED <<owns, trod, renamed, crossed>> /\ r \in Organizers /\ q = request[r]
    BY <1>0, <1>1, <1>2
  <2> QED BY <2>1, <2>3, <2>4, <2>5, <2>8, <2>9, <2>10, <2>11, <2>12, <2>13, <2>14, ImportGoes
<1> QED BY <1>4, <1>5

LEMMA PersonIsFilled ==
  ASSUME PeopleInv, NEW r \in Organizers, Listing!Fill(r)
  PROVE  PeopleInv'
<1>0. PICK q : q = request[r]
  OBVIOUS
<1>a. PICK row : row = Head(q.rows)
  OBVIOUS
<1>b. PICK old : old = account[row.email]
  OBVIOUS
<1>c. PICK to : to = [name |-> IF "name" \in q.patch THEN row.name ELSE old.name,
                      bio |-> IF "bio" \in q.patch THEN r ELSE old.bio]
  OBVIOUS
<1>d. PICK e : e = [q EXCEPT !.pc = "enter"]
  OBVIOUS
<1>1. /\ q.pc = "patch" /\ UNCHANGED <<contacts, members, owns, trod, renamed, crossed>>
      /\ request' = [request EXCEPT ![r] = e]
  BY <1>0, <1>d DEF Listing!Fill, Listing!At, Listing!people, Listing!Goto, Listing!Set
<1>2. /\ q \in Importing /\ ImportFits(q) /\ Knows(q, account, contacts, members, owns, trod, renamed)
      /\ Running(q) /\ q.rows # <<>> /\ q.into \in {"directory", "roster"}
  BY <1>0, <1>1, ImportNow DEF Running, ImportFits
<1>3. row \in Brought /\ Who(q) = row.email /\ row.email \in Addresses /\ row.name \in Names
  BY <1>a, <1>2, ImportRows DEF Who
<1>4. old \in Account /\ old # None
  BY <1>1, <1>2, <1>3, <1>b DEF Knows, PeopleInv
<1>5. to \in Account /\ (to.bio = r \/ to.bio = old.bio) /\ ("name" \notin q.patch => to.name = old.name)
      /\ ("bio" \notin q.patch => to.bio = old.bio)
  BY <1>3, <1>4, <1>c DEF Account
<1>6. account' = [account EXCEPT ![row.email] = to]
  <2>1. account' = [account EXCEPT ![row.email] =
           [name |-> IF "name" \in q.patch THEN row.name ELSE @.name,
            bio |-> IF "bio" \in q.patch THEN r ELSE @.bio]]
    BY <1>0, <1>a DEF Listing!Fill
  <2> QED BY <1>3, <1>b, <1>c, <2>1 DEF PeopleInv
<1>7. /\ account' \in [Addresses -> Account \cup {None}]
      /\ \A x \in Addresses : account[x] # None => account'[x] # None
      /\ account'[row.email] = to /\ to # None
      /\ \A x \in Addresses \ {row.email} : account'[x] = account[x]
  BY <1>3, <1>5, <1>6, AccountWritten
<1>8. \A s \in Organizers : \A x \in request[s].results :
        x.outcome = "created" /\ ~Awaited(request[s], x) => account'[x.email].name = account[x.email].name
  <2> SUFFICES ASSUME NEW s \in Organizers, NEW x \in request[s].results,
                      x.outcome = "created", ~Awaited(request[s], x)
               PROVE  account'[x.email].name = account[x.email].name
    OBVIOUS
  <2>1. x.email \in Addresses
    BY MadeAreNamed
  <2>2. CASE x.email = row.email
    <3>1. Unnamed(request[s], q)
      BY <1>0 DEF PeopleInv
    <3>2. "name" \notin q.patch
      BY <1>1, <1>3, <2>2, <3>1 DEF Unnamed
    <3> QED BY <1>5, <1>7, <1>b, <2>2, <3>2
  <2> QED BY <1>7, <2>1, <2>2
<1>9. /\ e \in Importing /\ e.rows = q.rows /\ e.into = q.into /\ e.known = q.known
      /\ e.pc = "enter" /\ e.results = q.results
  BY <1>2, <1>d DEF Importing
<1>10. Who(e) = row.email /\ ImportFits(e) /\ Running(e)
  BY <1>2, <1>3, <1>9 DEF Who, ImportFits, Running
<1>11. \A x \in q.results : (Current(e, x) <=> Current(q, x)) /\ ~Awaited(q, x) /\ ~Awaited(e, x)
  BY <1>1, <1>3, <1>9, <1>10 DEF Current, Awaited
<1>12. Knows(e, account', contacts', members', owns', trod', renamed')
  <2>1. \A x \in e.results : x.outcome = "created" => Bears(x, account', renamed')
    <3> SUFFICES ASSUME NEW x \in q.results, x.outcome = "created" PROVE Bears(x, account', renamed')
      BY <1>9
    <3>1. /\ x.email \in Addresses /\ account[x.email] # None /\ account[x.email].name # None
          /\ x.email \notin renamed => account[x.email].name = x.name
      BY <1>0, <1>11, MadeAreNamed
    <3>2. account'[x.email].name = account[x.email].name
      BY <1>0, <1>8, <1>11
    <3> QED BY <1>1, <1>7, <3>1, <3>2 DEF Bears
  <2>2. \A x \in e.results : Current(e, x) \/ x.email \in Where(e, x, contacts', members')
    BY <1>1, <1>2, <1>9, <1>11 DEF Knows, Where
  <2>3. \A x \in e.results : x.outcome = "created" /\ e.into = "directory" => Current(e, x) \/ Known(e, x, renamed)
    BY <1>2, <1>9, <1>11 DEF Knows, Known
  <2>4. \A k \in e.known : k.email \in contacts' \cup members'
    BY <1>1, <1>2, <1>9 DEF Knows
  <2> QED BY <1>1, <1>7, <1>9, <1>10, <1>11, <2>1, <2>2, <2>3, <2>4 DEF Knows
<1>13. /\ \A x \in contacts' \cup members' : x \in Addresses /\ account'[x] # None
       /\ contacts \subseteq contacts' /\ members \subseteq members'
  BY <1>1, <1>7 DEF PeopleInv
<1>14. Listing!OwnWordsStay'
  <2> SUFFICES ASSUME NEW x \in owns \ trod PROVE account'[x].bio = "own"
    BY <1>1 DEF Listing!OwnWordsStay
  <2>1. x \in Addresses /\ account[x].bio = "own"
    BY DEF PeopleInv, Listing!OwnWordsStay
  <2>2. CASE x = row.email
    <3>1. "bio" \notin q.patch
      BY <1>1, <1>2, <1>3, <2>2 DEF Knows
    <3> QED BY <1>5, <1>7, <1>b, <2>1, <2>2, <3>1
  <2> QED BY <1>7, <2>1, <2>2
<1>15. \A x \in e.results : x \in q.results /\ ~Awaited(q, x)
  BY <1>9, <1>11
<1>16. e.pc # "patch" /\ q.pc # "list" /\ q.known \subseteq e.known /\ e.into = q.into
  BY <1>1, <1>9
<1> QED BY <1>0, <1>1, <1>2, <1>7, <1>8, <1>9, <1>10, <1>12, <1>13, <1>14, <1>15, <1>16, ImportGoes

LEMMA PersonIsEntered ==
  ASSUME PeopleInv, NEW r \in Organizers, Listing!Enter(r)
  PROVE  PeopleInv'
<1>0. PICK q : q = request[r]
  OBVIOUS
<1>a. PICK row : row = Head(q.rows)
  OBVIOUS
<1>b. PICK k : k = Listing!Learns(q, row)
  OBVIOUS
<1>c. PICK p : p = [q EXCEPT !.known = k]
  OBVIOUS
<1>1. /\ q.pc = "enter" /\ UNCHANGED <<account, owns, trod, renamed, crossed>>
      /\ contacts' = contacts \cup (IF q.into = "directory" THEN {row.email} ELSE {})
      /\ members' = members \cup (IF q.into = "roster" THEN {row.email} ELSE {})
      /\ Listing!Ended(r, p)
  BY <1>0, <1>a, <1>b, <1>c DEF Listing!Enter, Listing!At, Listing!people
<1>2. /\ q \in Importing /\ ImportFits(q) /\ Knows(q, account, contacts, members, owns, trod, renamed)
      /\ Running(q) /\ q.rows # <<>> /\ q.into \in {"directory", "roster"}
  BY <1>0, <1>1, ImportNow DEF Running, ImportFits
<1>3. row \in Brought /\ Who(q) = row.email /\ row.email \in Addresses /\ account[row.email] # None
  BY <1>1, <1>2, <1>a, ImportRows DEF Who, Knows
<1>4. /\ q.into = "directory" => k = q.known \cup {[email |-> row.email, name |-> account[row.email].name]}
      /\ q.into # "directory" => k = {}
  BY <1>b DEF Listing!Learns
<1>5. account[row.email].name \in Names \cup {None}
  BY <1>3 DEF PeopleInv, Account
<1>6. k \in SUBSET Entry
  BY <1>2, <1>3, <1>4, <1>5 DEF Importing, Entry
<1>7. /\ p \in Importing /\ p.rows = q.rows /\ p.into = q.into /\ p.known = k /\ p.results = q.results
  BY <1>2, <1>6, <1>c DEF Importing
<1>8. \A x \in q.results : ~Awaited(q, x) /\ (Current(q, x) => x.email = row.email)
  BY <1>1, <1>3 DEF Awaited, Current
<1>9. Told(p, account, contacts', members', renamed)
  <2>1. \A x \in p.known : x.email \in contacts' \cup members'
    BY <1>1, <1>2, <1>4, <1>7 DEF Knows
  <2>2. \A x \in p.results : x.email \in Where(p, x, contacts', members')
    <3> SUFFICES ASSUME NEW x \in q.results PROVE x.email \in Where(q, x, contacts', members')
      BY <1>7 DEF Where
    <3>1. CASE Current(q, x)
      BY <1>1, <1>2, <1>8, <3>1 DEF Where
    <3>2. CASE ~Current(q, x)
      BY <1>1, <1>2, <3>2 DEF Where, Knows
    <3> QED BY <3>1, <3>2
  <2>3. \A x \in p.results : x.outcome = "created" => Bears(x, account, renamed)
    BY <1>2, <1>7, <1>8 DEF Knows
  <2>4. ASSUME NEW x \in p.results, x.outcome = "created", p.into = "directory" PROVE Known(p, x, renamed)
    <3>1. CASE Current(q, x)
      BY <1>4, <1>7, <1>8, <2>3, <2>4, <3>1 DEF Known, Bears
    <3>2. CASE ~Current(q, x)
      BY <1>2, <1>4, <1>7, <2>4, <3>2 DEF Known, Knows
    <3> QED BY <3>1, <3>2
  <2> QED BY <2>1, <2>2, <2>3, <2>4 DEF Told
<1>10. PICK e \in Importing :
         /\ request' = [request EXCEPT ![r] = e] /\ e.into = p.into /\ e.results = p.results
         /\ e.pc \in {"find", "done"} /\ (e.pc = "find" => e.known = p.known)
         /\ ImportFits(e) /\ Knows(e, account, contacts', members', owns, trod, renamed)
  <2>1. PICK cx, mx : cx = contacts' /\ mx = members'
    OBVIOUS
  <2>2. Told(p, account, cx, mx, renamed) /\ p.rows # <<>> /\ p.into \in {"directory", "roster"}
    BY <1>2, <1>7, <1>9, <2>1
  <2>3. \E e \in Importing :
          /\ request' = [request EXCEPT ![r] = e] /\ e.into = p.into /\ e.results = p.results
          /\ e.pc \in {"find", "done"} /\ (e.pc = "find" => e.known = p.known)
          /\ ImportFits(e) /\ Knows(e, account, cx, mx, owns, trod, renamed)
    BY <1>1, <1>7, <2>2, ImportEnds
  <2> QED BY <2>1, <2>3
<1>11. /\ Knows(e, account', contacts', members', owns', trod', renamed') /\ e.into = q.into /\ e.pc # "patch"
       /\ Running(e) /\ e.into = "directory" => q.known \subseteq e.known
  BY <1>1, <1>4, <1>7, <1>10 DEF Running
<1>12. \A x \in e.results : x \in q.results /\ ~Awaited(q, x)
  BY <1>7, <1>8, <1>10
<1>13. /\ account' \in [Addresses -> Account \cup {None}] /\ Listing!OwnWordsStay'
       /\ \A x \in Addresses : account[x] # None => account'[x] # None
       /\ \A s \in Organizers : \A x \in request[s].results :
            x.outcome = "created" /\ ~Awaited(request[s], x) => account'[x.email].name = account[x.email].name
  BY <1>1 DEF PeopleInv, Listing!OwnWordsStay
<1>14. /\ \A x \in contacts' \cup members' : x \in Addresses /\ account'[x] # None
       /\ contacts \subseteq contacts' /\ members \subseteq members'
  BY <1>1, <1>3 DEF PeopleInv
<1>15. q.pc # "list"
  BY <1>1
<1> QED BY <1>0, <1>1, <1>2, <1>10, <1>11, <1>12, <1>13, <1>14, <1>15, ImportGoes

(* People who sign up have an account, and no profile. *)
LEMMA PersonSignsUp ==
  ASSUME PeopleInv, NEW e \in Addresses, Listing!SignUp(e)
  PROVE  PeopleInv'
<1>1. /\ account[e] = None /\ account' = [account EXCEPT ![e] = Listing!Blank]
      /\ UNCHANGED <<contacts, members, request, owns, trod, renamed, crossed>>
  BY DEF Listing!SignUp, Listing!people
<1>2. Listing!Blank \in Account
  BY DEF Listing!Blank, Account
<1>3. /\ account' \in [Addresses -> Account \cup {None}]
      /\ \A x \in Addresses : account[x] # None => account'[x] # None
      /\ \A x \in Addresses \ {e} : account'[x] = account[x]
  BY <1>1, <1>2, AccountWritten
<1>4. \A s \in Organizers : \A x \in request[s].results :
        x.outcome = "created" /\ ~Awaited(request[s], x) => account'[x.email].name = account[x.email].name
  BY <1>1, <1>3, MadeAreNamed
<1>5. Listing!OwnWordsStay'
  BY <1>1, <1>3 DEF PeopleInv, Listing!OwnWordsStay
<1>6. \A x \in contacts' \cup members' \cup owns' : x \in Addresses /\ account'[x] # None
  BY <1>1, <1>3 DEF PeopleInv
<1> QED BY <1>1, <1>3, <1>4, <1>5, <1>6, PeopleMove

(* A name given is kept, or it is known that it is not.                     *)
LEMMA PersonWrites ==
  ASSUME PeopleInv, NEW e \in Addresses, account[e] # None, NEW to \in Account,
         account' = [account EXCEPT ![e] = to], renamed' = Listing!Renamed(e, to.name),
         to.name = None => account[e].name = None,
         UNCHANGED <<contacts, members, request, crossed>>,
         owns' \subseteq owns \cup {e}, trod \subseteq trod',
         \A x \in owns' : Listing!Filling(x) => x \in owns \cup trod',
         e \in owns' \ trod' => to.bio = "own"
  PROVE  PeopleInv'
<1>1. /\ account' \in [Addresses -> Account \cup {None}]
      /\ \A x \in Addresses : account[x] # None => account'[x] # None
      /\ account'[e] = to /\ to # None
      /\ \A x \in Addresses \ {e} : account'[x] = account[x]
  BY AccountWritten
<1>2. renamed \subseteq renamed' /\ (account[e].name \notin {None, to.name} => e \in renamed')
  BY DEF Listing!Renamed
<1>3. \A s \in Organizers : \A x \in request[s].results :
        x.outcome = "created" /\ ~Awaited(request[s], x) =>
          account'[x.email].name = account[x.email].name
          \/ (x.email \in renamed' /\ account'[x.email].name # None)
  BY <1>1, <1>2, MadeAreNamed
<1>4. Listing!OwnWordsStay'
  <2> SUFFICES ASSUME NEW x \in owns' \ trod' PROVE account'[x].bio = "own"
    BY DEF Listing!OwnWordsStay
  <2>1. CASE x = e
    BY <1>1, <2>1
  <2>2. CASE x # e
    <3>1. x \in owns \ trod /\ x \in Addresses
      BY <2>2 DEF PeopleInv
    <3> QED BY <1>1, <2>2, <3>1 DEF PeopleInv, Listing!OwnWordsStay
  <2> QED BY <2>1, <2>2
<1>5. \A x \in contacts' \cup members' \cup owns' : x \in Addresses /\ account'[x] # None
  BY <1>1 DEF PeopleInv
<1> QED BY <1>1, <1>2, <1>3, <1>4, <1>5, PeopleMove

LEMMA PersonSaves ==
  ASSUME PeopleInv, NEW e \in Addresses, NEW name \in Names, NEW wrote \in BOOLEAN,
         Listing!SaveProfile(e, name, wrote)
  PROVE  PeopleInv'
<1>0. PICK to : to = [name |-> name, bio |-> IF wrote THEN "own" ELSE None]
  OBVIOUS
<1>1. /\ account[e] # None /\ account' = [account EXCEPT ![e] = to]
      /\ owns' = IF wrote THEN owns \cup {e} ELSE owns \ {e}
      /\ trod' = IF wrote /\ Listing!Filling(e) THEN trod \cup {e} ELSE trod
      /\ renamed' = Listing!Renamed(e, name)
      /\ UNCHANGED <<contacts, members, request, crossed>>
  BY <1>0 DEF Listing!SaveProfile
<1>2. to \in Account /\ to.name = name /\ name # None /\ (wrote => to.bio = "own")
  BY <1>0, PeopleOK DEF Account
<1>3. owns' \subseteq owns \cup {e} /\ trod \subseteq trod' /\ (e \in owns' => wrote)
  BY <1>1
<1>4. \A x \in owns' : Listing!Filling(x) => x \in owns \cup trod'
  BY <1>1
<1> QED BY <1>1, <1>2, <1>3, <1>4, PersonWrites

LEMMA PersonIsEdited ==
  ASSUME PeopleInv, NEW e \in members, NEW name \in Names \cup {account[e].name},
         NEW bio \in {"edited", None, account[e].bio}, Listing!UpdateSpeaker(e, name, bio)
  PROVE  PeopleInv'
<1>0. PICK to : to = [name |-> name, bio |-> bio]
  OBVIOUS
<1>1. /\ account' = [account EXCEPT ![e] = to]
      /\ owns' = IF bio = account[e].bio THEN owns ELSE owns \ {e}
      /\ renamed' = Listing!Renamed(e, name)
      /\ UNCHANGED <<contacts, members, request, trod, crossed>>
  BY <1>0 DEF Listing!UpdateSpeaker
<1>2. e \in Addresses /\ account[e] # None /\ account[e] \in Account
  BY DEF PeopleInv
<1>3. /\ to \in Account /\ to.name = name /\ to.bio = bio
      /\ name = None => account[e].name = None
  BY <1>0, <1>2, PeopleOK DEF Account
<1>4. e \in owns' \ trod' => to.bio = "own"
  BY <1>1, <1>3 DEF PeopleInv, Listing!OwnWordsStay
<1>5. owns' \subseteq owns \cup {e} /\ trod \subseteq trod' /\ \A x \in owns' : x \in owns
  BY <1>1
<1> QED BY <1>1, <1>2, <1>3, <1>4, <1>5, PersonWrites

LEMMA PersonJoins ==
  ASSUME PeopleInv, NEW e \in Addresses, Listing!AddContactToEvent(e)
  PROVE  PeopleInv'
<1>1. /\ e \in contacts /\ members' = members \cup {e}
      /\ UNCHANGED <<account, contacts, request, owns, trod, renamed, crossed>>
  BY DEF Listing!AddContactToEvent, Listing!people
<1>2. /\ account' \in [Addresses -> Account \cup {None}] /\ Listing!OwnWordsStay'
      /\ \A x \in Addresses : account[x] # None => account'[x] # None
      /\ \A s \in Organizers : \A x \in request[s].results :
           x.outcome = "created" /\ ~Awaited(request[s], x) => account'[x.email].name = account[x.email].name
      /\ \A x \in contacts' \cup members' \cup owns' : x \in Addresses /\ account'[x] # None
  BY <1>1 DEF PeopleInv, Listing!OwnWordsStay
<1> QED BY <1>1, <1>2, PeopleMove

LEMMA PeopleInit == Listing!Init => PeopleInv
<1> SUFFICES ASSUME Listing!Init PROVE PeopleInv
  OBVIOUS
<1>1. /\ account \in [Addresses -> {None, Listing!Blank} \cup [name : Names, bio : {None}]]
      /\ contacts = {} /\ owns = {} /\ members \subseteq {e \in Addresses : account[e] # None}
      /\ request = [r \in Organizers |-> Listing!Idle]
  BY DEF Listing!Init
<1>2. {None, Listing!Blank} \cup [name : Names, bio : {None}] \subseteq Account \cup {None}
  BY DEF Account, Listing!Blank
<1>3. account \in [Addresses -> Account \cup {None}]
  BY <1>1, <1>2
<1>4. request \in [Organizers -> Importing] /\ \A r \in Organizers : request[r] = Listing!Idle
  BY <1>1, IdleImport
<1>5. ImportFits(Listing!Idle) /\ Knows(Listing!Idle, account, contacts, members, owns, trod, renamed)
  BY IdleImport DEF ImportFits, Knows, Running
<1>6. /\ Unnamed(Listing!Idle, Listing!Idle) /\ Flags(Listing!Idle, Listing!Idle, renamed)
      /\ Apart(Listing!Idle, Listing!Idle, renamed)
  BY IdleImport DEF Unnamed, Flags, Apart, Recalls, Running
<1> QED BY <1>1, <1>3, <1>4, <1>5, <1>6 DEF PeopleInv, Listing!OwnWordsStay

LEMMA PeopleNext ==
  ASSUME PeopleInv, [Listing!Next]_Listing!directoryVars
  PROVE  PeopleInv'
<1>1. CASE UNCHANGED Listing!directoryVars
  <2>1. UNCHANGED <<account, contacts, members, request, owns, trod, renamed, crossed>>
    BY <1>1 DEF Listing!directoryVars
  <2> QED BY <2>1 DEF PeopleInv, Listing!OwnWordsStay
<1> QED BY <1>1, ImportBegins, PeopleAreListed, PersonIsSought, PersonIsMade, PersonIsFilled, PersonIsEntered,
        RequestFails, PersonSignsUp, PersonSaves, PersonIsEdited, PersonJoins DEF Listing!Next

LEMMA PeopleProps ==
  PeopleInv => Listing!OwnWordsStay /\ Listing!ReportedAreListed /\ Listing!NamesakesFlagged
<1> SUFFICES ASSUME PeopleInv PROVE Listing!ReportedAreListed /\ Listing!NamesakesFlagged
  BY DEF PeopleInv
<1>1. ASSUME NEW r \in Organizers, request[r].pc = "done", NEW x \in request[r].results
      PROVE  x.email \in Where(request[r], x, contacts, members)
  BY <1>1, ImportNow DEF Knows, Current
<1>2. Listing!ReportedAreListed
  BY <1>1 DEF Listing!ReportedAreListed, Listing!At, Listing!Listed, Where
<1>3. Listing!NamesakesFlagged
  BY DEF PeopleInv, Listing!NamesakesFlagged, Flags
<1> QED BY <1>2, <1>3

(* However organizers add and import people while these sign up and write   *)
(* their profiles: what somebody wrote of themselves no import replaces,    *)
(* but what it had found empty; whoever a request reports can be found      *)
(* where it says, whatever failed; and of two people made under one name    *)
(* in requests that did not overlap one is pointed out, unless one of them  *)
(* was given another name since (importContacts, createOrReuseContact,      *)
(* importProfilePatch, planContactCreation).                                *)
THEOREM PeopleAreKept ==
  Listing!Spec => [](Listing!OwnWordsStay /\ Listing!ReportedAreListed /\ Listing!NamesakesFlagged)
<1>1. PeopleInv /\ [Listing!Next]_Listing!directoryVars => PeopleInv'
  BY PeopleNext
<1> QED BY <1>1, PeopleInit, PeopleProps, PTL DEF Listing!Spec

(* The same of the directory among the parts that are checked together, for *)
(* any addresses and names, and whatever files are brought.                 *)
THEOREM DirectoryAlwaysHolds == Screens => []DirectoryHolds
<1> DEFINE Stays == part = "people" => PeopleInv
<1>1. Begins => Stays
  BY PeopleInit DEF Begins, ListingFirst
<1>2. Stays /\ [Steps]_<<part, screenVars, tasks, people, program>> => Stays'
  <2>1. ASSUME PeopleInv, UNCHANGED people PROVE PeopleInv'
    <3>1. [Listing!Next]_Listing!directoryVars
      BY <2>1 DEF people, Listing!directoryVars
    <3> QED BY <2>1, <3>1, PeopleNext
  <2>2. ASSUME PeopleInv, Listing!Next PROVE PeopleInv'
    BY <2>2, PeopleNext
  <2> QED BY <2>1, <2>2 DEF Steps
<1>3. Stays => DirectoryHolds
  BY PeopleProps DEF DirectoryHolds
<1> QED BY <1>1, <1>2, <1>3, PTL DEF Screens

----------------------------------------------------------------------------
(* The public program: its order, its slots, and what its pages know        *)

LEMMA Climbs ==
  ASSUME NEW n \in Nat, NEW T, 0 \in T, \A k \in Nat : k < n /\ k \in T => k + 1 \in T
  PROVE  n \in T
<1> SUFFICES ASSUME n \notin T PROVE FALSE
  OBVIOUS
<1>1. PICK U : U = {k \in Nat : k \notin T /\ k <= n}
  OBVIOUS
<1>2. PICK m \in U : \A k \in U : m <= k
  <2>1. U \in SUBSET Nat /\ U # {}
    BY <1>1
  <2> QED BY <2>1, Least
<1>3. m \in Nat /\ m # 0 /\ m \notin T /\ m <= n
  BY <1>1, <1>2
<1>4. PICK k : k = m - 1
  OBVIOUS
<1>5. k \in Nat /\ k < n /\ k + 1 = m /\ k < m /\ k <= n
  BY <1>3, <1>4
<1>6. k \notin U
  BY <1>2, <1>3, <1>5
<1>7. k \in T
  BY <1>1, <1>5, <1>6
<1> QED BY <1>3, <1>5, <1>7

(* Sessions S with places at come by day, start, room and title.            *)
Spot == [day : Nat, start : Nat, end : Nat, room : Nat]
PlacedIn(at, S) == IsFiniteSet(S) /\ \A s \in S : s \in Nat /\ at[s] \in Spot
Sooner(at, r, s) ==
  \/ at[r].day < at[s].day
  \/ at[r].day = at[s].day /\ at[r].start < at[s].start
  \/ at[r].day = at[s].day /\ at[r].start = at[s].start /\ at[r].room < at[s].room
  \/ at[r].day = at[s].day /\ at[r].start = at[s].start /\ at[r].room = at[s].room /\ r < s

LEMMA SoonerIs ==
  ASSUME NEW g, NEW r, NEW s
  PROVE  Printed!Before(Printed!Key(g, r), Printed!Key(g, s)) <=> Sooner(g.at, r, s)
<1>1. PICK a, b : a = Printed!Key(g, r) /\ b = Printed!Key(g, s)
  OBVIOUS
<1>2. /\ a[1] = g.at[r].day /\ a[2] = g.at[r].start /\ a[3] = g.at[r].room /\ a[4] = r
      /\ b[1] = g.at[s].day /\ b[2] = g.at[s].start /\ b[3] = g.at[s].room /\ b[4] = s
  BY <1>1 DEF Printed!Key
<1>3. \A i : i \in 1..4 <=> i \in {1, 2, 3, 4}
  OBVIOUS
<1>4. /\ 1..(1 - 1) = {} /\ 1..(2 - 1) = {1} /\ 1..(3 - 1) = {1, 2} /\ 1..(4 - 1) = {1, 2, 3}
  OBVIOUS
<1>5. Printed!Before(a, b) <=>
        \/ a[1] < b[1]
        \/ a[2] < b[2] /\ a[1] = b[1]
        \/ a[3] < b[3] /\ a[1] = b[1] /\ a[2] = b[2]
        \/ a[4] < b[4] /\ a[1] = b[1] /\ a[2] = b[2] /\ a[3] = b[3]
  BY <1>3, <1>4 DEF Printed!Before
<1> QED BY <1>1, <1>2, <1>5 DEF Sooner

LEMMA SoonerOrders ==
  ASSUME NEW at, NEW S, PlacedIn(at, S)
  PROVE  /\ \A s \in S : ~Sooner(at, s, s)
         /\ \A r, s \in S : r # s => Sooner(at, r, s) \/ Sooner(at, s, r)
         /\ \A r, s, t \in S : Sooner(at, r, s) /\ Sooner(at, s, t) => Sooner(at, r, t)
<1>1. ASSUME NEW s \in S
      PROVE  at[s].day \in Nat /\ at[s].start \in Nat /\ at[s].room \in Nat /\ s \in Nat
  BY DEF PlacedIn, Spot
<1>2. \A s \in S : ~Sooner(at, s, s)
  BY <1>1 DEF Sooner
<1>3. \A r, s \in S : r # s => Sooner(at, r, s) \/ Sooner(at, s, r)
  BY <1>1 DEF Sooner
<1>4. ASSUME NEW r \in S, NEW s \in S, NEW t \in S, Sooner(at, r, s), Sooner(at, s, t)
      PROVE  Sooner(at, r, t)
  <2>1. /\ at[r].day \in Nat /\ at[r].start \in Nat /\ at[r].room \in Nat /\ r \in Nat
        /\ at[s].day \in Nat /\ at[s].start \in Nat /\ at[s].room \in Nat /\ s \in Nat
        /\ at[t].day \in Nat /\ at[t].start \in Nat /\ at[t].room \in Nat /\ t \in Nat
    BY <1>1
  <2> QED BY <1>4, <2>1 DEF Sooner
<1> QED BY <1>2, <1>3, <1>4

(* The rank of a session is how many come before it, and one.               *)
Rank(at, S, s) == Cardinality({r \in S : Sooner(at, r, s)}) + 1
LEMMA RanksDiffer ==
  ASSUME NEW at, NEW S, PlacedIn(at, S)
  PROVE  /\ Cardinality(S) \in Nat
         /\ \A s \in S : Rank(at, S, s) \in 1..Cardinality(S)
         /\ \A r, s \in S : Sooner(at, r, s) => Rank(at, S, r) < Rank(at, S, s)
         /\ \A n \in 1..Cardinality(S) : \E s \in S : Rank(at, S, s) = n
<1> DEFINE Ahead(s) == {r \in S : Sooner(at, r, s)}
<1>1. IsFiniteSet(S) /\ Cardinality(S) \in Nat
  BY FS_CardinalityType DEF PlacedIn
<1>2. \A s : Ahead(s) \in SUBSET S
  OBVIOUS
<1>3. \A s : IsFiniteSet(Ahead(s)) /\ Cardinality(Ahead(s)) \in Nat
  BY <1>1, <1>2, FS_Subset, FS_CardinalityType
<1>4. \A s : Rank(at, S, s) = Cardinality(Ahead(s)) + 1
  BY DEF Rank
<1>5. ASSUME NEW s \in S PROVE Rank(at, S, s) \in 1..Cardinality(S)
  <2>1. s \notin Ahead(s)
    BY SoonerOrders
  <2> HIDE DEF Ahead
  <2>2. Ahead(s) \in SUBSET (S \ {s})
    BY <1>2, <2>1
  <2>3. IsFiniteSet(S \ {s}) /\ Cardinality(S \ {s}) = Cardinality(S) - 1
    BY <1>1, FS_RemoveElement
  <2>4. Cardinality(Ahead(s)) <= Cardinality(S) - 1
    BY <2>2, <2>3, FS_Subset
  <2> QED BY <1>1, <1>3, <1>4, <2>4
<1>6. ASSUME NEW r \in S, NEW s \in S, Sooner(at, r, s) PROVE Rank(at, S, r) < Rank(at, S, s)
  <2>1. r \in Ahead(s) /\ r \notin Ahead(r)
    BY <1>6, SoonerOrders
  <2>2. Ahead(r) \subseteq Ahead(s)
    <3>1. \A t \in S : Sooner(at, t, r) => Sooner(at, t, s)
      BY <1>6, SoonerOrders
    <3> QED BY <3>1
  <2> HIDE DEF Ahead
  <2>3. Ahead(r) \in SUBSET Ahead(s) /\ Ahead(r) # Ahead(s)
    BY <2>1, <2>2
  <2>4. Cardinality(Ahead(r)) < Cardinality(Ahead(s))
    BY <1>3, <2>3, FS_Subset
  <2> QED BY <1>3, <1>4, <2>4
<1> HIDE DEF Ahead
<1>7. PICK f : f = [s \in S |-> Rank(at, S, s)]
  OBVIOUS
<1>8. PICK N \in Nat : N = Cardinality(S)
  BY <1>1
<1>9. f \in [S -> 1..N]
  BY <1>5, <1>7, <1>8
<1>10. \A r, s \in S : f[r] = f[s] => r = s
  <2> SUFFICES ASSUME NEW r \in S, NEW s \in S, f[r] = f[s] PROVE r = s
    OBVIOUS
  <2>1. Rank(at, S, r) = Rank(at, S, s) /\ Rank(at, S, r) \in Nat
    BY <1>5, <1>7
  <2>2. ~(Rank(at, S, r) < Rank(at, S, s)) /\ ~(Rank(at, S, s) < Rank(at, S, r))
    BY <2>1
  <2> QED BY <1>6, <2>2, SoonerOrders
<1>11. f \in Injection(S, 1..N)
  BY <1>9, <1>10 DEF Injection, IsInjective
<1>12. IsFiniteSet(1..N) /\ Cardinality(1..N) = N
  BY FS_Interval
<1>13. f \in Surjection(S, 1..N)
  BY <1>8, <1>11, <1>12, FS_Injection
<1>14. \A n \in 1..N : \E s \in S : Rank(at, S, s) = n
  BY <1>7, <1>13 DEF Surjection
<1> QED BY <1>1, <1>5, <1>6, <1>8, <1>14

(* A session each, one after the other.                                     *)
Sorted(at, S, q, n) ==
  /\ n \in Nat /\ q \in [1..n -> S] /\ \A s \in S : \E k \in 1..n : q[k] = s
  /\ \A k, m \in 1..n : k < m => Sooner(at, q[k], q[m])
LEMMA SameTally == ASSUME NEW S PROVE Printed!Cardinality(S) = Cardinality(S)
  BY DEF Printed!Cardinality, Cardinality, Printed!IsFiniteSet, IsFiniteSet
LEMMA ComeInOrder ==
  ASSUME NEW g, NEW S, PlacedIn(g.at, S)
  PROVE  Sorted(g.at, S, Printed!InOrder(g, S), Cardinality(S))
<1>1. PICK N \in Nat : N = Cardinality(S)
  BY RanksDiffer
<1>2. PICK q : q = [n \in 1..N |-> CHOOSE s \in S : Rank(g.at, S, s) = n]
  OBVIOUS
<1>3. Printed!InOrder(g, S) = q
  <2>1. \A s : Printed!Cardinality({r \in S : Printed!Before(Printed!Key(g, r), Printed!Key(g, s))}) + 1
               = Rank(g.at, S, s)
    BY SoonerIs, SameTally DEF Rank
  <2> QED BY <1>1, <1>2, <2>1, SameTally DEF Printed!InOrder
<1>4. ASSUME NEW n \in 1..N PROVE q[n] \in S /\ Rank(g.at, S, q[n]) = n
  BY <1>1, <1>2, RanksDiffer
<1>5. q \in [1..N -> S]
  BY <1>2, <1>4
<1>6. ASSUME NEW k \in 1..N, NEW m \in 1..N, k < m PROVE Sooner(g.at, q[k], q[m])
  <2>1. ~(Rank(g.at, S, q[m]) < Rank(g.at, S, q[k])) /\ q[k] # q[m]
    BY <1>4, <1>6
  <2>2. q[k] \in S /\ q[m] \in S
    BY <1>4
  <2> QED BY <2>1, <2>2, RanksDiffer, SoonerOrders
<1>7. ASSUME NEW s \in S PROVE \E k \in 1..N : q[k] = s
  <2>1. PICK k \in 1..N : k = Rank(g.at, S, s)
    BY <1>1, RanksDiffer
  <2>2. q[k] \in S /\ Rank(g.at, S, q[k]) = Rank(g.at, S, s) /\ Rank(g.at, S, s) \in Nat
    BY <1>4, <2>1
  <2>3. ~(Rank(g.at, S, q[k]) < Rank(g.at, S, s)) /\ ~(Rank(g.at, S, s) < Rank(g.at, S, q[k]))
    BY <2>2
  <2>4. q[k] = s
    BY <2>2, <2>3, RanksDiffer, SoonerOrders
  <2> QED BY <2>4
<1> QED BY <1>1, <1>3, <1>5, <1>6, <1>7 DEF Sorted

(* Slots t of the first n sessions of q.                                    *)
Clock == [day : Nat, start : Nat, end : Nat]
Slot(S) == [range : Clock, sessions : Seq(S)]
SlotsOf(S) == Seq(Slot(S))
SlotsFit(at, S, q, n, t) ==
  /\ t \in SlotsOf(S)
  /\ \A k \in 1..Len(t) : Len(t[k].sessions) > 0
  /\ \A k \in 1..Len(t) : \A i \in 1..Len(t[k].sessions) :
       /\ Printed!Times(at[t[k].sessions[i]]) = t[k].range
       /\ \E m \in 1..n : t[k].sessions[i] = q[m]
  /\ \A m \in 1..n : \E k \in 1..Len(t) : \E i \in 1..Len(t[k].sessions) : t[k].sessions[i] = q[m]
  /\ \A k, l \in 1..Len(t) : \A i \in 1..Len(t[k].sessions), j \in 1..Len(t[l].sessions) :
       k < l \/ (k = l /\ i < j) => Sooner(at, t[k].sessions[i], t[l].sessions[j])
  /\ \A k \in 1..Len(t) : k < Len(t) => t[k].range # t[k + 1].range

LEMMA TimesTyped == ASSUME NEW p \in Spot PROVE Printed!Times(p) \in Clock
  BY DEF Printed!Times, Spot, Clock

LEMMA SlotFields ==
  ASSUME NEW S, NEW t \in SlotsOf(S), NEW k \in 1..Len(t)
  PROVE  /\ t[k] \in Slot(S) /\ t[k].range \in Clock
         /\ t[k].sessions \in Seq(S) /\ Len(t[k].sessions) \in Nat
         /\ \A i \in 1..Len(t[k].sessions) : t[k].sessions[i] \in S
<1>1. t[k] \in Slot(S)
  BY ElementOfSeq DEF SlotsOf
<1>2. t[k].range \in Clock /\ t[k].sessions \in Seq(S)
  BY <1>1 DEF Slot
<1> QED BY <1>1, <1>2

(* The next session opens a slot.                                           *)
LEMMA SlotOpens ==
  ASSUME NEW at, NEW S, PlacedIn(at, S), NEW q, NEW N, Sorted(at, S, q, N), NEW n \in Nat, n < N,
         NEW t, SlotsFit(at, S, q, n, t),
         ~(Len(t) > 0 /\ t[Len(t)].range = Printed!Times(at[q[n + 1]]))
  PROVE  SlotsFit(at, S, q, n + 1,
                  Append(t, [range |-> Printed!Times(at[q[n + 1]]), sessions |-> <<q[n + 1]>>]))
<1>1. PICK s \in S : s = q[n + 1]
  BY DEF Sorted
<1>2. PICK slot : slot = [range |-> Printed!Times(at[s]), sessions |-> <<s>>]
  OBVIOUS
<1>3. PICK u : u = Append(t, slot)
  OBVIOUS
<1>4. Printed!Times(at[s]) \in Clock
  BY TimesTyped DEF PlacedIn
<1>5. <<s>> \in Seq(S) /\ Len(<<s>>) = 1 /\ <<s>>[1] = s
  OBVIOUS
<1>6. slot \in Slot(S) /\ slot.range = Printed!Times(at[s]) /\ slot.sessions = <<s>>
  BY <1>2, <1>4, <1>5 DEF Slot
<1>7. PICK L \in Nat : L = Len(t)
  BY DEF SlotsFit, SlotsOf
<1>8. /\ u \in SlotsOf(S) /\ Len(u) = L + 1 /\ u[L + 1] = slot
      /\ \A k \in 1..L : u[k] = t[k]
  BY <1>3, <1>6, <1>7 DEF SlotsFit, SlotsOf
<1>9. \A k \in 1..Len(u) : k \in 1..L \/ k = L + 1
  BY <1>7, <1>8
<1>10. Len(u[L + 1].sessions) = 1 /\ u[L + 1].sessions[1] = s /\ u[L + 1].range = Printed!Times(at[s])
  BY <1>5, <1>6, <1>8
<1>11. ASSUME NEW k \in 1..Len(u) PROVE Len(u[k].sessions) > 0
  BY <1>7, <1>8, <1>9, <1>10 DEF SlotsFit
<1>12. ASSUME NEW k \in 1..Len(u), NEW i \in 1..Len(u[k].sessions)
       PROVE  /\ Printed!Times(at[u[k].sessions[i]]) = u[k].range
              /\ \E m \in 1..(n + 1) : u[k].sessions[i] = q[m]
              /\ k \in 1..L => \E m \in 1..n : u[k].sessions[i] = q[m]
  <2>1. CASE k \in 1..L
    <3>1. u[k] = t[k] /\ k \in 1..Len(t) /\ i \in 1..Len(t[k].sessions)
      BY <1>7, <1>8, <2>1
    <3>2. /\ Printed!Times(at[t[k].sessions[i]]) = t[k].range
          /\ \E m \in 1..n : t[k].sessions[i] = q[m]
      BY <3>1 DEF SlotsFit
    <3>3. PICK m \in 1..n : t[k].sessions[i] = q[m]
      BY <3>2
    <3>4. m \in 1..(n + 1)
      OBVIOUS
    <3> QED BY <3>1, <3>2, <3>3, <3>4
  <2>2. CASE k = L + 1
    <3>0. Len(u[k].sessions) = 1
      BY <1>10, <2>2
    <3>1. i = 1
      BY <3>0
    <3>2. k \notin 1..L /\ n + 1 \in 1..(n + 1)
      BY <2>2
    <3> QED BY <1>1, <1>10, <2>2, <3>1, <3>2
  <2> QED BY <1>9, <2>1, <2>2
<1>13. ASSUME NEW m \in 1..(n + 1)
       PROVE  \E k \in 1..Len(u) : \E i \in 1..Len(u[k].sessions) : u[k].sessions[i] = q[m]
  <2>1. CASE m = n + 1
    <3>1. L + 1 \in 1..Len(u) /\ 1 \in 1..Len(u[L + 1].sessions)
      BY <1>8, <1>10
    <3> QED BY <1>1, <1>10, <2>1, <3>1
  <2>2. CASE m # n + 1
    <3>1. m \in 1..n
      BY <2>2
    <3>2. PICK k \in 1..L : \E i \in 1..Len(t[k].sessions) : t[k].sessions[i] = q[m]
      BY <1>7, <3>1 DEF SlotsFit
    <3>3. k \in 1..Len(u) /\ u[k] = t[k]
      BY <1>8
    <3> QED BY <3>2, <3>3
  <2> QED BY <2>1, <2>2
<1>14. ASSUME NEW k \in 1..Len(u), NEW l \in 1..Len(u),
              NEW i \in 1..Len(u[k].sessions), NEW j \in 1..Len(u[l].sessions),
              k < l \/ (k = l /\ i < j)
       PROVE  Sooner(at, u[k].sessions[i], u[l].sessions[j])
  <2>1. CASE l \in 1..L
    <3>1. k \in 1..L
      BY <1>9, <1>14, <2>1
    <3> QED BY <1>7, <1>8, <1>14, <2>1, <3>1 DEF SlotsFit
  <2>2. CASE l = L + 1
    <3>0. Len(u[l].sessions) = 1
      BY <1>10, <2>2
    <3>1. j = 1
      BY <3>0
    <3>2. i \in Nat /\ i >= 1
      <4>1. Len(u[k].sessions) \in Nat
        BY <1>8, SlotFields
      <4> QED BY <4>1
    <3>3. k \in 1..L
      BY <1>9, <1>14, <2>2, <3>1, <3>2
    <3>4. PICK m \in 1..n : u[k].sessions[i] = q[m]
      BY <1>12, <3>3
    <3>5. m \in 1..N /\ n + 1 \in 1..N /\ m < n + 1
      BY DEF Sorted
    <3>6. Sooner(at, q[m], q[n + 1])
      BY <3>5 DEF Sorted
    <3> QED BY <1>1, <1>10, <2>2, <3>1, <3>4, <3>6
  <2> QED BY <1>9, <2>1, <2>2
<1>15. ASSUME NEW k \in 1..Len(u), k < Len(u) PROVE u[k].range # u[k + 1].range
  <2>1. k \in 1..L
    BY <1>8, <1>15
  <2>2. CASE k = L
    <3>1. L > 0 /\ t[L].range # Printed!Times(at[s])
      BY <1>1, <1>7, <2>1, <2>2
    <3> QED BY <1>8, <1>10, <2>1, <2>2, <3>1
  <2>3. CASE k # L
    <3>1. k + 1 \in 1..L /\ k < L
      BY <2>1, <2>3
    <3>2. t[k].range # t[k + 1].range
      BY <1>7, <2>1, <3>1 DEF SlotsFit
    <3> QED BY <1>8, <2>1, <3>1, <3>2
  <2> QED BY <2>2, <2>3
<1>16. SlotsFit(at, S, q, n + 1, u)
  BY <1>8, <1>11, <1>12, <1>13, <1>14, <1>15 DEF SlotsFit
<1> QED BY <1>1, <1>2, <1>3, <1>16

(* It joins the last one.                                                   *)
LEMMA SlotJoined ==
  ASSUME NEW at, NEW S, PlacedIn(at, S), NEW q, NEW N, Sorted(at, S, q, N), NEW n \in Nat, n < N,
         NEW t, SlotsFit(at, S, q, n, t),
         Len(t) > 0 /\ t[Len(t)].range = Printed!Times(at[q[n + 1]])
  PROVE  SlotsFit(at, S, q, n + 1, [t EXCEPT ![Len(t)].sessions = Append(@, q[n + 1])])
<1>1. PICK s \in S : s = q[n + 1]
  BY DEF Sorted
<1>2. PICK L \in Nat : L = Len(t) /\ L > 0 /\ L \in 1..L
  BY DEF SlotsFit, SlotsOf
<1>3. PICK old \in Seq(S) : old = t[L].sessions
  BY <1>2, SlotFields DEF SlotsFit
<1>4. PICK c \in Nat : c = Len(old)
  OBVIOUS
<1>0. PICK more : more = Append(old, s)
  OBVIOUS
<1>5. /\ more \in Seq(S) /\ more = Append(old, s) /\ Len(more) = c + 1 /\ more[c + 1] = s
      /\ \A i \in 1..c : more[i] = old[i]
  BY <1>0, <1>4, AppendProperties
<1>6. PICK u : u = [t EXCEPT ![L].sessions = Append(@, s)]
  OBVIOUS
<1>7. t[L].range \in Clock /\ t[L] \in Slot(S)
  BY <1>2, SlotFields DEF SlotsFit
<1>8. u = [t EXCEPT ![L] = [t[L] EXCEPT !.sessions = more]]
  BY <1>3, <1>5, <1>6
<1>9. PICK slot \in Slot(S) :
        slot = [t[L] EXCEPT !.sessions = more] /\ slot.range = t[L].range /\ slot.sessions = more
  <2>1. PICK slot : slot = [range |-> t[L].range, sessions |-> more]
    OBVIOUS
  <2>2. t[L] = [range |-> t[L].range, sessions |-> t[L].sessions]
    BY <1>7 DEF Slot
  <2>3. [t[L] EXCEPT !.sessions = more] = slot
    BY <2>1, <2>2
  <2>4. slot \in Slot(S)
    BY <1>5, <1>7, <2>1 DEF Slot
  <2> QED BY <2>1, <2>3, <2>4
<1>10. t \in [1..L -> Slot(S)]
  BY <1>2, LenProperties DEF SlotsFit, SlotsOf
<1>11. /\ u \in [1..L -> Slot(S)] /\ u[L] = slot
       /\ \A k \in 1..L : k # L => u[k] = t[k]
  BY <1>2, <1>8, <1>9, <1>10
<1>12. u \in SlotsOf(S) /\ Len(u) = L
  <2>1. u \in Seq(Slot(S))
    BY <1>11, IsASeq
  <2>2. PICK M \in Nat : M = Len(u) /\ DOMAIN u = 1..M
    BY <2>1, LenProperties
  <2>3. 1..M = 1..L
    BY <1>11, <2>2
  <2>4. M = L
    BY <2>3
  <2> QED BY <2>1, <2>2, <2>4 DEF SlotsOf
<1>13. u[L].sessions = more /\ u[L].range = Printed!Times(at[s]) /\ \A k \in 1..L : u[k].range = t[k].range
  BY <1>1, <1>2, <1>9, <1>11
<1>14. ASSUME NEW k \in 1..L PROVE Len(u[k].sessions) > 0
  BY <1>2, <1>4, <1>5, <1>11, <1>13 DEF SlotsFit
<1>15. ASSUME NEW k \in 1..L, NEW i \in 1..Len(u[k].sessions)
       PROVE  \/ k = L /\ i = c + 1 /\ u[k].sessions[i] = s
              \/ i \in 1..Len(t[k].sessions) /\ u[k].sessions[i] = t[k].sessions[i]
  <2>1. CASE k # L
    BY <1>11, <2>1
  <2>2. CASE k = L
    <3>1. i \in 1..(c + 1)
      BY <1>5, <1>13, <2>2
    <3>2. i = c + 1 \/ i \in 1..c
      BY <3>1
    <3> QED BY <1>3, <1>4, <1>5, <1>13, <2>2, <3>2
  <2> QED BY <2>1, <2>2
<1>16. ASSUME NEW k \in 1..L, NEW i \in 1..Len(t[k].sessions)
       PROVE  i \in 1..Len(u[k].sessions) /\ u[k].sessions[i] = t[k].sessions[i]
  <2>1. CASE k # L
    BY <1>11, <2>1
  <2>2. CASE k = L
    <3>1. i \in 1..c
      BY <1>3, <1>4, <2>2
    <3>2. i \in 1..(c + 1) /\ more[i] = old[i]
      BY <1>5, <3>1
    <3> QED BY <1>3, <1>5, <1>13, <2>2, <3>2
  <2> QED BY <2>1, <2>2
<1>17. ASSUME NEW k \in 1..L, NEW i \in 1..Len(t[k].sessions)
       PROVE  /\ Printed!Times(at[t[k].sessions[i]]) = t[k].range
              /\ \E m \in 1..n : t[k].sessions[i] = q[m]
  BY <1>2 DEF SlotsFit
<1>18. ASSUME NEW k \in 1..L, NEW i \in 1..Len(u[k].sessions)
       PROVE  /\ Printed!Times(at[u[k].sessions[i]]) = u[k].range
              /\ \E m \in 1..(n + 1) : u[k].sessions[i] = q[m]
  <2>1. CASE k = L /\ i = c + 1 /\ u[k].sessions[i] = s
    <3>1. n + 1 \in 1..(n + 1)
      OBVIOUS
    <3> QED BY <1>1, <1>13, <2>1, <3>1
  <2>2. CASE i \in 1..Len(t[k].sessions) /\ u[k].sessions[i] = t[k].sessions[i]
    <3>1. /\ Printed!Times(at[t[k].sessions[i]]) = t[k].range
          /\ \E m \in 1..n : t[k].sessions[i] = q[m]
      BY <1>17, <2>2
    <3>2. PICK m \in 1..n : u[k].sessions[i] = q[m]
      BY <2>2, <3>1
    <3>3. m \in 1..(n + 1)
      OBVIOUS
    <3> QED BY <1>13, <2>2, <3>1, <3>2, <3>3
  <2> QED BY <1>15, <2>1, <2>2
<1>19. ASSUME NEW m \in 1..(n + 1)
       PROVE  \E k \in 1..L : \E i \in 1..Len(u[k].sessions) : u[k].sessions[i] = q[m]
  <2>1. CASE m = n + 1
    <3>1. c + 1 \in 1..Len(u[L].sessions) /\ u[L].sessions[c + 1] = s
      BY <1>5, <1>13
    <3> QED BY <1>1, <1>2, <2>1, <3>1
  <2>2. CASE m # n + 1
    <3>1. m \in 1..n
      BY <2>2
    <3>2. PICK k \in 1..L : \E i \in 1..Len(t[k].sessions) : t[k].sessions[i] = q[m]
      BY <1>2, <3>1 DEF SlotsFit
    <3> QED BY <1>16, <3>2
  <2> QED BY <2>1, <2>2
<1>20. ASSUME NEW k \in 1..L, NEW l \in 1..L,
              NEW i \in 1..Len(u[k].sessions), NEW j \in 1..Len(u[l].sessions),
              k < l \/ (k = l /\ i < j)
       PROVE  Sooner(at, u[k].sessions[i], u[l].sessions[j])
  <2>0. Len(u[k].sessions) \in Nat /\ Len(u[l].sessions) \in Nat /\ Len(t[k].sessions) \in Nat
    BY <1>2, <1>12, SlotFields DEF SlotsFit
  <2>1. CASE i \in 1..Len(t[k].sessions) /\ u[k].sessions[i] = t[k].sessions[i]
    <3>1. CASE j \in 1..Len(t[l].sessions) /\ u[l].sessions[j] = t[l].sessions[j]
      <4>1. Sooner(at, t[k].sessions[i], t[l].sessions[j])
        BY <1>2, <1>20, <2>1, <3>1 DEF SlotsFit
      <4> QED BY <2>1, <3>1, <4>1
    <3>2. CASE l = L /\ j = c + 1 /\ u[l].sessions[j] = s
      <4>1. PICK m \in 1..n : u[k].sessions[i] = q[m]
        BY <1>17, <2>1
      <4>2. m \in 1..N /\ n + 1 \in 1..N /\ m < n + 1
        BY DEF Sorted
      <4>3. Sooner(at, q[m], q[n + 1])
        BY <4>2 DEF Sorted
      <4> QED BY <1>1, <3>2, <4>1, <4>3
    <3> QED BY <1>15, <3>1, <3>2
  <2>2. CASE k = L /\ i = c + 1 /\ u[k].sessions[i] = s
    <3>1. l = L /\ j > c + 1
      BY <1>20, <2>2
    <3>2. j <= c + 1
      BY <1>5, <1>13, <2>0, <3>1
    <3> QED BY <3>1, <3>2, <2>0
  <2> QED BY <1>15, <2>1, <2>2
<1>21. ASSUME NEW k \in 1..L, k < L PROVE u[k].range # u[k + 1].range
  <2>1. k + 1 \in 1..L
    BY <1>21
  <2>2. t[k].range # t[k + 1].range
    BY <1>2, <1>21 DEF SlotsFit
  <2> QED BY <1>13, <2>1, <2>2
<1>22. SlotsFit(at, S, q, n + 1, u)
  BY <1>12, <1>14, <1>18, <1>19, <1>20, <1>21 DEF SlotsFit
<1> QED BY <1>1, <1>2, <1>6, <1>22

(* Slots are the last of a row of slots, one session joining after another. *)
Joining(g, q, n, t) ==
  /\ t[0] = <<>> /\ Printed!Slots(g, q) = t[n]
  /\ \A k \in Nat : k < n => t[k + 1] = Printed!AddToSlots(g, t[k], q[k + 1])
LEMMA SlotSteps ==
  ASSUME NEW g, NEW n \in Nat, NEW q, Len(q) = n
  PROVE  \E t : Joining(g, q, n, t)
<1> DEFINE Eq(f, k) ==
             f = [i \in 0..k |-> IF i = 0 THEN <<>> ELSE Printed!AddToSlots(g, f[i - 1], q[i])]
           Has(k) == \E f : Eq(f, k)
<1>1. Has(0)
  <2>1. PICK f : f = [i \in 0..0 |-> <<>>]
    OBVIOUS
  <2>2. Eq(f, 0)
    BY <2>1
  <2> QED BY <2>2
<1>2. ASSUME NEW k \in Nat, k < n, Has(k) PROVE Has(k + 1)
  <2>1. PICK f : Eq(f, k)
    BY <1>2
  <2>2. PICK h : h = [i \in 0..(k + 1) |-> IF i <= k THEN f[i] ELSE Printed!AddToSlots(g, f[k], q[i])]
    OBVIOUS
  <2>3. \A i \in 0..(k + 1) : h[i] = IF i = 0 THEN <<>> ELSE Printed!AddToSlots(g, h[i - 1], q[i])
    <3> SUFFICES ASSUME NEW i \in 0..(k + 1)
                 PROVE  h[i] = IF i = 0 THEN <<>> ELSE Printed!AddToSlots(g, h[i - 1], q[i])
      OBVIOUS
    <3>1. CASE i <= k
      <4>1. i \in 0..k /\ h[i] = f[i] /\ (i # 0 => i - 1 \in 0..(k + 1) /\ i - 1 <= k)
        BY <1>2, <2>2, <3>1
      <4>2. i # 0 => h[i - 1] = f[i - 1]
        BY <2>2, <4>1
      <4>3. f[i] = IF i = 0 THEN <<>> ELSE Printed!AddToSlots(g, f[i - 1], q[i])
        BY <2>1, <4>1
      <4> QED BY <4>1, <4>2, <4>3
    <3>2. CASE ~(i <= k)
      <4>1. i = k + 1 /\ i # 0 /\ i - 1 = k /\ k \in 0..(k + 1) /\ k <= k
        BY <1>2, <3>2
      <4> QED BY <2>2, <3>2, <4>1
    <3> QED BY <3>1, <3>2
  <2>4. Eq(h, k + 1)
    BY <2>2, <2>3
  <2> QED BY <2>4
<1>3. Has(n)
  <2> HIDE DEF Has
  <2>1. PICK T : T = {k \in Nat : Has(k)}
    OBVIOUS
  <2>2. 0 \in T /\ \A k \in Nat : k < n /\ k \in T => k + 1 \in T
    BY <1>1, <1>2, <2>1
  <2>3. n \in T
    BY ONLY <2>2, Climbs, n \in Nat
  <2> QED BY <2>1, <2>3
<1>4. PICK t : t = CHOOSE f : Eq(f, n)
  OBVIOUS
<1>5. Eq(t, n)
  BY <1>3, <1>4
<1>6. Printed!Slots(g, q) = t[n]
  BY <1>4 DEF Printed!Slots
<1> HIDE DEF Eq
<1>7. \A i \in 0..n : t[i] = IF i = 0 THEN <<>> ELSE Printed!AddToSlots(g, t[i - 1], q[i])
  BY <1>5 DEF Eq
<1>8. t[0] = <<>>
  BY <1>7
<1>9. ASSUME NEW k \in Nat, k < n PROVE t[k + 1] = Printed!AddToSlots(g, t[k], q[k + 1])
  <2>1. k + 1 \in 0..n /\ k + 1 # 0 /\ (k + 1) - 1 = k
    BY <1>9
  <2> QED BY <1>7, <2>1
<1> QED BY <1>6, <1>8, <1>9 DEF Joining

LEMMA SlotsFilled ==
  ASSUME NEW g, NEW S, PlacedIn(g.at, S), NEW q, NEW N, Sorted(g.at, S, q, N)
  PROVE  SlotsFit(g.at, S, q, N, Printed!Slots(g, q))
<1>1. N \in Nat /\ Len(q) = N
  <2>1. N \in Nat /\ q \in [1..N -> S]
    BY DEF Sorted
  <2>2. q \in Seq(S)
    BY <2>1, IsASeq
  <2>3. PICK M \in Nat : M = Len(q) /\ DOMAIN q = 1..M
    BY <2>2, LenProperties
  <2>4. 1..M = 1..N
    BY <2>1, <2>3
  <2>5. M = N
    BY <2>1, <2>4
  <2> QED BY <2>1, <2>3, <2>5
<1>2. PICK t : Joining(g, q, N, t)
  BY <1>1, SlotSteps
<1>3. PICK T : T = {k \in Nat : SlotsFit(g.at, S, q, k, t[k])}
  OBVIOUS
<1>4. SlotsFit(g.at, S, q, 0, t[0])
  <2>1. <<>> \in SlotsOf(S) /\ Len(<<>>) = 0
    BY EmptySeq DEF SlotsOf
  <2> QED BY <1>2, <2>1 DEF SlotsFit, Joining
<1>5. ASSUME NEW k \in Nat, k < N, k \in T PROVE k + 1 \in T
  <2>1. SlotsFit(g.at, S, q, k, t[k]) /\ t[k + 1] = Printed!AddToSlots(g, t[k], q[k + 1])
    BY <1>2, <1>3, <1>5 DEF Joining
  <2>2. PICK u, s : u = t[k] /\ s = q[k + 1]
    OBVIOUS
  <2>3. SlotsFit(g.at, S, q, k + 1, Printed!AddToSlots(g, u, s))
    <3>1. CASE Len(u) > 0 /\ u[Len(u)].range = Printed!Times(g.at[s])
      <4>1. Printed!AddToSlots(g, u, s) = [u EXCEPT ![Len(u)].sessions = Append(@, s)]
        BY <3>1 DEF Printed!AddToSlots
      <4>2. SlotsFit(g.at, S, q, k, u) /\ u[Len(u)].range = Printed!Times(g.at[q[k + 1]])
        BY <2>1, <2>2, <3>1
      <4>3. SlotsFit(g.at, S, q, k + 1, [u EXCEPT ![Len(u)].sessions = Append(@, q[k + 1])])
        BY <1>5, <3>1, <4>2, SlotJoined
      <4> QED BY <2>2, <4>1, <4>3
    <3>2. CASE ~(Len(u) > 0 /\ u[Len(u)].range = Printed!Times(g.at[s]))
      <4>1. Printed!AddToSlots(g, u, s) = Append(u, [range |-> Printed!Times(g.at[s]), sessions |-> <<s>>])
        BY <3>2 DEF Printed!AddToSlots
      <4> QED BY <1>5, <2>1, <2>2, <3>2, <4>1, SlotOpens
    <3> QED BY <3>1, <3>2
  <2> QED BY <1>3, <2>1, <2>2, <2>3
<1>6. 0 \in T
  BY <1>3, <1>4
<1>7. N \in T
  BY ONLY <1>1, <1>5, <1>6, Climbs
<1> QED BY <1>2, <1>3, <1>7 DEF Joining

(* One range in two slots: another one, of the same start, is between them. *)
LEMMA RangesApart ==
  ASSUME NEW at, NEW S, PlacedIn(at, S), NEW q, NEW n, NEW t, SlotsFit(at, S, q, n, t),
         NEW k \in 1..Len(t), NEW l \in 1..Len(t), k < l, t[k].range = t[l].range
  PROVE  /\ k + 1 \in (k + 1)..(l - 1)
         /\ t[k + 1].range.start = t[k].range.start /\ t[k + 1].range.end # t[k].range.end
<1>1. PICK m : m = k + 1
  OBVIOUS
<1>2. Len(t) \in Nat
  BY DEF SlotsFit, SlotsOf
<1>3. m \in 1..Len(t) /\ k < m /\ m <= l /\ k < Len(t)
  BY <1>1, <1>2
<1>4. t[k].range # t[m].range
  BY <1>1, <1>3 DEF SlotsFit
<1>5. m # l /\ m < l /\ m \in (k + 1)..(l - 1)
  <2>1. m # l
    BY <1>4
  <2> QED BY <1>1, <1>2, <1>3, <2>1
<1>6. ASSUME NEW i \in 1..Len(t)
      PROVE  \E s \in S : t[i].sessions[1] = s /\ 1 \in 1..Len(t[i].sessions) /\ Printed!Times(at[s]) = t[i].range
  <2>1. 1 \in 1..Len(t[i].sessions)
    BY SlotFields DEF SlotsFit
  <2>2. t[i].sessions[1] \in S
    BY <2>1, SlotFields DEF SlotsFit
  <2>3. Printed!Times(at[t[i].sessions[1]]) = t[i].range
    BY <2>1 DEF SlotsFit
  <2> QED BY <2>1, <2>2, <2>3
<1>7. PICK a \in S : t[k].sessions[1] = a /\ 1 \in 1..Len(t[k].sessions) /\ Printed!Times(at[a]) = t[k].range
  BY <1>6
<1>8. PICK b \in S : t[m].sessions[1] = b /\ 1 \in 1..Len(t[m].sessions) /\ Printed!Times(at[b]) = t[m].range
  BY <1>3, <1>6
<1>9. PICK c \in S : t[l].sessions[1] = c /\ 1 \in 1..Len(t[l].sessions) /\ Printed!Times(at[c]) = t[l].range
  BY <1>6
<1>10. Sooner(at, a, b) /\ Sooner(at, b, c)
  <2>1. Sooner(at, t[k].sessions[1], t[m].sessions[1])
    BY <1>3, <1>7, <1>8 DEF SlotsFit
  <2>2. Sooner(at, t[m].sessions[1], t[l].sessions[1])
    BY <1>3, <1>5, <1>8, <1>9 DEF SlotsFit
  <2> QED BY <1>7, <1>8, <1>9, <2>1, <2>2
<1>11. at[a] \in Spot /\ at[b] \in Spot /\ at[c] \in Spot
  BY DEF PlacedIn
<1>12. /\ at[a].day = at[c].day /\ at[a].start = at[c].start /\ at[a].end = at[c].end
       /\ t[k].range.start = at[a].start /\ t[k].range.end = at[a].end
       /\ t[m].range.start = at[b].start /\ t[m].range.end = at[b].end
       /\ t[k].range.day = at[a].day /\ t[m].range.day = at[b].day
  BY <1>7, <1>8, <1>9 DEF Printed!Times
<1>13. /\ at[a].day \in Nat /\ at[a].start \in Nat /\ at[b].day \in Nat /\ at[b].start \in Nat
       /\ at[c].day \in Nat /\ at[c].start \in Nat
  BY <1>11 DEF Spot
<1>14. at[a].day = at[b].day /\ at[a].start = at[b].start
  BY <1>10, <1>12, <1>13 DEF Sooner
<1>15. at[a].end # at[b].end
  <2>1. Printed!Times(at[a]) # Printed!Times(at[b])
    BY <1>4, <1>7, <1>8
  <2> QED BY <1>14, <2>1 DEF Printed!Times
<1> QED BY <1>1, <1>5, <1>12, <1>14, <1>15

(* What is true while a page is made, and what the page has of it.          *)
Kept(st, ap) == {s \in Talks : st[s] = "confirmed" /\ s \in ap}
PlacedOf(pl) == {s \in Talks : pl[s] # None}
FactsOf(vi, pl, li, de, pu) ==
  (IF pu THEN {<<"program">>} ELSE {})
  \cup {<<"shown", s>> : s \in vi}
  \cup {<<"printed", s, pl[s]>> : s \in vi \cap PlacedOf(pl)}
  \cup {<<"linked", x[1], x[2]>> : x \in li}
  \cup {<<"coming", p>> : p \in Hosts \ de}
FactsSo(F, vi, pl, li, de, pu) ==
  /\ <<"program">> \in F <=> pu = TRUE
  /\ \A s : <<"shown", s>> \in F <=> s \in vi
  /\ \A s, to : <<"printed", s, to>> \in F <=> s \in vi \cap PlacedOf(pl) /\ to = pl[s]
  /\ \A s, p : <<"linked", s, p>> \in F <=> <<s, p>> \in li
  /\ \A p : <<"coming", p>> \in F <=> p \in Hosts \ de

Making(v) == v.pc \in {"look", "gate", "read", "links"}
HasSessions(v) == v.pc = "links" \/ (v.pc = "read" /\ "sessions" \notin v.unread)
HasMembers(v) == v.pc = "links" \/ (v.pc = "read" /\ "members" \notin v.unread)
SessionsSo(v) ==
  /\ v.rows \subseteq Talks /\ v.at \in [Talks -> Spots \cup {None}]
  /\ \A s \in v.rows : /\ <<"shown", s>> \in v.ever
                       /\ v.at[s] # None => <<"printed", s, v.at[s]>> \in v.ever
  /\ \A s \in Talks : <<"shown", s>> \in v.always => s \in v.rows
  /\ \A s \in Talks : \A to : <<"printed", s, to>> \in v.always => s \in v.rows /\ v.at[s] = to /\ to # None
MembersSo(v) ==
  \A p \in Hosts : /\ p \notin v.out => <<"coming", p>> \in v.ever
                   /\ <<"coming", p>> \in v.always => p \notin v.out

(* What a page that is done shows, in the words of the properties.          *)
ListedIn(v) == UNION {{v.slots[k].sessions[i] : i \in DOMAIN v.slots[k].sessions} : k \in DOMAIN v.slots}
HiddenIn(v) ==
  /\ ListedIn(v) # {} \/ v.cards # {} => <<"program">> \in v.ever
  /\ \A k \in DOMAIN v.slots : \A i \in DOMAIN v.slots[k].sessions :
       \E to \in Spots : /\ <<"printed", v.slots[k].sessions[i], to>> \in v.ever
                         /\ Printed!Times(to) = v.slots[k].range
  /\ \A x \in v.bylines :
       <<"shown", x[1]>> \in v.ever /\ <<"linked", x[1], x[2]>> \in v.ever /\ <<"coming", x[2]>> \in v.ever
SpeaksIn(v, s, p) ==
  <<"shown", s>> \in v.always /\ <<"linked", s, p>> \in v.always /\ <<"coming", p>> \in v.always
PublicIn(v) ==
  <<"program">> \in v.always =>
    IF Printed!OfSpeakers(v.kind)
    THEN \A p \in Hosts : (\E s \in v.wish : SpeaksIn(v, s, p)) =>
           \A s \in Talks : SpeaksIn(v, s, p) => <<s, p>> \in v.bylines
    ELSE \A s \in v.wish, to \in Spots : <<"printed", s, to>> \in v.always =>
           /\ s \in ListedIn(v)
           /\ \A p \in Hosts : SpeaksIn(v, s, p) => <<s, p>> \in v.bylines
OrderIn(v) ==
  /\ \A k, l \in DOMAIN v.slots : \A i \in DOMAIN v.slots[k].sessions, j \in DOMAIN v.slots[l].sessions :
       k < l \/ (k = l /\ i < j) => Sooner(v.at, v.slots[k].sessions[i], v.slots[l].sessions[j])
  /\ \A k, l \in DOMAIN v.slots :
       k < l /\ v.slots[k].range = v.slots[l].range =>
         \E m \in (k + 1)..(l - 1) :
           v.slots[m].range.start = v.slots[k].range.start /\ v.slots[m].range.end # v.slots[k].range.end
SaidIn(v) ==
  LET public == IF v.after.flag THEN v.after.toPublish ELSE {} IN
  v.after.pc = "done" /\ v.after.calm =>
    IF Printed!OfSpeakers(v.kind)
    THEN {x[1] : x \in v.bylines} \subseteq public \cup IF v.after.flag THEN v.after.unscheduled ELSE {}
    ELSE ListedIn(v) = public \cap v.wish
ToldIn(v) == HiddenIn(v) /\ PublicIn(v) /\ OrderIn(v) /\ SaidIn(v)

(* What was announced is so, until somebody edits.                          *)
Announced(p, vi, pl) == p.toPublish = PlacedOf(pl) \cap vi /\ p.unscheduled = vi \ PlacedOf(pl)
Plan ==
  [pc : {"none", "write", "done"}, flag : BOOLEAN, toPublish : SUBSET Talks, heldBack : SUBSET Talks,
   unscheduled : SUBSET Talks, calm : BOOLEAN]
PlanSo(p, vi, pl, pu) ==
  /\ p \in Plan
  /\ p.pc # "none" /\ p.calm => Announced(p, vi, pl)
  /\ p.pc = "done" /\ p.calm => pu = p.flag
AfterSo(v, vi, pl, pu) ==
  Making(v) /\ v.after.pc = "done" /\ v.after.calm =>
    /\ Announced(v.after, vi, pl) /\ pu = v.after.flag
    /\ v.pc \in {"read", "links"} => pu = TRUE
    /\ HasSessions(v) => v.rows = vi /\ v.at = pl

Shape(v) ==
  v = [kind |-> v.kind, pc |-> v.pc, wish |-> v.wish, look |-> v.look, rows |-> v.rows, out |-> v.out,
       unread |-> v.unread, at |-> v.at, slots |-> v.slots, cards |-> v.cards, bylines |-> v.bylines,
       ever |-> v.ever, always |-> v.always, after |-> v.after]
Bare(v) == v.slots = <<>> /\ v.cards = {} /\ v.bylines = {}
ViewSo(v, F, vi, pl, pu) ==
  /\ Shape(v) /\ v.pc \in {"none", "look", "gate", "read", "links", "done"}
  /\ v.pc # "done" => Bare(v)
  /\ Making(v) => v.always \subseteq F /\ F \subseteq v.ever
  /\ v.pc \in {"read", "links"} => <<"program">> \in v.ever
  /\ v.pc = "read" => v.unread \subseteq {"sessions", "members"}
  /\ HasSessions(v) => SessionsSo(v)
  /\ HasMembers(v) => MembersSo(v)
  /\ AfterSo(v, vi, pl, pu)
  /\ v.pc = "done" => ToldIn(v)

LEMMA FactsTell ==
  ASSUME NEW vi, NEW pl, NEW li \in SUBSET (Talks \X Hosts), NEW de, NEW pu \in BOOLEAN
  PROVE  FactsSo(FactsOf(vi, pl, li, de, pu), vi, pl, li, de, pu)
<1>1. PICK F : F = FactsOf(vi, pl, li, de, pu)
  OBVIOUS
<1>2. \A f : f \in F <=> \/ pu /\ f = <<"program">>
                         \/ \E s \in vi : f = <<"shown", s>>
                         \/ \E s \in vi \cap PlacedOf(pl) : f = <<"printed", s, pl[s]>>
                         \/ \E x \in li : f = <<"linked", x[1], x[2]>>
                         \/ \E p \in Hosts \ de : f = <<"coming", p>>
  BY <1>1 DEF FactsOf
<1>3. <<"program">> \in F <=> pu = TRUE
  BY <1>2
<1>4. \A s : <<"shown", s>> \in F <=> s \in vi
  BY <1>2
<1>5. \A s, to : <<"printed", s, to>> \in F <=> s \in vi \cap PlacedOf(pl) /\ to = pl[s]
  BY <1>2
<1>6. \A s, p : <<"linked", s, p>> \in F <=> <<s, p>> \in li
  <2> SUFFICES ASSUME NEW s, NEW p PROVE <<"linked", s, p>> \in F <=> <<s, p>> \in li
    OBVIOUS
  <2>1. <<"linked", s, p>> \in F <=> \E x \in li : <<"linked", s, p>> = <<"linked", x[1], x[2]>>
    BY <1>2
  <2>2. \A x \in li : x = <<x[1], x[2]>>
    OBVIOUS
  <2>3. <<"linked", s, p>> \in F <=> \E x \in li : s = x[1] /\ p = x[2]
    BY <2>1
  <2> QED BY <2>2, <2>3
<1>7. \A p : <<"coming", p>> \in F <=> p \in Hosts \ de
  BY <1>2
<1> QED BY <1>1, <1>3, <1>4, <1>5, <1>6, <1>7 DEF FactsSo

(* Somebody edits, or the program goes on or off the web. *)
LEMMA PageNotes ==
  ASSUME NEW v, NEW F, NEW vi, NEW pl, NEW pu, ViewSo(v, F, vi, pl, pu), NEW G, NEW vj, NEW pk, NEW pv
  PROVE  ViewSo(IF v.pc \in {"none", "done"} THEN [v EXCEPT !.after = Printed!NoPlan]
                ELSE [v EXCEPT !.ever = @ \cup G, !.always = @ \cap G, !.after = Printed!NoPlan],
                G, vj, pk, pv)
<1>1. PICK u : u = IF v.pc \in {"none", "done"} THEN [v EXCEPT !.after = Printed!NoPlan]
                   ELSE [v EXCEPT !.ever = @ \cup G, !.always = @ \cap G, !.after = Printed!NoPlan]
  OBVIOUS
<1>2. /\ Shape(u) /\ u.kind = v.kind /\ u.pc = v.pc /\ u.wish = v.wish /\ u.rows = v.rows /\ u.out = v.out
      /\ u.unread = v.unread /\ u.at = v.at /\ u.slots = v.slots /\ u.cards = v.cards
      /\ u.bylines = v.bylines /\ u.after = Printed!NoPlan
      /\ u.pc \in {"none", "done"} => u.ever = v.ever /\ u.always = v.always
      /\ u.pc \notin {"none", "done"} => u.ever = v.ever \cup G /\ u.always = v.always \cap G
  <2>1. Shape(v)
    BY DEF ViewSo
  <2>2. CASE v.pc \in {"none", "done"}
    <3>1. u = [v EXCEPT !.after = Printed!NoPlan]
      BY <1>1, <2>2
    <3> QED BY <2>1, <2>2, <3>1 DEF Shape
  <2>3. CASE v.pc \notin {"none", "done"}
    <3>1. u = [v EXCEPT !.ever = @ \cup G, !.always = @ \cap G, !.after = Printed!NoPlan]
      BY <1>1, <2>3
    <3> QED BY <2>1, <2>3, <3>1 DEF Shape
  <2> QED BY <2>2, <2>3
<1>3. u.after.pc # "done"
  BY <1>2 DEF Printed!NoPlan
<1>4. /\ u.pc \in {"none", "look", "gate", "read", "links", "done"} /\ (u.pc # "done" => Bare(u))
      /\ Making(u) => u.always \subseteq G /\ G \subseteq u.ever
      /\ u.pc \in {"read", "links"} => <<"program">> \in u.ever
      /\ u.pc = "read" => u.unread \subseteq {"sessions", "members"}
  BY <1>2 DEF ViewSo, Bare, Making
<1>5. HasSessions(u) => SessionsSo(u)
  BY <1>2 DEF ViewSo, HasSessions, SessionsSo
<1>6. HasMembers(u) => MembersSo(u)
  BY <1>2 DEF ViewSo, HasMembers, MembersSo
<1>7. AfterSo(u, vj, pk, pv)
  BY <1>3 DEF AfterSo
<1>8. u.pc = "done" => ToldIn(u)
  <2> SUFFICES ASSUME u.pc = "done" PROVE ToldIn(u)
    OBVIOUS
  <2>1. ToldIn(v) /\ u.ever = v.ever /\ u.always = v.always
    BY <1>2 DEF ViewSo
  <2>2. ListedIn(u) = ListedIn(v)
    BY <1>2 DEF ListedIn
  <2>3. HiddenIn(u)
    BY <1>2, <2>1, <2>2 DEF ToldIn, HiddenIn
  <2>4. PublicIn(u)
    BY <1>2, <2>1, <2>2 DEF ToldIn, PublicIn, SpeaksIn
  <2>5. OrderIn(u)
    BY <1>2, <2>1 DEF ToldIn, OrderIn
  <2>6. SaidIn(u)
    BY <1>3 DEF SaidIn
  <2> QED BY <2>3, <2>4, <2>5, <2>6 DEF ToldIn
<1>9. ViewSo(u, G, vj, pk, pv)
  BY <1>2, <1>4, <1>5, <1>6, <1>7, <1>8 DEF ViewSo
<1> QED BY <1>1, <1>9

(* A page is asked for. *)
LEMMA PageBegins ==
  ASSUME NEW kind, NEW wish, NEW F, NEW vi, NEW pl, NEW pu, NEW p, PlanSo(p, vi, pl, pu)
  PROVE  ViewSo([Printed!NoPage EXCEPT !.kind = kind, !.wish = wish, !.ever = F, !.always = F,
                   !.pc = IF Printed!LooksFirst(kind) THEN "look" ELSE "gate",
                   !.after = IF p.pc = "done" THEN p ELSE Printed!NoPlan], F, vi, pl, pu)
<1>1. PICK u : u = [Printed!NoPage EXCEPT !.kind = kind, !.wish = wish, !.ever = F, !.always = F,
                   !.pc = IF Printed!LooksFirst(kind) THEN "look" ELSE "gate",
                   !.after = IF p.pc = "done" THEN p ELSE Printed!NoPlan]
  OBVIOUS
<1>2. /\ Shape(u) /\ u.pc \in {"look", "gate"} /\ Bare(u) /\ u.ever = F /\ u.always = F
      /\ u.after = IF p.pc = "done" THEN p ELSE Printed!NoPlan
  BY <1>1 DEF Shape, Bare, Printed!NoPage
<1>3. AfterSo(u, vi, pl, pu)
  <2>1. Printed!NoPlan.pc # "done"
    BY DEF Printed!NoPlan
  <2> QED BY <1>2, <2>1 DEF AfterSo, PlanSo, HasSessions
<1>4. ~HasSessions(u) /\ ~HasMembers(u)
  BY <1>2 DEF HasSessions, HasMembers
<1>5. ViewSo(u, F, vi, pl, pu)
  BY <1>2, <1>3, <1>4 DEF ViewSo
<1> QED BY <1>1, <1>5

(* The program is not on the web: a page shows nothing of it. *)
LEMMA PageEnds ==
  ASSUME NEW v, NEW F, NEW vi, NEW pl, NEW li, NEW de, ViewSo(v, F, vi, pl, FALSE), Making(v),
         FactsSo(F, vi, pl, li, de, FALSE)
  PROVE  ViewSo(Printed!Ended(v), F, vi, pl, FALSE)
<1>1. PICK u : u = Printed!Ended(v)
  OBVIOUS
<1>2. /\ Shape(u) /\ u.kind = v.kind /\ u.pc = "done" /\ u.wish = v.wish /\ Bare(u)
      /\ u.ever = v.ever /\ u.always = v.always /\ u.after = v.after
  <2>1. Shape(v) /\ Bare(v) /\ u = [v EXCEPT !.pc = "done", !.rows = {}, !.out = {}]
    BY <1>1 DEF ViewSo, Making, Printed!Ended
  <2>2. Shape(u) /\ u.kind = v.kind /\ u.pc = "done" /\ u.wish = v.wish /\ u.slots = v.slots
        /\ u.cards = v.cards /\ u.bylines = v.bylines /\ u.ever = v.ever /\ u.always = v.always
        /\ u.after = v.after
    BY <2>1 DEF Shape
  <2> QED BY <2>1, <2>2 DEF Bare
<1>3. u.slots = <<>> /\ u.cards = {} /\ u.bylines = {} /\ DOMAIN u.slots = {} /\ ListedIn(u) = {}
  <2>1. u.slots = <<>> /\ u.cards = {} /\ u.bylines = {}
    BY <1>2 DEF Bare
  <2>2. DOMAIN u.slots = {}
    BY <2>1
  <2> QED BY <2>1, <2>2 DEF ListedIn
<1>4. HiddenIn(u) /\ OrderIn(u)
  BY <1>3 DEF HiddenIn, OrderIn
<1>5. PublicIn(u)
  BY <1>2 DEF PublicIn, ViewSo, FactsSo
<1>6. SaidIn(u)
  <2>1. u.after.pc = "done" /\ u.after.calm => u.after.flag = FALSE
    BY <1>2 DEF ViewSo, AfterSo
  <2>2. {x[1] : x \in u.bylines} = {}
    BY <1>3
  <2> QED BY <1>3, <2>1, <2>2 DEF SaidIn
<1>7. ~Making(u) /\ ~HasSessions(u) /\ ~HasMembers(u) /\ AfterSo(u, vi, pl, FALSE)
  BY <1>2 DEF Making, HasSessions, HasMembers, AfterSo
<1>8. ViewSo(u, F, vi, pl, FALSE)
  BY <1>2, <1>4, <1>5, <1>6, <1>7 DEF ViewSo, ToldIn
<1> QED BY <1>1, <1>8

(* It looks whether it is, or has looked. *)
LEMMA PageLooks ==
  ASSUME NEW v, NEW F, NEW vi, NEW pl, NEW pu, ViewSo(v, F, vi, pl, pu), v.pc = "look"
  PROVE  ViewSo([v EXCEPT !.look = pu, !.pc = "gate"], F, vi, pl, pu)
<1>1. PICK u : u = [v EXCEPT !.look = pu, !.pc = "gate"]
  OBVIOUS
<1>2. /\ Shape(u) /\ u.pc = "gate" /\ Bare(u) /\ u.ever = v.ever /\ u.always = v.always /\ u.after = v.after
  <2>1. Shape(v) /\ Bare(v)
    BY DEF ViewSo
  <2>2. Shape(u) /\ u.pc = "gate" /\ u.slots = v.slots /\ u.cards = v.cards /\ u.bylines = v.bylines
        /\ u.ever = v.ever /\ u.always = v.always /\ u.after = v.after
    BY <1>1, <2>1 DEF Shape
  <2> QED BY <2>1, <2>2 DEF Bare
<1>3. ~HasSessions(u) /\ ~HasMembers(u) /\ Making(v) /\ Making(u)
  BY <1>2 DEF HasSessions, HasMembers, Making
<1>4. AfterSo(u, vi, pl, pu)
  BY <1>2, <1>3 DEF ViewSo, AfterSo
<1>5. ViewSo(u, F, vi, pl, pu)
  BY <1>2, <1>3, <1>4 DEF ViewSo
<1> QED BY <1>1, <1>5

LEMMA PageEnters ==
  ASSUME NEW v, NEW F, NEW vi, NEW pl, NEW li, NEW de, ViewSo(v, F, vi, pl, TRUE), v.pc = "gate",
         FactsSo(F, vi, pl, li, de, TRUE)
  PROVE  ViewSo([v EXCEPT !.pc = "read", !.unread = {"sessions", "members"}], F, vi, pl, TRUE)
<1>1. PICK u : u = [v EXCEPT !.pc = "read", !.unread = {"sessions", "members"}]
  OBVIOUS
<1>2. /\ Shape(u) /\ u.pc = "read" /\ Bare(u) /\ u.ever = v.ever /\ u.always = v.always /\ u.after = v.after
      /\ u.unread = {"sessions", "members"}
  <2>1. Shape(v) /\ Bare(v)
    BY DEF ViewSo
  <2>2. Shape(u) /\ u.pc = "read" /\ u.slots = v.slots /\ u.cards = v.cards /\ u.bylines = v.bylines
        /\ u.ever = v.ever /\ u.always = v.always /\ u.after = v.after /\ u.unread = {"sessions", "members"}
    BY <1>1, <2>1 DEF Shape
  <2> QED BY <2>1, <2>2 DEF Bare
<1>3. ~HasSessions(u) /\ ~HasMembers(u) /\ Making(v) /\ Making(u)
  BY <1>2 DEF HasSessions, HasMembers, Making
<1>4. AfterSo(u, vi, pl, TRUE)
  BY <1>2, <1>3 DEF ViewSo, AfterSo
<1>5. <<"program">> \in u.ever
  BY <1>2, <1>3 DEF ViewSo, FactsSo
<1>6. ViewSo(u, F, vi, pl, TRUE)
  BY <1>2, <1>3, <1>4, <1>5 DEF ViewSo
<1> QED BY <1>1, <1>6

(* It reads the sessions; and who comes. *)
LEMMA SessionsRead ==
  ASSUME NEW v, NEW F, NEW vi \in SUBSET Talks, NEW pl \in [Talks -> Spots \cup {None}], NEW pu,
         NEW li, NEW de, FactsSo(F, vi, pl, li, de, pu), ViewSo(v, F, vi, pl, pu), v.pc = "read",
         "sessions" \in v.unread
  PROVE  ViewSo([[v EXCEPT !.rows = vi, !.at = pl] EXCEPT
                   !.unread = @ \ {"sessions"},
                   !.pc = IF v.unread = {"sessions"} THEN "links" ELSE "read"], F, vi, pl, pu)
<1>1. PICK u : u = [[v EXCEPT !.rows = vi, !.at = pl] EXCEPT
                      !.unread = @ \ {"sessions"},
                      !.pc = IF v.unread = {"sessions"} THEN "links" ELSE "read"]
  OBVIOUS
<1>2. /\ Shape(u) /\ Bare(u) /\ u.ever = v.ever /\ u.always = v.always /\ u.after = v.after
      /\ u.rows = vi /\ u.at = pl /\ u.out = v.out /\ u.unread = v.unread \ {"sessions"}
      /\ u.pc = IF v.unread = {"sessions"} THEN "links" ELSE "read"
  <2>1. Shape(v) /\ Bare(v)
    BY DEF ViewSo
  <2>2. PICK w : w = [v EXCEPT !.rows = vi, !.at = pl]
    OBVIOUS
  <2>3. Shape(w) /\ w.slots = v.slots /\ w.cards = v.cards /\ w.bylines = v.bylines
        /\ w.ever = v.ever /\ w.always = v.always /\ w.after = v.after
        /\ w.rows = vi /\ w.at = pl /\ w.out = v.out /\ w.unread = v.unread
    BY <2>1, <2>2 DEF Shape
  <2>4. u = [w EXCEPT !.unread = @ \ {"sessions"},
                      !.pc = IF v.unread = {"sessions"} THEN "links" ELSE "read"]
    BY <1>1, <2>2
  <2>5. Shape(u) /\ u.slots = w.slots /\ u.cards = w.cards /\ u.bylines = w.bylines
        /\ u.ever = w.ever /\ u.always = w.always /\ u.after = w.after
        /\ u.rows = w.rows /\ u.at = w.at /\ u.out = w.out /\ u.unread = w.unread \ {"sessions"}
        /\ u.pc = IF v.unread = {"sessions"} THEN "links" ELSE "read"
    BY <2>3, <2>4 DEF Shape
  <2> QED BY <2>1, <2>3, <2>5 DEF Bare
<1>3. Making(v) /\ Making(u) /\ u.pc \in {"read", "links"}
  BY <1>2 DEF Making
<1>4. F \subseteq u.ever /\ u.always \subseteq F
  BY <1>2, <1>3 DEF ViewSo
<1>5. SessionsSo(u)
  <2>1. ASSUME NEW s \in u.rows
        PROVE <<"shown", s>> \in u.ever /\ (u.at[s] # None => <<"printed", s, u.at[s]>> \in u.ever)
    BY <1>2, <1>4 DEF FactsSo, PlacedOf
  <2>2. ASSUME NEW s \in Talks, <<"shown", s>> \in u.always PROVE s \in u.rows
    BY <1>2, <1>4, <2>2 DEF FactsSo
  <2>3. ASSUME NEW s \in Talks, NEW to, <<"printed", s, to>> \in u.always
        PROVE s \in u.rows /\ u.at[s] = to /\ to # None
    BY <1>2, <1>4, <2>3 DEF FactsSo, PlacedOf
  <2> QED BY <1>2, <2>1, <2>2, <2>3 DEF SessionsSo
<1>6. HasMembers(u) => MembersSo(u)
  <2>1. HasMembers(u) => HasMembers(v)
    BY <1>2 DEF HasMembers
  <2> QED BY <1>2, <2>1 DEF ViewSo, MembersSo
<1>7. AfterSo(u, vi, pl, pu)
  BY <1>2, <1>3 DEF ViewSo, AfterSo
<1>8. u.pc # "done" /\ (u.pc = "read" => u.unread \subseteq {"sessions", "members"}) /\ <<"program">> \in u.ever
  BY <1>2 DEF ViewSo
<1>9. ViewSo(u, F, vi, pl, pu)
  BY <1>2, <1>3, <1>4, <1>5, <1>6, <1>7, <1>8 DEF ViewSo
<1> QED BY <1>1, <1>9

LEMMA MembersRead ==
  ASSUME NEW v, NEW F, NEW vi, NEW pl, NEW pu,
         NEW li, NEW de, FactsSo(F, vi, pl, li, de, pu), ViewSo(v, F, vi, pl, pu), v.pc = "read",
         "members" \in v.unread
  PROVE  ViewSo([[v EXCEPT !.out = de] EXCEPT
                   !.unread = @ \ {"members"},
                   !.pc = IF v.unread = {"members"} THEN "links" ELSE "read"], F, vi, pl, pu)
<1>1. PICK u : u = [[v EXCEPT !.out = de] EXCEPT
                      !.unread = @ \ {"members"},
                      !.pc = IF v.unread = {"members"} THEN "links" ELSE "read"]
  OBVIOUS
<1>2. /\ Shape(u) /\ Bare(u) /\ u.ever = v.ever /\ u.always = v.always /\ u.after = v.after
      /\ u.rows = v.rows /\ u.at = v.at /\ u.out = de /\ u.unread = v.unread \ {"members"}
      /\ u.pc = IF v.unread = {"members"} THEN "links" ELSE "read"
  <2>1. Shape(v) /\ Bare(v)
    BY DEF ViewSo
  <2>2. PICK w : w = [v EXCEPT !.out = de]
    OBVIOUS
  <2>3. Shape(w) /\ w.slots = v.slots /\ w.cards = v.cards /\ w.bylines = v.bylines
        /\ w.ever = v.ever /\ w.always = v.always /\ w.after = v.after
        /\ w.rows = v.rows /\ w.at = v.at /\ w.out = de /\ w.unread = v.unread
    BY <2>1, <2>2 DEF Shape
  <2>4. u = [w EXCEPT !.unread = @ \ {"members"},
                      !.pc = IF v.unread = {"members"} THEN "links" ELSE "read"]
    BY <1>1, <2>2
  <2>5. Shape(u) /\ u.slots = w.slots /\ u.cards = w.cards /\ u.bylines = w.bylines
        /\ u.ever = w.ever /\ u.always = w.always /\ u.after = w.after
        /\ u.rows = w.rows /\ u.at = w.at /\ u.out = w.out /\ u.unread = w.unread \ {"members"}
        /\ u.pc = IF v.unread = {"members"} THEN "links" ELSE "read"
    BY <2>3, <2>4 DEF Shape
  <2> QED BY <2>1, <2>3, <2>5 DEF Bare
<1>3. Making(v) /\ Making(u) /\ u.pc \in {"read", "links"}
  BY <1>2 DEF Making
<1>4. F \subseteq u.ever /\ u.always \subseteq F
  BY <1>2, <1>3 DEF ViewSo
<1>5. MembersSo(u)
  BY <1>2, <1>4 DEF FactsSo, MembersSo
<1>a. HasSessions(u) => HasSessions(v)
  BY <1>2 DEF HasSessions
<1>6. HasSessions(u) => SessionsSo(u)
  BY <1>2, <1>a DEF ViewSo, SessionsSo
<1>7. AfterSo(u, vi, pl, pu)
  BY <1>2, <1>3, <1>a DEF ViewSo, AfterSo
<1>8. u.pc # "done" /\ (u.pc = "read" => u.unread \subseteq {"sessions", "members"}) /\ <<"program">> \in u.ever
  BY <1>2 DEF ViewSo
<1>9. ViewSo(u, F, vi, pl, pu)
  BY <1>2, <1>3, <1>4, <1>5, <1>6, <1>7, <1>8 DEF ViewSo
<1> QED BY <1>1, <1>9

(* What a page is made of: who is on no byline. *)
TalksOf(v, li) == {x \in li : x[1] \in v.rows /\ x[2] \notin v.out}
CardsOf(v, li) == {p \in Hosts : \E s \in v.wish : <<s, p>> \in TalksOf(v, li)}
PrintedOf(v) == {s \in v.rows : v.at[s] # None /\ s \in v.wish}

LEMMA BylinesSo ==
  ASSUME NEW v, NEW F, NEW vi, NEW pl, NEW pu, NEW li \in SUBSET (Talks \X Hosts), NEW de,
         FactsSo(F, vi, pl, li, de, pu), ViewSo(v, F, vi, pl, pu), v.pc = "links"
  PROVE  /\ \A x \in TalksOf(v, li) : <<"shown", x[1]>> \in v.ever /\ <<"linked", x[1], x[2]>> \in v.ever
                                      /\ <<"coming", x[2]>> \in v.ever
         /\ \A s \in Talks, p \in Hosts : SpeaksIn(v, s, p) => <<s, p>> \in TalksOf(v, li)
<1>1. SessionsSo(v) /\ MembersSo(v) /\ v.always \subseteq F /\ F \subseteq v.ever
  BY DEF ViewSo, HasSessions, HasMembers, Making
<1>2. ASSUME NEW x \in TalksOf(v, li)
      PROVE  <<"shown", x[1]>> \in v.ever /\ <<"linked", x[1], x[2]>> \in v.ever /\ <<"coming", x[2]>> \in v.ever
  <2>1. x \in li /\ x[1] \in v.rows /\ x[2] \notin v.out /\ x[2] \in Hosts /\ x = <<x[1], x[2]>>
    BY DEF TalksOf
  <2>2. <<"linked", x[1], x[2]>> \in F
    BY <2>1 DEF FactsSo
  <2> QED BY <1>1, <2>1, <2>2 DEF SessionsSo, MembersSo
<1>3. ASSUME NEW s \in Talks, NEW p \in Hosts, SpeaksIn(v, s, p) PROVE <<s, p>> \in TalksOf(v, li)
  <2>1. s \in v.rows /\ p \notin v.out
    BY <1>1, <1>3 DEF SpeaksIn, SessionsSo, MembersSo
  <2>2. <<s, p>> \in li
    BY <1>1, <1>3 DEF SpeaksIn, FactsSo
  <2> QED BY <2>1, <2>2 DEF TalksOf
<1> QED BY <1>2, <1>3

(* The fields of a page that is made of what v has read. *)
MadeOf(u, v) ==
  /\ u.kind = v.kind /\ u.wish = v.wish /\ u.ever = v.ever /\ u.always = v.always
  /\ u.after = v.after /\ u.at = v.at

LEMMA GalleryTells ==
  ASSUME NEW v, NEW F, NEW vi, NEW pl, NEW pu, NEW li \in SUBSET (Talks \X Hosts), NEW de,
         FactsSo(F, vi, pl, li, de, pu), ViewSo(v, F, vi, pl, pu), v.pc = "links",
         Printed!OfSpeakers(v.kind), NEW u, MadeOf(u, v), u.slots = <<>>,
         u.cards = CardsOf(v, li), u.bylines = {x \in TalksOf(v, li) : x[2] \in CardsOf(v, li)}
  PROVE  ToldIn(u)
<1>1. DOMAIN u.slots = {}
  OBVIOUS
<1>2. HiddenIn(u)
  <2>1. \A x \in u.bylines :
          <<"shown", x[1]>> \in u.ever /\ <<"linked", x[1], x[2]>> \in u.ever /\ <<"coming", x[2]>> \in u.ever
    BY BylinesSo DEF MadeOf
  <2>2. <<"program">> \in u.ever
    BY DEF MadeOf, ViewSo
  <2> QED BY <1>1, <2>1, <2>2 DEF HiddenIn
<1>3. PublicIn(u)
  <2> SUFFICES ASSUME NEW p \in Hosts, NEW r \in u.wish, SpeaksIn(u, r, p), NEW s \in Talks, SpeaksIn(u, s, p)
               PROVE  <<s, p>> \in u.bylines
    BY DEF PublicIn, MadeOf
  <2>1. SpeaksIn(v, r, p) /\ SpeaksIn(v, s, p) /\ r \in v.wish
    BY DEF SpeaksIn, MadeOf
  <2>2. r \in Talks
    <3>1. v.always \subseteq F
      BY DEF ViewSo, Making
    <3>2. <<r, p>> \in li
      BY <2>1, <3>1 DEF SpeaksIn, FactsSo
    <3> QED BY <3>2
  <2>3. <<r, p>> \in TalksOf(v, li) /\ <<s, p>> \in TalksOf(v, li)
    BY <2>1, <2>2, BylinesSo
  <2>4. p \in u.cards
    BY <2>1, <2>3 DEF CardsOf
  <2> QED BY <2>3, <2>4
<1>4. OrderIn(u)
  BY <1>1 DEF OrderIn
<1>5. SaidIn(u)
  <2> SUFFICES ASSUME v.after.pc = "done", v.after.calm, NEW x \in u.bylines
               PROVE  x[1] \in (IF v.after.flag THEN v.after.toPublish ELSE {})
                              \cup IF v.after.flag THEN v.after.unscheduled ELSE {}
    BY DEF SaidIn, MadeOf
  <2>1. Announced(v.after, vi, pl) /\ v.after.flag = TRUE /\ v.rows = vi
    BY DEF ViewSo, AfterSo, Making, HasSessions
  <2>2. x[1] \in vi
    BY <2>1 DEF TalksOf
  <2>3. x[1] \in Talks
    BY DEF TalksOf
  <2>4. x[1] \in v.after.toPublish \cup v.after.unscheduled
    BY <2>1, <2>2, <2>3 DEF Announced
  <2> QED BY <2>1, <2>4
<1> QED BY <1>2, <1>3, <1>4, <1>5 DEF ToldIn

LEMMA ScheduleTells ==
  ASSUME NEW v, NEW F, NEW vi, NEW pl, NEW pu, NEW li \in SUBSET (Talks \X Hosts), NEW de,
         FactsSo(F, vi, pl, li, de, pu), ViewSo(v, F, vi, pl, pu), v.pc = "links",
         ~Printed!OfSpeakers(v.kind), NEW u, MadeOf(u, v), u.cards = {},
         u.slots = Printed!Slots(v, Printed!InOrder(v, PrintedOf(v))),
         u.bylines = {x \in TalksOf(v, li) : x[1] \in PrintedOf(v)}
  PROVE  ToldIn(u)
<1>1. SessionsSo(v) /\ v.always \subseteq F /\ F \subseteq v.ever /\ <<"program">> \in v.ever
  BY DEF ViewSo, HasSessions, Making
<1>2. PICK S \in SUBSET Talks : S = PrintedOf(v)
  BY <1>1 DEF PrintedOf, SessionsSo
<1>3. ASSUME NEW s \in S PROVE v.at[s] \in Spots /\ v.at[s] \in Spot /\ s \in v.rows /\ s \in v.wish
  BY <1>1, <1>2, ProgramOK DEF PrintedOf, SessionsSo, Spot
<1>4. PlacedIn(v.at, S)
  <2>1. IsFiniteSet(S)
    BY ProgramOK, FS_Subset
  <2>2. \A s \in S : s \in Nat
    BY ProgramOK
  <2> QED BY <1>3, <2>1, <2>2 DEF PlacedIn
<1>5. PICK q, n : q = Printed!InOrder(v, S) /\ n = Cardinality(S)
  OBVIOUS
<1>6. Sorted(v.at, S, q, n)
  BY <1>4, <1>5, ComeInOrder
<1>7. PICK t : t = u.slots
  OBVIOUS
<1>8. SlotsFit(v.at, S, q, n, t)
  <2>1. t = Printed!Slots(v, q)
    BY <1>2, <1>5, <1>7
  <2>2. SlotsFit(v.at, S, q, n, Printed!Slots(v, q))
    BY <1>4, <1>6, SlotsFilled
  <2> QED BY <2>1, <2>2
<1>9. PICK L \in Nat : L = Len(t) /\ DOMAIN t = 1..L
  <2>1. t \in Seq(Slot(S))
    BY <1>8 DEF SlotsFit, SlotsOf
  <2> QED BY <2>1, LenProperties
<1>10. ASSUME NEW k \in 1..L
       PROVE  /\ DOMAIN t[k].sessions = 1..Len(t[k].sessions)
              /\ \A i \in DOMAIN t[k].sessions : t[k].sessions[i] \in S
  <2>1. t \in SlotsOf(S) /\ k \in 1..Len(t)
    BY <1>8, <1>9 DEF SlotsFit
  <2>2. t[k].sessions \in Seq(S) /\ \A i \in 1..Len(t[k].sessions) : t[k].sessions[i] \in S
    BY <2>1, SlotFields
  <2>3. DOMAIN t[k].sessions = 1..Len(t[k].sessions)
    BY <2>2, LenProperties
  <2> QED BY <2>2, <2>3
<1>11. ListedIn(u) = S
  <2>1. ASSUME NEW s \in ListedIn(u) PROVE s \in S
    <3>1. PICK k \in DOMAIN t : s \in {t[k].sessions[i] : i \in DOMAIN t[k].sessions}
      BY <1>7, <2>1 DEF ListedIn
    <3>2. PICK i \in DOMAIN t[k].sessions : s = t[k].sessions[i]
      BY <3>1
    <3> QED BY <1>9, <1>10, <3>1, <3>2
  <2>2. ASSUME NEW s \in S PROVE s \in ListedIn(u)
    <3>1. PICK m \in 1..n : q[m] = s
      BY <1>6 DEF Sorted
    <3>2. PICK k \in 1..Len(t) : \E i \in 1..Len(t[k].sessions) : t[k].sessions[i] = q[m]
      BY <1>8, <3>1 DEF SlotsFit
    <3>3. PICK i \in 1..Len(t[k].sessions) : t[k].sessions[i] = s
      BY <3>1, <3>2
    <3>4. k \in DOMAIN t /\ i \in DOMAIN t[k].sessions
      BY <1>9, <1>10, <3>2, <3>3
    <3>5. s \in {t[k].sessions[j] : j \in DOMAIN t[k].sessions}
      BY <3>3, <3>4
    <3> QED BY <1>7, <3>4, <3>5 DEF ListedIn
  <2> QED BY <2>1, <2>2
<1>12. HiddenIn(u)
  <2>1. \A x \in u.bylines :
          <<"shown", x[1]>> \in u.ever /\ <<"linked", x[1], x[2]>> \in u.ever /\ <<"coming", x[2]>> \in u.ever
    BY BylinesSo DEF MadeOf
  <2>2. <<"program">> \in u.ever
    BY <1>1 DEF MadeOf
  <2>3. ASSUME NEW k \in DOMAIN u.slots, NEW i \in DOMAIN u.slots[k].sessions
        PROVE  \E to \in Spots : /\ <<"printed", u.slots[k].sessions[i], to>> \in u.ever
                                 /\ Printed!Times(to) = u.slots[k].range
    <3>1. k \in 1..Len(t) /\ i \in 1..Len(t[k].sessions)
      BY <1>7, <1>9, <1>10
    <3>2. PICK s \in S : s = t[k].sessions[i]
      BY <1>7, <1>9, <1>10
    <3>3. Printed!Times(v.at[s]) = t[k].range
      BY <1>8, <3>1, <3>2 DEF SlotsFit
    <3>4. v.at[s] \in Spots /\ s \in v.rows /\ v.at[s] # None
      BY <1>2, <1>3 DEF PrintedOf
    <3>5. <<"printed", s, v.at[s]>> \in u.ever
      BY <1>1, <3>4 DEF SessionsSo, MadeOf
    <3> QED BY <1>7, <3>2, <3>3, <3>4, <3>5
  <2> QED BY <2>1, <2>2, <2>3 DEF HiddenIn
<1>13. PublicIn(u)
  <2> SUFFICES ASSUME NEW s \in u.wish, NEW to \in Spots, <<"printed", s, to>> \in u.always
               PROVE  /\ s \in ListedIn(u)
                      /\ \A p \in Hosts : SpeaksIn(u, s, p) => <<s, p>> \in u.bylines
    BY DEF PublicIn, MadeOf
  <2>1. s \in Talks
    <3>1. <<"printed", s, to>> \in F
      BY <1>1 DEF MadeOf
    <3> QED BY <3>1 DEF FactsSo, PlacedOf
  <2>2. s \in v.rows /\ v.at[s] # None /\ s \in v.wish
    BY <1>1, <2>1 DEF SessionsSo, MadeOf
  <2>3. s \in S
    BY <1>2, <2>2 DEF PrintedOf
  <2>4. ASSUME NEW p \in Hosts, SpeaksIn(u, s, p) PROVE <<s, p>> \in u.bylines
    <3>1. SpeaksIn(v, s, p)
      BY <2>4 DEF SpeaksIn, MadeOf
    <3>2. <<s, p>> \in TalksOf(v, li)
      BY <2>1, <3>1, BylinesSo
    <3> QED BY <1>2, <2>3, <3>2
  <2> QED BY <1>11, <2>3, <2>4
<1>14. OrderIn(u)
  <2>1. ASSUME NEW k \in DOMAIN t, NEW l \in DOMAIN t, NEW i \in DOMAIN t[k].sessions, NEW j \in DOMAIN t[l].sessions,
               k < l \/ (k = l /\ i < j)
        PROVE  Sooner(v.at, t[k].sessions[i], t[l].sessions[j])
    <3>1. /\ k \in 1..Len(t) /\ l \in 1..Len(t)
          /\ i \in 1..Len(t[k].sessions) /\ j \in 1..Len(t[l].sessions)
      BY <1>9, <1>10
    <3> QED BY <1>8, <2>1, <3>1 DEF SlotsFit
  <2>2. ASSUME NEW k \in DOMAIN t, NEW l \in DOMAIN t, k < l, t[k].range = t[l].range
        PROVE  \E m \in (k + 1)..(l - 1) :
                 t[m].range.start = t[k].range.start /\ t[m].range.end # t[k].range.end
    <3>1. k \in 1..Len(t) /\ l \in 1..Len(t)
      BY <1>9
    <3>2. /\ k + 1 \in (k + 1)..(l - 1)
          /\ t[k + 1].range.start = t[k].range.start /\ t[k + 1].range.end # t[k].range.end
      BY <1>4, <1>8, <2>2, <3>1, RangesApart
    <3> QED BY <3>2
  <2> QED BY <1>7, <2>1, <2>2 DEF OrderIn, MadeOf
<1>15. SaidIn(u)
  <2> SUFFICES ASSUME v.after.pc = "done", v.after.calm
               PROVE  S = (IF v.after.flag THEN v.after.toPublish ELSE {}) \cap v.wish
    BY <1>11 DEF SaidIn, MadeOf
  <2>1. Announced(v.after, vi, pl) /\ v.after.flag = TRUE /\ v.rows = vi /\ v.at = pl
    BY DEF ViewSo, AfterSo, Making, HasSessions
  <2>2. v.after.toPublish = PlacedOf(v.at) \cap v.rows
    BY <2>1 DEF Announced
  <2>3. S = v.after.toPublish \cap v.wish
    BY <1>1, <1>2, <2>2 DEF PrintedOf, PlacedOf, SessionsSo
  <2> QED BY <2>1, <2>3
<1> QED BY <1>12, <1>13, <1>14, <1>15 DEF ToldIn

LEMMA PageMade ==
  ASSUME NEW v, NEW F, NEW vi, NEW pl, NEW pu, NEW li \in SUBSET (Talks \X Hosts), NEW de,
         FactsSo(F, vi, pl, li, de, pu), ViewSo(v, F, vi, pl, pu), v.pc = "links"
  PROVE  ViewSo(Printed!Ended(IF Printed!OfSpeakers(v.kind) THEN Printed!BuildGallery(v, TalksOf(v, li))
                              ELSE Printed!BuildSchedule(v, TalksOf(v, li))), F, vi, pl, pu)
<1>1. PICK w : w = IF Printed!OfSpeakers(v.kind) THEN Printed!BuildGallery(v, TalksOf(v, li))
                   ELSE Printed!BuildSchedule(v, TalksOf(v, li))
  OBVIOUS
<1>2. PICK u : u = Printed!Ended(w)
  OBVIOUS
<1>3. Shape(v) /\ Bare(v)
  BY DEF ViewSo
<1>4. PICK talks : talks = TalksOf(v, li)
  OBVIOUS
<1>5. CASE Printed!OfSpeakers(v.kind)
  <2>1. PICK cards : cards = {p \in Hosts : \E s \in v.wish : <<s, p>> \in talks}
    OBVIOUS
  <2>2. PICK bylines : bylines = {x \in talks : x[2] \in cards}
    OBVIOUS
  <2>3. w = [v EXCEPT !.cards = cards, !.bylines = bylines]
    BY <1>1, <1>4, <1>5, <2>1, <2>2 DEF Printed!BuildGallery
  <2>4. Shape(w) /\ MadeOf(w, v) /\ w.slots = v.slots /\ w.cards = cards /\ w.bylines = bylines
    BY <1>3, <2>3 DEF Shape, MadeOf
  <2>5. Shape(u) /\ u.pc = "done" /\ MadeOf(u, v) /\ u.slots = <<>> /\ u.cards = cards /\ u.bylines = bylines
    <3>1. u = [w EXCEPT !.pc = "done", !.rows = {}, !.out = {}]
      BY <1>2 DEF Printed!Ended
    <3>2. Shape(u) /\ u.pc = "done" /\ MadeOf(u, w) /\ u.slots = w.slots /\ u.cards = w.cards /\ u.bylines = w.bylines
      BY <2>4, <3>1 DEF Shape, MadeOf
    <3> QED BY <1>3, <2>4, <3>2 DEF Bare, MadeOf
  <2>6. u.cards = CardsOf(v, li)
    BY <1>4, <2>1, <2>5 DEF CardsOf
  <2>7. u.bylines = {x \in TalksOf(v, li) : x[2] \in CardsOf(v, li)}
    BY <1>4, <2>2, <2>5, <2>6
  <2>8. ToldIn(u)
    BY <1>5, <2>5, <2>6, <2>7, GalleryTells
  <2> QED BY <1>1, <1>2, <2>5, <2>8 DEF ViewSo, Making, HasSessions, HasMembers, AfterSo
<1>6. CASE ~Printed!OfSpeakers(v.kind)
  <2>1. PICK slots, bylines : /\ slots = Printed!Slots(v, Printed!InOrder(v, PrintedOf(v)))
                              /\ bylines = {x \in talks : x[1] \in PrintedOf(v)}
    OBVIOUS
  <2>2. w = [v EXCEPT !.slots = slots, !.bylines = bylines]
    <3>1. w = Printed!BuildSchedule(v, talks)
      BY <1>1, <1>4, <1>6
    <3> QED BY <2>1, <3>1 DEF Printed!BuildSchedule, PrintedOf
  <2>3. Shape(w) /\ MadeOf(w, v) /\ w.slots = slots /\ w.cards = v.cards /\ w.bylines = bylines
    BY <1>3, <2>2 DEF Shape, MadeOf
  <2>4. Shape(u) /\ u.pc = "done" /\ MadeOf(u, v) /\ u.slots = slots /\ u.cards = {} /\ u.bylines = bylines
    <3>1. u = [w EXCEPT !.pc = "done", !.rows = {}, !.out = {}]
      BY <1>2 DEF Printed!Ended
    <3>2. Shape(u) /\ u.pc = "done" /\ MadeOf(u, w) /\ u.slots = w.slots /\ u.cards = w.cards /\ u.bylines = w.bylines
      BY <2>3, <3>1 DEF Shape, MadeOf
    <3> QED BY <1>3, <2>3, <3>2 DEF Bare, MadeOf
  <2>5. u.bylines = {x \in TalksOf(v, li) : x[1] \in PrintedOf(v)}
    BY <1>4, <2>1, <2>4
  <2>6. ToldIn(u)
    BY <1>6, <2>1, <2>4, <2>5, ScheduleTells
  <2> QED BY <1>1, <1>2, <2>4, <2>6 DEF ViewSo, Making, HasSessions, HasMembers, AfterSo
<1> QED BY <1>5, <1>6

----------------------------------------------------------------------------
(* What holds of the program, and of the page that is made of it.           *)
ProgramInv ==
  /\ place \in [Talks -> Spots \cup {None}] /\ linked \in SUBSET (Talks \X Hosts) /\ published \in BOOLEAN
  /\ PlanSo(plan, Kept(stands, approved), place, published)
  /\ ViewSo(view, FactsOf(Kept(stands, approved), place, linked, declined, published),
            Kept(stands, approved), place, published)

LEMMA NowIs ==
  /\ Printed!Visible = Kept(stands, approved)
  /\ Printed!Placed = PlacedOf(place)
  /\ Printed!Facts = FactsOf(Kept(stands, approved), place, linked, declined, published)
  /\ Printed!Facts' = FactsOf(Kept(stands', approved'), place', linked', declined', published')
BY DEF Printed!Visible, Printed!Placed, Printed!Facts, Kept, PlacedOf, FactsOf

LEMMA ProgramGoes ==
  ASSUME place' \in [Talks -> Spots \cup {None}], linked' \in SUBSET (Talks \X Hosts), published' \in BOOLEAN,
         PlanSo(plan', Kept(stands', approved'), place', published'),
         ViewSo(view', FactsOf(Kept(stands', approved'), place', linked', declined', published'),
                Kept(stands', approved'), place', published')
  PROVE  ProgramInv'
BY DEF ProgramInv

LEMMA NoPlanSo == ASSUME NEW vi, NEW pl, NEW pu PROVE PlanSo(Printed!NoPlan, vi, pl, pu)
BY DEF PlanSo, Printed!NoPlan, Plan

(* Organizers edit the program. *)
LEMMA ProgramEdited ==
  ASSUME ProgramInv, Printed!Edit, place' \in [Talks -> Spots \cup {None}], linked' \in SUBSET (Talks \X Hosts)
  PROVE  ProgramInv'
<1>1. /\ published' = published /\ view' = Printed!Noted(view)
      /\ plan' = IF plan.pc = "none" THEN plan ELSE [plan EXCEPT !.calm = FALSE]
  BY DEF Printed!Edit
<1>2. PlanSo(plan', Kept(stands', approved'), place', published')
  <2>1. plan \in Plan
    BY DEF ProgramInv, PlanSo
  <2>2. CASE plan.pc = "none"
    BY <1>1, <2>1, <2>2 DEF PlanSo
  <2>3. CASE plan.pc # "none"
    <3>1. plan' \in Plan /\ plan'.calm = FALSE
      BY <1>1, <2>1, <2>3 DEF Plan
    <3> QED BY <3>1 DEF PlanSo
  <2> QED BY <2>2, <2>3
<1>3. PICK v, F : v = view /\ F = FactsOf(Kept(stands, approved), place, linked, declined, published)
  OBVIOUS
<1>4. PICK G : G = Printed!Facts'
  OBVIOUS
<1>5. view' = IF v.pc \in {"none", "done"} THEN [v EXCEPT !.after = Printed!NoPlan]
              ELSE [v EXCEPT !.ever = @ \cup G, !.always = @ \cap G, !.after = Printed!NoPlan]
  BY <1>1, <1>3, <1>4 DEF Printed!Noted
<1>6. ViewSo(v, F, Kept(stands, approved), place, published)
  BY <1>3 DEF ProgramInv
<1>7. PICK vi, pl, pu : vi = Kept(stands', approved') /\ pl = place' /\ pu = published'
  OBVIOUS
<1>8. ViewSo(view', G, vi, pl, pu)
  BY <1>5, <1>6, PageNotes
<1>9. published' \in BOOLEAN
  BY <1>1 DEF ProgramInv
<1> QED BY <1>2, <1>4, <1>7, <1>8, <1>9, NowIs, ProgramGoes

Agenda == <<stands, approved, place, linked, declined, published>>

LEMMA AgendaStays ==
  ASSUME ProgramInv, UNCHANGED Agenda, PlanSo(plan', Kept(stands, approved), place, published),
         ViewSo(view', FactsOf(Kept(stands, approved), place, linked, declined, published),
                Kept(stands, approved), place, published)
  PROVE  ProgramInv'
<1>1. /\ stands' = stands /\ approved' = approved /\ place' = place /\ linked' = linked
      /\ declined' = declined /\ published' = published
  BY DEF Agenda
<1>2. /\ place' \in [Talks -> Spots \cup {None}] /\ linked' \in SUBSET (Talks \X Hosts) /\ published' \in BOOLEAN
  BY <1>1 DEF ProgramInv
<1>3. /\ Kept(stands', approved') = Kept(stands, approved)
      /\ FactsOf(Kept(stands', approved'), place', linked', declined', published')
         = FactsOf(Kept(stands, approved), place, linked, declined, published)
  BY <1>1
<1>4. PlanSo(plan', Kept(stands', approved'), place', published')
  BY <1>1, <1>3
<1>5. ViewSo(view', FactsOf(Kept(stands', approved'), place', linked', declined', published'),
             Kept(stands', approved'), place', published')
  BY <1>1, <1>3
<1> QED BY <1>2, <1>4, <1>5, ProgramGoes

LEMMA ProgramPlanned ==
  ASSUME ProgramInv, NEW flag \in BOOLEAN, Printed!ReadPlan(flag)
  PROVE  ProgramInv'
<1>1. /\ plan' = Printed!PlanProgramPublish(flag) /\ UNCHANGED Agenda /\ view' = view
  BY DEF Printed!ReadPlan, Printed!agenda, Agenda
<1>2. /\ Printed!Visible = Kept(stands, approved) /\ Printed!Placed = PlacedOf(place)
  BY NowIs
<1>3. Kept(stands, approved) \subseteq Talks /\ PlacedOf(place) \subseteq Talks
  BY DEF Kept, PlacedOf
<1>4. PICK vi \in SUBSET Talks, pd \in SUBSET Talks : vi = Kept(stands, approved) /\ pd = PlacedOf(place)
  BY <1>3
<1>5. plan' = [pc |-> "write", flag |-> flag, toPublish |-> pd \cap vi, heldBack |-> pd \ vi,
               unscheduled |-> vi \ pd, calm |-> TRUE]
  BY <1>1, <1>2, <1>4 DEF Printed!PlanProgramPublish, Printed!NoPlan
<1>6. plan' \in Plan /\ plan'.pc = "write" /\ plan'.toPublish = pd \cap vi /\ plan'.unscheduled = vi \ pd
  BY <1>5 DEF Plan
<1>7. PlanSo(plan', Kept(stands, approved), place, published)
  BY <1>4, <1>6 DEF PlanSo, Announced
<1> QED BY <1>1, <1>7, AgendaStays DEF ProgramInv

LEMMA PublishFailed == ASSUME ProgramInv, Printed!FailPublish PROVE ProgramInv'
<1>1. plan' = Printed!NoPlan /\ UNCHANGED Agenda /\ view' = view
  BY DEF Printed!FailPublish, Printed!agenda, Agenda
<1>2. PlanSo(plan', Kept(stands, approved), place, published)
  BY <1>1, NoPlanSo
<1> QED BY <1>1, <1>2, AgendaStays DEF ProgramInv

LEMMA ProgramPublished == ASSUME ProgramInv, Printed!Publish PROVE ProgramInv'
<1>1. /\ plan.pc = "write" /\ published' = plan.flag /\ plan' = [plan EXCEPT !.pc = "done"]
      /\ view' = Printed!Noted(view)
      /\ stands' = stands /\ approved' = approved /\ place' = place /\ linked' = linked /\ declined' = declined
  BY DEF Printed!Publish, Printed!agenda
<1>2. plan \in Plan /\ PlanSo(plan, Kept(stands, approved), place, published)
  BY DEF ProgramInv, PlanSo
<1>3. /\ plan' \in Plan /\ plan'.pc = "done" /\ plan'.calm = plan.calm /\ plan'.flag = plan.flag
      /\ plan'.toPublish = plan.toPublish /\ plan'.unscheduled = plan.unscheduled /\ plan.flag \in BOOLEAN
  BY <1>1, <1>2 DEF Plan
<1>4. PlanSo(plan', Kept(stands', approved'), place', published')
  BY <1>1, <1>2, <1>3 DEF PlanSo, Announced
<1>5. PICK v, F : v = view /\ F = FactsOf(Kept(stands, approved), place, linked, declined, published)
  OBVIOUS
<1>6. PICK G : G = Printed!Facts'
  OBVIOUS
<1>7. view' = IF v.pc \in {"none", "done"} THEN [v EXCEPT !.after = Printed!NoPlan]
              ELSE [v EXCEPT !.ever = @ \cup G, !.always = @ \cap G, !.after = Printed!NoPlan]
  BY <1>1, <1>5, <1>6 DEF Printed!Noted
<1>8. ViewSo(v, F, Kept(stands, approved), place, published)
  BY <1>5 DEF ProgramInv
<1>9. PICK vi, pl, pu : vi = Kept(stands', approved') /\ pl = place' /\ pu = published'
  OBVIOUS
<1>10. ViewSo(view', G, vi, pl, pu)
  BY <1>7, <1>8, PageNotes
<1>11. place' \in [Talks -> Spots \cup {None}] /\ linked' \in SUBSET (Talks \X Hosts) /\ published' \in BOOLEAN
  BY <1>1, <1>3 DEF ProgramInv
<1> QED BY <1>4, <1>6, <1>9, <1>10, <1>11, NowIs, ProgramGoes

(* What a page reads at a moment. *)
LEMMA PageMoves ==
  ASSUME ProgramInv, Printed!Quiet,
         NEW F, F = FactsOf(Kept(stands, approved), place, linked, declined, published),
         ViewSo(view', F, Kept(stands, approved), place, published)
  PROVE  ProgramInv'
<1>1. UNCHANGED Agenda /\ plan' = plan
  BY DEF Printed!Quiet, Printed!agenda, Agenda
<1>2. PlanSo(plan', Kept(stands, approved), place, published)
  BY <1>1 DEF ProgramInv
<1> QED BY <1>1, <1>2, AgendaStays

LEMMA PageStepped ==
  ASSUME ProgramInv,
         \/ \E kind \in Printed!Kinds, wish \in Wanted : Printed!Begin(kind, wish)
         \/ Printed!Look \/ Printed!Gate \/ Printed!ReadSessions \/ Printed!ReadMembers \/ Printed!ReadLinks
  PROVE  ProgramInv'
<1>1. PICK v, vi, pl, li, de, pu, F, p :
        /\ v = view /\ vi = Kept(stands, approved) /\ pl = place /\ li = linked /\ de = declined
        /\ pu = published /\ F = FactsOf(vi, pl, li, de, pu) /\ p = plan
  OBVIOUS
<1>2. /\ ViewSo(v, F, vi, pl, pu) /\ pu \in BOOLEAN /\ li \in SUBSET (Talks \X Hosts)
      /\ pl \in [Talks -> Spots \cup {None}] /\ PlanSo(p, vi, pl, pu) /\ vi \in SUBSET Talks
  <2>1. Kept(stands, approved) \subseteq Talks
    BY DEF Kept
  <2> QED BY <1>1, <2>1 DEF ProgramInv
<1>3. FactsSo(F, vi, pl, li, de, pu)
  BY <1>1, <1>2, FactsTell
<1>4. Printed!Facts = F /\ Printed!Visible = vi
  BY <1>1, NowIs
<1>5. ASSUME Printed!Quiet, ViewSo(view', F, vi, pl, pu) PROVE ProgramInv'
  <2>1. F = FactsOf(Kept(stands, approved), place, linked, declined, published)
    BY <1>1
  <2>2. ViewSo(view', F, Kept(stands, approved), place, published)
    BY <1>1, <1>5
  <2> QED BY <1>5, <2>1, <2>2, PageMoves
<1>6. ASSUME NEW kind \in Printed!Kinds, NEW wish \in Wanted, Printed!Begin(kind, wish) PROVE ProgramInv'
  <2>1. view' = [Printed!NoPage EXCEPT !.kind = kind, !.wish = wish, !.ever = F, !.always = F,
                   !.pc = IF Printed!LooksFirst(kind) THEN "look" ELSE "gate",
                   !.after = IF p.pc = "done" THEN p ELSE Printed!NoPlan]
    BY <1>1, <1>4, <1>6 DEF Printed!Begin
  <2>2. ViewSo(view', F, vi, pl, pu)
    BY <1>2, <2>1, PageBegins
  <2> QED BY <1>5, <1>6, <2>2 DEF Printed!Begin
<1>7. ASSUME Printed!Look PROVE ProgramInv'
  <2>1. /\ v.pc = "look" /\ Printed!Quiet
        /\ view' = IF v.kind = "calendar" /\ ~pu THEN Printed!Ended(v) ELSE [v EXCEPT !.look = pu, !.pc = "gate"]
    BY <1>1, <1>7 DEF Printed!Look
  <2>2. CASE v.kind = "calendar" /\ ~pu
    <3>1. view' = Printed!Ended(v) /\ pu = FALSE /\ Making(v)
      BY <1>2, <2>1, <2>2 DEF Making
    <3>2. ViewSo(view', F, vi, pl, pu)
      BY <1>2, <1>3, <3>1, PageEnds
    <3> QED BY <1>5, <2>1, <3>2
  <2>3. CASE ~(v.kind = "calendar" /\ ~pu)
    <3>1. view' = [v EXCEPT !.look = pu, !.pc = "gate"]
      BY <2>1, <2>3
    <3>2. ViewSo([v EXCEPT !.look = pu, !.pc = "gate"], F, vi, pl, pu)
      BY <1>2, <2>1, PageLooks
    <3>3. ViewSo(view', F, vi, pl, pu)
      BY <3>1, <3>2
    <3> QED BY <1>5, <2>1, <3>3
  <2> QED BY <2>2, <2>3
<1>8. ASSUME Printed!Gate PROVE ProgramInv'
  <2>1. /\ v.pc = "gate" /\ Printed!Quiet
        /\ view' = IF pu THEN [v EXCEPT !.pc = "read", !.unread = {"sessions", "members"}] ELSE Printed!Ended(v)
    BY <1>1, <1>8 DEF Printed!Gate
  <2>2. CASE pu = FALSE
    <3>1. view' = Printed!Ended(v) /\ Making(v)
      BY <2>1, <2>2 DEF Making
    <3>2. ViewSo(view', F, vi, pl, pu)
      BY <1>2, <1>3, <2>2, <3>1, PageEnds
    <3> QED BY <1>5, <2>1, <3>2
  <2>3. CASE pu = TRUE
    <3>1. view' = [v EXCEPT !.pc = "read", !.unread = {"sessions", "members"}]
      BY <2>1, <2>3
    <3>2. ViewSo(v, F, vi, pl, TRUE) /\ FactsSo(F, vi, pl, li, de, TRUE)
      BY <1>2, <1>3, <2>3
    <3>3. ViewSo([v EXCEPT !.pc = "read", !.unread = {"sessions", "members"}], F, vi, pl, TRUE)
      BY <2>1, <3>2, PageEnters
    <3>4. ViewSo(view', F, vi, pl, pu)
      BY <2>3, <3>1, <3>3
    <3> QED BY <1>5, <2>1, <3>4
  <2> QED BY <1>2, <2>2, <2>3
<1>9. ASSUME Printed!ReadSessions PROVE ProgramInv'
  <2>1. /\ v.pc = "read" /\ "sessions" \in v.unread /\ Printed!Quiet
        /\ view' = [[v EXCEPT !.rows = vi, !.at = pl] EXCEPT
                      !.unread = @ \ {"sessions"},
                      !.pc = IF v.unread = {"sessions"} THEN "links" ELSE "read"]
    BY <1>1, <1>4, <1>9 DEF Printed!ReadSessions, Printed!Read
  <2>2. ViewSo(view', F, vi, pl, pu)
    BY <1>2, <1>3, <2>1, SessionsRead
  <2> QED BY <1>5, <2>1, <2>2
<1>10. ASSUME Printed!ReadMembers PROVE ProgramInv'
  <2>1. /\ v.pc = "read" /\ "members" \in v.unread /\ Printed!Quiet
        /\ view' = [[v EXCEPT !.out = de] EXCEPT
                      !.unread = @ \ {"members"},
                      !.pc = IF v.unread = {"members"} THEN "links" ELSE "read"]
    BY <1>1, <1>10 DEF Printed!ReadMembers, Printed!Read
  <2>2. ViewSo(view', F, vi, pl, pu)
    BY <1>2, <1>3, <2>1, MembersRead
  <2> QED BY <1>5, <2>1, <2>2
<1>11. ASSUME Printed!ReadLinks PROVE ProgramInv'
  <2>1. /\ v.pc = "links" /\ Printed!Quiet
        /\ view' = Printed!Ended(IF Printed!OfSpeakers(v.kind) THEN Printed!BuildGallery(v, TalksOf(v, li))
                                 ELSE Printed!BuildSchedule(v, TalksOf(v, li)))
    BY <1>1, <1>11 DEF Printed!ReadLinks, TalksOf
  <2>2. ViewSo(view', F, vi, pl, pu)
    BY <1>2, <1>3, <2>1, PageMade
  <2> QED BY <1>5, <2>1, <2>2
<1> QED BY <1>6, <1>7, <1>8, <1>9, <1>10, <1>11

LEMMA AgendaEdited ==
  ASSUME ProgramInv,
         \/ \E s \in Talks :
              \/ \E to \in {"confirmed", "cancelled"} : Printed!SetStatus(s, to)
              \/ Printed!SetContentStatus(s)
              \/ \E to \in Spots \cup {None} : Printed!Schedule(s, to)
              \/ \E p \in Hosts : Printed!SetSpeaker(s, p)
         \/ \E p \in Hosts : Printed!SetConfirmation(p)
  PROVE  ProgramInv'
<1>1. place \in [Talks -> Spots \cup {None}] /\ linked \in SUBSET (Talks \X Hosts)
  BY DEF ProgramInv
<1>2. ASSUME NEW s \in Talks, NEW to \in {"confirmed", "cancelled"}, Printed!SetStatus(s, to) PROVE ProgramInv'
  BY <1>1, <1>2, ProgramEdited DEF Printed!SetStatus
<1>3. ASSUME NEW s \in Talks, Printed!SetContentStatus(s) PROVE ProgramInv'
  BY <1>1, <1>3, ProgramEdited DEF Printed!SetContentStatus
<1>4. ASSUME NEW s \in Talks, NEW to \in Spots \cup {None}, Printed!Schedule(s, to) PROVE ProgramInv'
  <2>1. place' = [place EXCEPT ![s] = to] /\ linked' = linked /\ Printed!Edit
    BY <1>4 DEF Printed!Schedule
  <2>2. place' \in [Talks -> Spots \cup {None}]
    BY <1>1, <2>1
  <2> QED BY <1>1, <2>1, <2>2, ProgramEdited
<1>5. ASSUME NEW s \in Talks, NEW p \in Hosts, Printed!SetSpeaker(s, p) PROVE ProgramInv'
  <2>1. /\ linked' = IF <<s, p>> \in linked THEN linked \ {<<s, p>>} ELSE linked \cup {<<s, p>>}
        /\ place' = place /\ Printed!Edit
    BY <1>5 DEF Printed!SetSpeaker
  <2>2. linked' \in SUBSET (Talks \X Hosts)
    BY <1>1, <2>1
  <2> QED BY <1>1, <2>1, <2>2, ProgramEdited
<1>6. ASSUME NEW p \in Hosts, Printed!SetConfirmation(p) PROVE ProgramInv'
  BY <1>1, <1>6, ProgramEdited DEF Printed!SetConfirmation
<1> QED BY <1>2, <1>3, <1>4, <1>5, <1>6

LEMMA ProgramNext ==
  ASSUME ProgramInv, [Printed!Next]_Printed!programVars
  PROVE  ProgramInv'
<1>1. CASE UNCHANGED Printed!programVars
  <2>1. UNCHANGED Agenda /\ plan' = plan /\ view' = view
    BY <1>1 DEF Printed!programVars, Agenda
  <2> QED BY <2>1, AgendaStays DEF ProgramInv
<1>2. CASE Printed!Next
  BY <1>2, AgendaEdited, ProgramPlanned, ProgramPublished, PublishFailed, PageStepped DEF Printed!Next
<1> QED BY <1>1, <1>2

LEMMA ViewBegins == ASSUME NEW F, NEW vi, NEW pl, NEW pu PROVE ViewSo(Printed!NoPage, F, vi, pl, pu)
<1>1. PICK v : v = Printed!NoPage
  OBVIOUS
<1>2. Shape(v) /\ v.pc = "none" /\ Bare(v)
  BY <1>1 DEF Printed!NoPage, Shape, Bare
<1> QED BY <1>1, <1>2 DEF ViewSo, Making, HasSessions, HasMembers, AfterSo

LEMMA ProgramBegins ==
  ASSUME place \in [Talks -> Spots \cup {None}], linked \in SUBSET (Talks \X Hosts), published \in BOOLEAN,
         plan = Printed!NoPlan, view = Printed!NoPage
  PROVE  ProgramInv
BY NoPlanSo, ViewBegins DEF ProgramInv

LEMMA ProgramProps == ProgramInv => Printed!PagesTellTheProgram /\ Printed!PlanIsKept
<1> SUFFICES ASSUME ProgramInv, view.pc = "done" PROVE Printed!PagesTellTheProgram /\ Printed!PlanIsKept
  BY DEF Printed!PagesTellTheProgram, Printed!PlanIsKept, Printed!Done
<1>1. ToldIn(view)
  BY DEF ProgramInv, ViewSo
<1>2. Printed!Listed = ListedIn(view)
  BY DEF Printed!Listed, Printed!SessionsAt, ListedIn
<1>3. Printed!NothingHiddenShows
  BY <1>1, <1>2 DEF ToldIn, HiddenIn, Printed!NothingHiddenShows, Printed!Ever, Printed!SessionsAt
<1>4. Printed!EverythingPublicShows
  BY <1>1, <1>2 DEF ToldIn, PublicIn, SpeaksIn, Printed!EverythingPublicShows, Printed!Always, Printed!Speaks
<1>5. Printed!SlotsAreInOrder
  <2>1. \A r, s : Printed!Before(Printed!Key(view, r), Printed!Key(view, s)) <=> Sooner(view.at, r, s)
    BY SoonerIs
  <2> QED BY <1>1, <2>1 DEF ToldIn, OrderIn, Printed!SlotsAreInOrder, Printed!SessionsAt
<1>6. Printed!PlanIsKept
  BY <1>1, <1>2 DEF ToldIn, SaidIn, Printed!PlanIsKept
<1> QED BY <1>3, <1>4, <1>5, <1>6 DEF Printed!PagesTellTheProgram

(* However organizers edit, approve and place sessions and take the program *)
(* on and off the web while its pages are made of several reads: a page     *)
(* shows nothing that was not public while it was made, and all that was    *)
(* all the while, in agenda order; and what publishing announced is what    *)
(* pages show until somebody edits (getSessionsWithSpeakers, buildSchedule, *)
(* buildGallery, planProgramPublish).                                       *)
THEOREM PagesAlwaysTell == Printed!Spec => [](Printed!PagesTellTheProgram /\ Printed!PlanIsKept)
<1>1. Printed!Init => ProgramInv
  BY ProgramBegins DEF Printed!Init
<1>2. ProgramInv /\ [Printed!Next]_Printed!programVars => ProgramInv'
  BY ProgramNext
<1> QED BY <1>1, <1>2, ProgramProps, PTL DEF Printed!Spec

(* The same of the program among the parts that are checked together, for   *)
(* any sessions, speakers and places and any number of edits.               *)
THEOREM ProgramAlwaysHolds == Screens => []ProgramHolds
<1> DEFINE Stays == part = "program" => ProgramInv
<1>1. Begins => Stays
  BY ProgramBegins DEF Begins, Settled, Moving, Printed!Init
<1>2. Stays /\ [Steps]_<<part, screenVars, tasks, people, program>> => Stays'
  <2>1. ASSUME ProgramInv, UNCHANGED program PROVE ProgramInv'
    <3>1. [Printed!Next]_Printed!programVars
      BY <2>1 DEF program, Printed!programVars
    <3> QED BY <2>1, <3>1, ProgramNext
  <2>2. ASSUME ProgramInv, Printing PROVE ProgramInv'
    BY <2>2, ProgramNext DEF Printing
  <2> QED BY <2>1, <2>2 DEF Steps
<1>3. Stays => ProgramHolds
  BY ProgramProps DEF ProgramHolds
<1> QED BY <1>1, <1>2, <1>3, PTL DEF Screens
=============================================================================
