----------------------------- MODULE DeskProofs -----------------------------
(***************************************************************************)
(* Theorems about module Intake, for any requests, rows, addresses and     *)
(* forms, and any number of requests at once: the cap, the duplicate       *)
(* guard, the status of what was sent, and who looks at a proposal.  Then  *)
(* about module Pipeline, for any stages and requests: what the history of *)
(* a card tells.  Then about module FormRules, for any questions, choices  *)
(* and schemas: what a saved form keeps promising.                         *)
(***************************************************************************)
EXTENDS MCDesk, FiniteSetTheorems, WellFoundedInduction, Sequences, TLAPS

(* The statements of a save from the moment its row is written; those after *)
(* which it certainly has a speaker; those after which it has its tracks.   *)
Saving == {"tracks", "route", "cofind", "coaccount", "links", "drop", "co", "arrive"}
Linking == {"tracks", "route", "cofind", "coaccount", "links", "drop"}
Routing == {"tracks", "route"}
OnForm == {"idle", "form", "count", "write"}
OfForm == {"retype", "delete"}

(* The rows an address is primary speaker of, in a state that is given      *)
Primaries(e, rw, l) == {p \in Rows : rw[p].status # "none" /\ l[p][e] = "primary"}

(* What a request knows of its own way, and that its row is there...        *)
Placed(q, rw) ==
  /\ q.kind \in {"finish", "redraft", "portal"} => q.id \in Rows
  /\ q.pc \notin {"idle"} \cup Saving /\ q.kind \in {"submit", "draft", "behalf"} => q.id = None
  /\ q.pc \in {"count", "write"} => q.kind \in OfForm
  /\ q.pc \notin OnForm => q.kind \notin OfForm
  /\ q.pc # "idle" /\ q.kind \notin OfForm => q.email \in Emails
  /\ q.pc \in {"existing", "update"} \cup Saving => q.id \in Rows
  /\ q.pc \notin OnForm \cup {"token"} /\ q.id # None => rw[q.id].status # "none"
  /\ q.pc \in {"cofind", "coaccount", "co"} => q.co # None
  /\ q.pc \in {"guard", "create"} => q.kind \in {"submit", "draft", "behalf"}

(* ... that the form's type is the one it read, unless it was raced...      *)
Typed(q, f, rc) == ~rc /\ q.pc \notin OnForm => q.type = f.type

(* ... that it sets a status on a draft, unless that was changed since...   *)
SetsDraft(q, rw) ==
  q.pc = "update" /\ q.sets # "none" =>
    /\ q.fresh => rw[q.id].status = "draft"
    /\ q.sets = "submitted" => q.kind = "finish" \/ q.finishes

(* ... and what it knows if it has always been alone: that it repeats       *)
(* nothing, that the form it changes is empty, that its speaker is below    *)
(* the cap.                                                                 *)
Unrepeated(q, rw, l) ==
  q.pc = "create" /\ q.kind = "submit" /\ q.signed = q.email =>
    \A p \in Primaries(q.email, rw, l) :
      rw[p].status \notin {"none", "draft"} => rw[p].content # q.content
Empty(q, rw) == q.pc = "write" => \A p \in Rows : rw[p].status = "none"
Capped == {"find", "account", "guard", "create", "existing", "update"} \cup Linking
BelowCap(q, f, rw, l) ==
  q.kind \in Public /\ f.limit # 0 /\ q.pc \in Capped =>
    Cardinality(Primaries(q.email, rw, l) \ {q.id}) < f.limit

Knows(q, f, rw, l, rc) ==
  /\ Placed(q, rw) /\ Typed(q, f, rc) /\ SetsDraft(q, rw)
  /\ q.alone => Unrepeated(q, rw, l) /\ Empty(q, rw) /\ BelowCap(q, f, rw, l)

Alone ==
  \A r, o \in Requests :
    req[r].pc # "idle" /\ req[o].pc # "idle" /\ req[r].alone => r = o

(* Where a row is without tracks or a speaker, or waits on a form that has  *)
(* no review, a save of it is at a statement that sees to it.               *)
On(p, labels) == {r \in Requests : req[r].id = p /\ req[r].pc \in labels}
Tracked == \A p \in Saved \ hurt : p \in tracked \/ p \in bare \/ On(p, Routing) # {}
Named == \A p \in Saved \ hurt : (\E e \in Emails : link[p][e] # "none") \/ On(p, Linking) # {}
OwnLinks == \A p \in Rows, e \in Emails : link[p][e] # "none" => Exists(p)
RowTypes == ~raced => \A p \in Saved : row[p].type = form.type
Awaited ==
  ~raced /\ form.type = "session" =>
    \A p \in Saved \ hurt : row[p].status = "submitted" =>
      \E r \in On(p, Saving) : Arrives(req[r])

World == Tracked /\ Named /\ OwnLinks /\ RowTypes /\ Awaited /\ LimitHolds
IInv ==
  /\ TypeOK /\ Alone /\ World
  /\ \A r \in Requests : Knows(req[r], form, row, link, raced)
----------------------------------------------------------------------------
(* What a step does to the requests, and to whom *)

LEMMA SetRequest ==
  ASSUME TypeOK, NEW r \in Requests, NEW q \in Request, Set(r, q)
  PROVE  /\ req' \in [Requests -> Request]
         /\ req'[r] = q
         /\ \A o \in Requests \ {r} : req'[o] = req[o]
  BY DEF Set, TypeOK

LEMMA UnaskedRequest == Unasked \in Request
  BY DEF Unasked, Request, Kinds, Public, Types

LEMMA KnowsIdle ==
  ASSUME NEW q, q.pc = "idle", q.kind = "submit", NEW f, NEW rw, NEW l, NEW rc
  PROVE  Knows(q, f, rw, l, rc)
<1>1. Placed(q, rw)
  BY DEF Placed, OnForm, OfForm, Saving
<1>2. Typed(q, f, rc) /\ SetsDraft(q, rw)
  BY DEF Typed, SetsDraft, OnForm
<1>3. Unrepeated(q, rw, l) /\ Empty(q, rw) /\ BelowCap(q, f, rw, l)
  BY DEF Unrepeated, Empty, BelowCap, Capped, Linking
<1> QED BY <1>1, <1>2, <1>3 DEF Knows

(* Other requests notice at most that their reading of a status is old. *)
Noticed(o) == req'[o] = req[o] \/ req'[o] = [req[o] EXCEPT !.fresh = FALSE]
Others(r) == \A o \in Requests \ {r} : Noticed(o)

LEMMA NoticedFields ==
  ASSUME TypeOK, NEW o \in Requests, Noticed(o)
  PROVE  /\ req'[o] \in Request
         /\ req'[o].pc = req[o].pc /\ req'[o].kind = req[o].kind /\ req'[o].id = req[o].id
         /\ req'[o].email = req[o].email /\ req'[o].co = req[o].co
         /\ req'[o].content = req[o].content /\ req'[o].signed = req[o].signed
         /\ req'[o].type = req[o].type /\ req'[o].finishes = req[o].finishes
         /\ req'[o].sets = req[o].sets /\ req'[o].doomed = req[o].doomed
         /\ req'[o].alone = req[o].alone
         /\ req'[o].fresh => req[o].fresh
<1>1. req[o] \in Request
  BY DEF TypeOK
<1> QED BY <1>1, ZenonT(60) DEF Noticed, Request

(* The request beside which another one is under way knows nothing that     *)
(* hangs on being alone: what it knows lasts.                               *)
LEMMA OthersKeep ==
  ASSUME IInv, NEW r \in Requests, req[r].pc # "idle", Others(r), raced => raced',
         form'.type = form.type \/ raced' \/ \A o \in Requests \ {r} : req[o].pc = "idle",
         \A p \in Rows : Exists(p) => row'[p].status # "none",
         \A o \in Requests \ {r} : req'[o].pc = "update" /\ req'[o].fresh =>
           row'[req[o].id].status = row[req[o].id].status,
         NEW o \in Requests \ {r}
  PROVE  Knows(req'[o], form', row', link', raced')
<1>1. /\ req'[o] \in Request
      /\ req'[o].pc = req[o].pc /\ req'[o].kind = req[o].kind /\ req'[o].id = req[o].id
      /\ req'[o].email = req[o].email /\ req'[o].co = req[o].co
      /\ req'[o].type = req[o].type /\ req'[o].finishes = req[o].finishes
      /\ req'[o].sets = req[o].sets /\ req'[o].alone = req[o].alone
      /\ req'[o].fresh => req[o].fresh
  BY NoticedFields DEF Others, IInv
<1>2. Knows(req[o], form, row, link, raced) /\ req[o] \in Request
  BY DEF IInv, TypeOK
<1>3. Placed(req'[o], row')
  <2>1. req[o].id \in Rows \cup {None}
    BY <1>2 DEF Request
  <2>2. req[o].id # None /\ row[req[o].id].status # "none" => row'[req[o].id].status # "none"
    BY <2>1 DEF Exists
  <2> QED BY <1>1, <1>2, <2>2 DEF Knows, Placed
<1>4. Typed(req'[o], form', raced')
  BY <1>1, <1>2 DEF Knows, Typed, OnForm
<1>5. SetsDraft(req'[o], row')
  BY <1>1, <1>2 DEF Knows, SetsDraft
<1>6. CASE req[o].pc = "idle"
  BY <1>1, <1>3, <1>4, <1>5, <1>6 DEF Knows, Unrepeated, Empty, BelowCap, Capped, Linking
<1>7. CASE req[o].pc # "idle"
  <2>1. ~req'[o].alone
    BY <1>1, <1>7 DEF IInv, Alone
  <2> QED BY <1>3, <1>4, <1>5, <2>1 DEF Knows
<1> QED BY <1>6, <1>7

(* A request under way goes on, or ends. *)
LEMMA StepKeeps ==
  ASSUME IInv, NEW r \in Requests, req[r].pc # "idle", NEW q \in Request, req'[r] = q, Others(r),
         TypeOK', World', raced => raced',
         form'.type = form.type \/ raced' \/ \A o \in Requests \ {r} : req[o].pc = "idle",
         \A p \in Rows : Exists(p) => row'[p].status # "none",
         \A o \in Requests \ {r} : req'[o].pc = "update" /\ req'[o].fresh =>
           row'[req[o].id].status = row[req[o].id].status,
         Knows(q, form', row', link', raced'), q.pc # "idle" /\ q.alone => req[r].alone
  PROVE  IInv'
<1>1. \A o \in Requests : Knows(req'[o], form', row', link', raced')
  BY OthersKeep
<1>2. \A o \in Requests \ {r} : req'[o].pc = req[o].pc /\ req'[o].alone = req[o].alone
  BY NoticedFields DEF Others, IInv
<1>3. Alone'
  BY <1>2 DEF Alone, IInv
<1> QED BY <1>1, <1>3 DEF IInv

(* What is seen to by a save is still seen to by what the save becomes. *)
Follows(p, q) ==
  p.pc \in Saving =>
    /\ q.id = p.id /\ q.pc \in Saving /\ (Arrives(p) => Arrives(q))
    /\ p.pc \in Linking => q.pc \in Linking
    /\ p.pc \in Routing => q.pc \in Routing

LEMMA QuietKeeps ==
  ASSUME IInv, NEW r \in Requests, req[r].pc # "idle", NEW q \in Request, Set(r, q),
         UNCHANGED <<form, row, link, tracked, bare, excused, raced>>,
         accounts' \subseteq Emails, hurt \subseteq hurt', hurt' \subseteq Rows,
         begun' \in Nat, moves' \in Nat,
         Follows(req[r], q) \/ req[r].id \in hurt',
         Knows(q, form, row, link, raced), q.pc # "idle" /\ q.alone => req[r].alone
  PROVE  IInv'
<1>1. /\ req' \in [Requests -> Request] /\ req'[r] = q
      /\ \A o \in Requests \ {r} : req'[o] = req[o]
  BY SetRequest DEF IInv
<1>2. TypeOK'
  BY <1>1 DEF IInv, TypeOK
<1>3. Saved' = Saved
  BY DEF Saved, Exists
<1>4. ASSUME NEW p \in Rows \ hurt', NEW o \in Requests, req[o].id = p, req[o].pc \in Saving
      PROVE  /\ req'[o].id = p /\ req'[o].pc \in Saving /\ (Arrives(req[o]) => Arrives(req'[o]))
             /\ req[o].pc \in Linking => req'[o].pc \in Linking
             /\ req[o].pc \in Routing => req'[o].pc \in Routing
  BY <1>1, <1>4 DEF Follows
<1>5. \A p \in Rows \ hurt' : /\ On(p, Routing) # {} => On(p, Routing)' # {}
                              /\ On(p, Linking) # {} => On(p, Linking)' # {}
  BY <1>4 DEF On, Saving, Linking, Routing
<1>6. Tracked' /\ Named'
  BY <1>3, <1>5 DEF IInv, World, Tracked, Named, Saved
<1>7. Awaited'
  BY <1>3, <1>4 DEF IInv, World, Awaited, On, Saved
<1>8. OwnLinks' /\ RowTypes' /\ LimitHolds'
  BY <1>3 DEF IInv, World, OwnLinks, RowTypes, LimitHolds, ByFormAndSpeaker, Exists
<1>9. World'
  BY <1>6, <1>7, <1>8 DEF World
<1> QED BY <1>1, <1>2, <1>9, StepKeeps DEF Others, Noticed, Exists

----------------------------------------------------------------------------
(* Counting *)

LEMMA Fewer ==
  ASSUME NEW T, IsFiniteSet(T), NEW S \in SUBSET T, NEW n \in Nat
  PROVE  /\ Cardinality(T) < n => Cardinality(S) < n
         /\ Cardinality(T) <= n => Cardinality(S) <= n
<1>1. Cardinality(T) \in Nat /\ Cardinality(S) \in Nat /\ Cardinality(S) <= Cardinality(T)
  BY FS_Subset, FS_CardinalityType
<1> QED BY <1>1

LEMMA RowsFinite ==
  ASSUME NEW S \in SUBSET Rows
  PROVE  IsFiniteSet(S) /\ Cardinality(S) \in Nat
  BY IntakeConstants, FS_Subset, FS_CardinalityType

LEMMA OneMore ==
  ASSUME NEW S \in SUBSET Rows, NEW p, NEW n \in Nat, Cardinality(S \ {p}) < n
  PROVE  Cardinality(S) <= n
<1>1. IsFiniteSet(S \ {p})
  BY RowsFinite
<1>2. Cardinality(S \ {p}) \in Nat
  BY RowsFinite
<1>3. CASE p \in S
  <2>1. Cardinality((S \ {p}) \cup {p}) = Cardinality(S \ {p}) + 1
    BY <1>1, FS_AddElement
  <2>2. (S \ {p}) \cup {p} = S
    BY <1>3
  <2>3. Cardinality(S) = Cardinality(S \ {p}) + 1
    BY <2>1, <2>2
  <2> QED BY <1>2, <2>3
<1>4. CASE p \notin S
  <2>1. S \ {p} = S
    BY <1>4
  <2> QED BY <1>2, <2>1
<1> QED BY <1>3, <1>4

(* A save, from the moment its row is written, knows what it did before. *)
LEMMA SavingKnows ==
  ASSUME NEW p \in Request, NEW q \in Request, NEW f \in Form, NEW rc,
         NEW rw, NEW l, NEW rw2, NEW l2, Knows(p, f, rw, l, rc),
         p.pc \in {"create", "update"} \cup Saving, q.pc \in Saving,
         q.pc \in Linking => p.pc \in {"create", "update"} \cup Linking,
         q.pc \in {"cofind", "coaccount", "co"} => q.co # None,
         q.kind = p.kind, q.email = p.email, q.type = p.type, q.alone = p.alone,
         q.id \in Rows, rw2[q.id].status # "none",
         q.pc \in Linking =>
           Primaries(q.email, rw2, l2) \ {q.id} \subseteq Primaries(p.email, rw, l) \ {p.id}
  PROVE  Knows(q, f, rw2, l2, rc)
<1>1. q.kind \notin OfForm /\ q.email \in Emails
  BY DEF Knows, Placed, Saving, OnForm
<1>2. Placed(q, rw2)
  BY <1>1 DEF Placed, Saving, OnForm
<1>3. Typed(q, f, rc)
  BY DEF Knows, Typed, OnForm, Saving
<1>4. SetsDraft(q, rw2) /\ Unrepeated(q, rw2, l2) /\ Empty(q, rw2)
  BY DEF SetsDraft, Unrepeated, Empty, Saving
<1>5. ASSUME q.alone, q.kind \in Public, f.limit # 0, q.pc \in Linking
      PROVE  Cardinality(Primaries(q.email, rw2, l2) \ {q.id}) < f.limit
  <2>1. Cardinality(Primaries(p.email, rw, l) \ {p.id}) < f.limit
    BY <1>5 DEF Knows, BelowCap, Capped
  <2>2. Primaries(p.email, rw, l) \ {p.id} \in SUBSET Rows
    BY DEF Primaries
  <2>3. IsFiniteSet(Primaries(p.email, rw, l) \ {p.id})
    BY <2>2, RowsFinite
  <2>4. f.limit \in Nat
    BY DEF Form
  <2> QED BY <1>5, <2>1, <2>3, <2>4, Fewer
<1>6. q.alone => BelowCap(q, f, rw2, l2)
  BY <1>5 DEF BelowCap, Capped, Saving, Linking
<1> QED BY <1>2, <1>3, <1>4, <1>6 DEF Knows

(* Somebody who sees to a row still does. *)
LEMMA OnKept ==
  ASSUME TypeOK, NEW r \in Requests, NEW q, req'[r] = q, Others(r), NEW p, NEW labels,
         req[r].id = p /\ req[r].pc \in labels => q.id = p /\ q.pc \in labels,
         On(p, labels) # {}
  PROVE  On(p, labels)' # {}
<1>1. PICK o \in Requests : req[o].id = p /\ req[o].pc \in labels
  BY DEF On
<1>2. req'[o].id = p /\ req'[o].pc \in labels
  BY <1>1, NoticedFields DEF Others
<1> QED BY <1>2 DEF On

LEMMA AwaitKept ==
  ASSUME TypeOK, NEW r \in Requests, NEW q, req'[r] = q, Others(r), NEW p,
         req[r].id = p /\ req[r].pc \in Saving /\ Arrives(req[r]) =>
           q.id = p /\ q.pc \in Saving /\ Arrives(q),
         \E o \in On(p, Saving) : Arrives(req[o])
  PROVE  \E o \in On(p, Saving)' : Arrives(req'[o])
<1>1. PICK o \in Requests : req[o].id = p /\ req[o].pc \in Saving /\ Arrives(req[o])
  BY DEF On
<1>2. req'[o].id = p /\ req'[o].pc \in Saving /\ Arrives(req'[o])
  <2>1. CASE o = r
    BY <1>1, <2>1
  <2>2. CASE o # r
    BY <1>1, <2>2, NoticedFields DEF Others, Arrives
  <2> QED BY <2>1, <2>2
<1> QED BY <1>2 DEF On

----------------------------------------------------------------------------
(* One lemma per statement: those that write no row *)

LEMMA Fields ==
  ASSUME IInv, NEW r \in Requests
  PROVE  /\ req[r] \in Request /\ Knows(req[r], form, row, link, raced)
         /\ req[r].kind \in Kinds /\ req[r].id \in Rows \cup {None}
         /\ req[r].email \in Emails \cup {None} /\ req[r].co \in Emails \cup {None}
         /\ req[r].content \in Contents \cup {None} /\ req[r].signed \in Emails \cup {None}
         /\ req[r].type \in Types /\ req[r].finishes \in BOOLEAN
         /\ req[r].sets \in {"none", "draft", "submitted"} /\ req[r].doomed \subseteq Emails
         /\ req[r].alone \in BOOLEAN /\ req[r].fresh \in BOOLEAN
         /\ form \in Form /\ row \in [Rows -> Row]
         /\ link \in [Rows -> [Emails -> {"none", "primary", "co"}]]
  BY DEF IInv, TypeOK, Request

(* A request ends, or breaks off, and what it leaves half done is known. *)
LEMMA QuitKeeps ==
  ASSUME IInv, NEW r \in Requests, req[r].pc # "idle", Quit(r),
         UNCHANGED <<form, row, link, tracked, bare, excused, raced>>,
         accounts' \subseteq Emails, hurt \subseteq hurt', hurt' \subseteq Rows,
         begun' \in Nat, moves' \in Nat,
         req[r].pc \notin Saving \/ req[r].id \in hurt'
  PROVE  IInv'
<1>1. PICK q \in Request : q = Unasked
  BY UnaskedRequest
<1>2. q.pc = "idle" /\ q.kind = "submit" /\ Set(r, q)
  BY <1>1 DEF Quit, Unasked
<1>3. Follows(req[r], q) \/ req[r].id \in hurt'
  BY DEF Follows
<1>4. Knows(q, form, row, link, raced)
  BY <1>2, KnowsIdle
<1> QED BY <1>2, <1>3, <1>4, QuietKeeps

(* A request goes on, in the same place, to a statement before it writes.   *)
LEMMA ReadKeeps ==
  ASSUME IInv, NEW r \in Requests, req[r].pc \notin {"idle"} \cup Saving,
         NEW q \in Request, Set(r, q), q.alone = req[r].alone,
         UNCHANGED <<form, row, link, tracked, bare, history>>, accounts' \subseteq Emails,
         Knows(q, form, row, link, raced)
  PROVE  IInv'
<1>1. Follows(req[r], q)
  BY DEF Follows
<1>2. begun' \in Nat /\ moves' \in Nat /\ hurt' = hurt /\ hurt \subseteq Rows
      /\ UNCHANGED <<excused, raced>>
  BY DEF history, IInv, TypeOK
<1> QED BY <1>1, <1>2, QuietKeeps

LEMMA EarlyQuit ==
  ASSUME IInv, NEW r \in Requests, req[r].pc \notin {"idle"} \cup Saving, Quit(r),
         UNCHANGED <<form, row, link, tracked, bare, history>>, accounts' \subseteq Emails
  PROVE  IInv'
<1>1. /\ UNCHANGED <<excused, raced>> /\ hurt' = hurt /\ hurt \subseteq Rows
      /\ begun' \in Nat /\ moves' \in Nat
  BY DEF history, IInv, TypeOK
<1> QED BY <1>1, QuitKeeps

LEMMA ReadFormKeeps ==
  ASSUME IInv, NEW r \in Requests, ReadForm(r)
  PROVE  IInv'
<1> DEFINE label == CASE req[r].kind \in {"finish", "redraft"} -> "token"
                      [] req[r].kind \in {"submit", "draft"} -> "limit"
                      [] OTHER -> "find"
           draft == req[r].kind = "portal" /\ row[req[r].id].status = "draft"
<1>1. /\ req[r].pc = "form" /\ UNCHANGED <<form, row, link, tracked, bare, history>>
      /\ accounts' \subseteq Emails
  BY DEF ReadForm, At, stored, IInv, TypeOK
<1>2. /\ req[r] \in Request /\ Knows(req[r], form, row, link, raced) /\ req[r].kind \in Kinds
      /\ req[r].id \in Rows \cup {None} /\ form.type \in Types
  BY Fields DEF Form
<1>3. \/ Quit(r)
      \/ req[r].kind \in OfForm /\ Goto(r, "count")
      \/ /\ req[r].kind \notin OfForm /\ Admits(req[r])
         /\ Set(r, [req[r] EXCEPT !.pc = label, !.type = form.type, !.finishes = draft])
  BY DEF ReadForm, OfForm
<1>4. CASE Quit(r)
  BY <1>1, <1>4, EarlyQuit DEF Saving
<1>5. CASE req[r].kind \in OfForm /\ Goto(r, "count")
  <2>1. PICK q : q = [req[r] EXCEPT !.pc = "count"]
    OBVIOUS
  <2>2. q \in Request
    BY <1>2, <2>1 DEF Request
  <2>3. q.pc = "count" /\ q.kind = req[r].kind /\ q.id = req[r].id /\ q.alone = req[r].alone
    BY <1>2, <2>1 DEF Request
  <2>4. Placed(q, row)
    BY <1>1, <1>2, <1>5, <2>3 DEF Knows, Placed, OnForm, OfForm, Saving
  <2>5. Typed(q, form, raced) /\ SetsDraft(q, row)
    BY <2>3 DEF Typed, SetsDraft, OnForm
  <2>6. Unrepeated(q, row, link) /\ Empty(q, row) /\ BelowCap(q, form, row, link)
    BY <2>3 DEF Unrepeated, Empty, BelowCap, Capped, Linking
  <2>7. Knows(q, form, row, link, raced)
    BY <2>4, <2>5, <2>6 DEF Knows
  <2>8. Set(r, q) /\ req[r].pc \notin {"idle"} \cup Saving
    BY <1>1, <1>5, <2>1 DEF Goto, Saving
  <2> QED BY <1>1, <2>2, <2>3, <2>7, <2>8, ReadKeeps
<1>6. CASE /\ req[r].kind \notin OfForm /\ Admits(req[r])
           /\ Set(r, [req[r] EXCEPT !.pc = label, !.type = form.type, !.finishes = draft])
  <2>1. PICK q : q = [req[r] EXCEPT !.pc = label, !.type = form.type, !.finishes = draft]
    OBVIOUS
  <2>2. label \in {"token", "limit", "find"} /\ draft \in BOOLEAN
        /\ (label = "token" <=> req[r].kind \in {"finish", "redraft"})
        /\ (label = "limit" <=> req[r].kind \in {"submit", "draft"})
    OBVIOUS
  <2> HIDE DEF label, draft
  <2>3. q \in Request
    BY <1>2, <2>1, <2>2 DEF Request
  <2>4. /\ q.pc = label /\ q.kind = req[r].kind /\ q.id = req[r].id /\ q.alone = req[r].alone
        /\ q.email = req[r].email /\ q.type = form.type
    BY <1>2, <2>1 DEF Request
  <2>5. req[r].kind = "portal" => row[req[r].id].status # "none"
    BY <1>6 DEF Admits, Exists
  <2>6. Placed(q, row)
    BY <1>1, <1>2, <1>6, <2>2, <2>4, <2>5 DEF Knows, Placed, OnForm, OfForm, Saving, Kinds, Public
  <2>7. Typed(q, form, raced) /\ SetsDraft(q, row)
    BY <2>2, <2>4 DEF Typed, SetsDraft
  <2>8. Unrepeated(q, row, link) /\ Empty(q, row)
    BY <2>2, <2>4 DEF Unrepeated, Empty
  <2>9. BelowCap(q, form, row, link)
    BY <2>2, <2>4, <1>6 DEF BelowCap, Capped, Linking, Public, OfForm, Kinds
  <2>10. Knows(q, form, row, link, raced)
    BY <2>6, <2>7, <2>8, <2>9 DEF Knows
  <2>11. Set(r, q) /\ req[r].pc \notin {"idle"} \cup Saving
    BY <1>1, <1>6, <2>1 DEF Saving
  <2> QED BY <1>1, <2>3, <2>4, <2>10, <2>11, ReadKeeps
<1> QED BY <1>3, <1>4, <1>5, <1>6

LEMMA DraftIdFromTokenKeeps ==
  ASSUME IInv, NEW r \in Requests, DraftIdFromToken(r)
  PROVE  IInv'
<1>1. /\ req[r].pc = "token" /\ UNCHANGED <<form, row, link, tracked, bare, history>>
      /\ accounts' \subseteq Emails
  BY DEF DraftIdFromToken, At, stored, IInv, TypeOK
<1>2. req[r] \in Request /\ Knows(req[r], form, row, link, raced)
  BY Fields
<1>3. CASE Quit(r)
  BY <1>1, <1>3, EarlyQuit DEF Saving
<1>4. CASE row[req[r].id].status = "draft" /\ Goto(r, "limit")
  <2>1. PICK q : q = [req[r] EXCEPT !.pc = "limit"]
    OBVIOUS
  <2>2. q \in Request
    BY <1>2, <2>1 DEF Request
  <2>3. /\ q.pc = "limit" /\ q.kind = req[r].kind /\ q.id = req[r].id /\ q.alone = req[r].alone
        /\ q.email = req[r].email /\ q.type = req[r].type
    BY <1>2, <2>1 DEF Request
  <2>4. Placed(q, row)
    BY <1>1, <1>2, <1>4, <2>3 DEF Knows, Placed, OnForm, OfForm, Saving
  <2>5. Typed(q, form, raced) /\ SetsDraft(q, row)
    BY <1>1, <1>2, <2>3 DEF Knows, Typed, SetsDraft, OnForm
  <2>6. Unrepeated(q, row, link) /\ Empty(q, row) /\ BelowCap(q, form, row, link)
    BY <2>3 DEF Unrepeated, Empty, BelowCap, Capped, Linking
  <2>7. Knows(q, form, row, link, raced)
    BY <2>4, <2>5, <2>6 DEF Knows
  <2>8. Set(r, q) /\ req[r].pc \notin {"idle"} \cup Saving
    BY <1>1, <1>4, <2>1 DEF Goto, Saving
  <2> QED BY <1>1, <2>2, <2>3, <2>7, <2>8, ReadKeeps
<1> QED BY <1>3, <1>4 DEF DraftIdFromToken

LEMMA LimitRefusalKeeps ==
  ASSUME IInv, NEW r \in Requests, LimitRefusal(r)
  PROVE  IInv'
<1>1. /\ req[r].pc = "limit" /\ UNCHANGED <<form, row, link, tracked, bare, history>>
      /\ accounts' \subseteq Emails
  BY DEF LimitRefusal, At, stored, IInv, TypeOK
<1>2. req[r] \in Request /\ Knows(req[r], form, row, link, raced) /\ form.limit \in Nat
  BY Fields DEF Form
<1>3. CASE Quit(r)
  BY <1>1, <1>3, EarlyQuit DEF Saving
<1>4. CASE ~AtLimit(req[r]) /\ Goto(r, "find")
  <2>1. PICK q : q = [req[r] EXCEPT !.pc = "find"]
    OBVIOUS
  <2>2. q \in Request
    BY <1>2, <2>1 DEF Request
  <2>3. /\ q.pc = "find" /\ q.kind = req[r].kind /\ q.id = req[r].id /\ q.alone = req[r].alone
        /\ q.email = req[r].email /\ q.type = req[r].type
    BY <1>2, <2>1 DEF Request
  <2>4. Placed(q, row)
    BY <1>1, <1>2, <2>3 DEF Knows, Placed, OnForm, OfForm, Saving
  <2>5. Typed(q, form, raced) /\ SetsDraft(q, row)
    BY <1>1, <1>2, <2>3 DEF Knows, Typed, SetsDraft, OnForm
  <2>6. Unrepeated(q, row, link) /\ Empty(q, row)
    BY <2>3 DEF Unrepeated, Empty
  <2>7. BelowCap(q, form, row, link)
    <3>1. Primaries(q.email, row, link) \ {q.id}
            = {p \in ByFormAndSpeaker(q.email) \ {q.id} : CountsTowardLimit(p)}
      BY DEF Primaries, ByFormAndSpeaker, CountsTowardLimit, Saved, Exists
    <3>2. Cardinality(Primaries(q.email, row, link) \ {q.id}) \in Nat
      BY RowsFinite DEF Primaries
    <3>3. form.limit # 0 => ~(Cardinality(Primaries(q.email, row, link) \ {q.id}) >= form.limit)
      BY <1>4, <2>3, <3>1 DEF AtLimit
    <3> QED BY <1>2, <3>2, <3>3 DEF BelowCap
  <2>8. Knows(q, form, row, link, raced)
    BY <2>4, <2>5, <2>6, <2>7 DEF Knows
  <2>9. Set(r, q) /\ req[r].pc \notin {"idle"} \cup Saving
    BY <1>1, <1>4, <2>1 DEF Goto, Saving
  <2> QED BY <1>1, <2>2, <2>3, <2>8, <2>9, ReadKeeps
<1> QED BY <1>3, <1>4 DEF LimitRefusal

(* The account of the first speaker is there, or is made, or is not. *)
LEMMA AfterPrimaryKeeps ==
  ASSUME IInv, NEW r \in Requests, req[r].pc \in {"find", "account"},
         NEW label \in {"account", AfterPrimary(req[r])}, Goto(r, label),
         UNCHANGED <<form, row, link, tracked, bare, history>>, accounts' \subseteq Emails
  PROVE  IInv'
<1>1. req[r] \in Request /\ Knows(req[r], form, row, link, raced) /\ req[r].kind \in Kinds
  BY Fields
<1>2. label \in {"account", "existing", "guard", "create"}
  BY DEF AfterPrimary
<1>3. PICK q : q = [req[r] EXCEPT !.pc = label]
  OBVIOUS
<1>4. q \in Request
  BY <1>1, <1>2, <1>3 DEF Request
<1>5. /\ q.pc = label /\ q.kind = req[r].kind /\ q.id = req[r].id /\ q.alone = req[r].alone
      /\ q.email = req[r].email /\ q.type = req[r].type /\ q.signed = req[r].signed
  BY <1>1, <1>3 DEF Request
<1>6. /\ label = "existing" => q.id # None
      /\ label \in {"guard", "create"} => q.id = None
      /\ label = "guard" => q.kind = "submit"
      /\ label = "create" => ~(q.kind = "submit" /\ q.signed = q.email)
  BY <1>2, <1>5 DEF AfterPrimary
<1>7. None \notin Rows /\ q.id \in Rows \cup {None}
  BY <1>4, IntakeConstants DEF Request
<1>8. Placed(q, row)
  BY <1>1, <1>2, <1>5, <1>6, <1>7 DEF Knows, Placed, OnForm, OfForm, Saving, Kinds, Public
<1>9. Typed(q, form, raced) /\ SetsDraft(q, row)
  BY <1>1, <1>2, <1>5 DEF Knows, Typed, SetsDraft, OnForm
<1>10. Unrepeated(q, row, link) /\ Empty(q, row)
  BY <1>2, <1>5, <1>6 DEF Unrepeated, Empty
<1>11. q.alone => BelowCap(q, form, row, link)
  BY <1>1, <1>5 DEF Knows, BelowCap, Capped
<1>12. Knows(q, form, row, link, raced)
  BY <1>8, <1>9, <1>10, <1>11 DEF Knows
<1>13. Set(r, q) /\ req[r].pc \notin {"idle"} \cup Saving
  BY <1>3 DEF Goto, Saving
<1> QED BY <1>4, <1>5, <1>12, <1>13, ReadKeeps

LEMMA PrimaryKeeps ==
  ASSUME IInv, NEW r \in Requests, FindPrimary(r) \/ CreatePrimary(r)
  PROVE  IInv'
<1>1. /\ req[r].pc \in {"find", "account"} /\ UNCHANGED <<form, row, link, tracked, bare, excused, raced, begun, moves>>
      /\ req[r].id \in Rows \cup {None} /\ req[r].email \in Emails /\ accounts \subseteq Emails
  BY Fields DEF FindPrimary, Find, CreatePrimary, Insert, At, stored, history, Knows, Placed, OnForm,
                IInv, TypeOK
<1>2. CASE FindPrimary(r)
  <2>1. UNCHANGED <<form, row, link, tracked, bare, history>> /\ accounts' \subseteq Emails
    BY <1>1, <1>2 DEF FindPrimary, Find, stored
  <2>2. PICK label \in {"account", AfterPrimary(req[r])} : Goto(r, label)
    BY <1>2 DEF FindPrimary, Find
  <2> QED BY <1>1, <2>1, <2>2, AfterPrimaryKeeps
<1>3. CASE CreatePrimary(r) /\ req[r].email \in accounts
  <2>1. Quit(r) /\ hurt' = hurt \cup ({req[r].id} \ {None}) /\ accounts' \subseteq Emails
    BY <1>1, <1>3 DEF CreatePrimary, Insert
  <2>2. hurt \subseteq hurt' /\ hurt' \subseteq Rows /\ begun' \in Nat /\ moves' \in Nat
    BY <1>1, <2>1 DEF IInv, TypeOK
  <2> QED BY <1>1, <2>1, <2>2, QuitKeeps DEF Saving
<1>4. CASE CreatePrimary(r) /\ req[r].email \notin accounts
  <2>1. /\ UNCHANGED <<form, row, link, tracked, bare, history>> /\ accounts' \subseteq Emails
        /\ Goto(r, AfterPrimary(req[r]))
    BY <1>1, <1>4 DEF CreatePrimary, Insert, history
  <2> QED BY <1>1, <2>1, AfterPrimaryKeeps
<1> QED BY <1>2, <1>3, <1>4

LEMMA GuardKeeps ==
  ASSUME IInv, NEW r \in Requests, Guard(r)
  PROVE  IInv'
<1>1. /\ req[r].pc = "guard" /\ UNCHANGED <<form, row, link, tracked, bare, history>>
      /\ accounts' \subseteq Emails
  BY DEF Guard, At, stored, IInv, TypeOK
<1>2. req[r] \in Request /\ Knows(req[r], form, row, link, raced)
  BY Fields
<1>3. CASE Quit(r)
  BY <1>1, <1>3, EarlyQuit DEF Saving
<1>4. CASE Goto(r, "create") /\ ~\E p \in ByFormAndSpeaker(req[r].email) : IsIdentical(p, req[r].content)
  <2>1. PICK q : q = [req[r] EXCEPT !.pc = "create"]
    OBVIOUS
  <2>2. q \in Request
    BY <1>2, <2>1 DEF Request
  <2>3. /\ q.pc = "create" /\ q.kind = req[r].kind /\ q.id = req[r].id /\ q.alone = req[r].alone
        /\ q.email = req[r].email /\ q.type = req[r].type /\ q.content = req[r].content
    BY <1>2, <2>1 DEF Request
  <2>4. Placed(q, row)
    BY <1>1, <1>2, <2>3 DEF Knows, Placed, OnForm, OfForm, Saving
  <2>5. Typed(q, form, raced) /\ SetsDraft(q, row)
    BY <1>1, <1>2, <2>3 DEF Knows, Typed, SetsDraft, OnForm
  <2>6. Unrepeated(q, row, link) /\ Empty(q, row)
    BY <1>4, <2>3 DEF Unrepeated, Empty, Primaries, ByFormAndSpeaker, Saved, Exists, IsIdentical
  <2>7. q.alone => BelowCap(q, form, row, link)
    BY <1>1, <1>2, <2>3 DEF Knows, BelowCap, Capped
  <2>8. Knows(q, form, row, link, raced)
    BY <2>4, <2>5, <2>6, <2>7 DEF Knows
  <2>9. Set(r, q) /\ req[r].pc \notin {"idle"} \cup Saving
    BY <1>1, <1>4, <2>1 DEF Goto, Saving
  <2> QED BY <1>1, <2>2, <2>3, <2>8, <2>9, ReadKeeps
<1> QED BY <1>3, <1>4 DEF Guard

LEMMA ReadExistingKeeps ==
  ASSUME IInv, NEW r \in Requests, ReadExisting(r)
  PROVE  IInv'
<1>1. /\ req[r].pc = "existing" /\ UNCHANGED <<form, row, link, tracked, bare, history>>
      /\ accounts' \subseteq Emails
  BY DEF ReadExisting, At, stored, IInv, TypeOK
<1>2. req[r] \in Request /\ Knows(req[r], form, row, link, raced)
  BY Fields
<1>3. PICK s : s = Sets(req[r])
  OBVIOUS
<1>4. /\ s \in {"none", "draft", "submitted"} /\ (s # "none" => row[req[r].id].status = "draft")
      /\ s = "submitted" => req[r].kind = "finish" \/ req[r].finishes
  BY <1>3 DEF Sets, Wants
<1>5. PICK q : q = [req[r] EXCEPT !.pc = "update", !.sets = s, !.fresh = TRUE]
  OBVIOUS
<1>6. q \in Request
  BY <1>2, <1>4, <1>5 DEF Request
<1>7. /\ q.pc = "update" /\ q.kind = req[r].kind /\ q.id = req[r].id /\ q.alone = req[r].alone
      /\ q.email = req[r].email /\ q.type = req[r].type /\ q.finishes = req[r].finishes
      /\ q.sets = s
  BY <1>2, <1>5 DEF Request
<1>8. Placed(q, row)
  BY <1>1, <1>2, <1>7 DEF Knows, Placed, OnForm, OfForm, Saving
<1>9. Typed(q, form, raced) /\ SetsDraft(q, row)
  BY <1>1, <1>2, <1>4, <1>7 DEF Knows, Typed, SetsDraft, OnForm
<1>10. Unrepeated(q, row, link) /\ Empty(q, row)
  BY <1>7 DEF Unrepeated, Empty
<1>11. q.alone => BelowCap(q, form, row, link)
  BY <1>1, <1>2, <1>7 DEF Knows, BelowCap, Capped
<1>12. Knows(q, form, row, link, raced)
  BY <1>8, <1>9, <1>10, <1>11 DEF Knows
<1>13. Set(r, q) /\ req[r].pc \notin {"idle"} \cup Saving
  BY <1>1, <1>3, <1>5 DEF ReadExisting, Saving
<1> QED BY <1>1, <1>6, <1>7, <1>12, <1>13, ReadKeeps

LEMMA CountKeeps ==
  ASSUME IInv, NEW r \in Requests, Count(r)
  PROVE  IInv'
<1>1. /\ req[r].pc = "count" /\ UNCHANGED <<form, row, link, tracked, bare, history>>
      /\ accounts' \subseteq Emails
  BY DEF Count, At, stored, IInv, TypeOK
<1>2. req[r] \in Request /\ Knows(req[r], form, row, link, raced)
  BY Fields
<1>3. CASE Quit(r)
  BY <1>1, <1>3, EarlyQuit DEF Saving
<1>4. CASE CountByForm = {} /\ Goto(r, "write")
  <2>1. PICK q : q = [req[r] EXCEPT !.pc = "write"]
    OBVIOUS
  <2>2. q \in Request
    BY <1>2, <2>1 DEF Request
  <2>3. q.pc = "write" /\ q.kind = req[r].kind /\ q.id = req[r].id /\ q.alone = req[r].alone
    BY <1>2, <2>1 DEF Request
  <2>4. Placed(q, row)
    BY <1>1, <1>2, <2>3 DEF Knows, Placed, OnForm, OfForm, Saving
  <2>5. Typed(q, form, raced) /\ SetsDraft(q, row) /\ Unrepeated(q, row, link)
        /\ BelowCap(q, form, row, link)
    BY <2>3 DEF Typed, SetsDraft, OnForm, Unrepeated, BelowCap, Capped, Linking
  <2>6. Empty(q, row)
    BY <1>4 DEF Empty, CountByForm, Saved, Exists
  <2>7. Knows(q, form, row, link, raced)
    BY <2>4, <2>5, <2>6 DEF Knows
  <2>8. Set(r, q) /\ req[r].pc \notin {"idle"} \cup Saving
    BY <1>1, <1>4, <2>1 DEF Goto, Saving
  <2> QED BY <1>1, <2>2, <2>3, <2>7, <2>8, ReadKeeps
<1> QED BY <1>3, <1>4 DEF Count

----------------------------------------------------------------------------
(* Statements of a save, and those that write a row *)

(* A save goes on and writes nothing but, perhaps, an account. *)
LEMMA SavingKeeps ==
  ASSUME IInv, NEW r \in Requests, req[r].pc \in Saving, NEW q \in Request, Set(r, q),
         q.pc \in Saving, q.pc \in Linking <=> req[r].pc \in Linking,
         q.pc \in Routing <=> req[r].pc \in Routing,
         q.pc \in {"cofind", "coaccount", "co"} => q.co # None,
         q.kind = req[r].kind, q.email = req[r].email, q.type = req[r].type,
         q.alone = req[r].alone, q.id = req[r].id, q.finishes = req[r].finishes,
         UNCHANGED <<form, row, link, tracked, bare, history>>, accounts' \subseteq Emails
  PROVE  IInv'
<1>1. /\ req[r] \in Request /\ Knows(req[r], form, row, link, raced) /\ form \in Form
  BY Fields
<1>2. req[r].pc # "idle" /\ req[r].id \in Rows /\ row[req[r].id].status # "none"
  BY <1>1, IntakeConstants DEF Knows, Placed, Saving, OnForm
<1>3. Knows(q, form, row, link, raced)
  BY <1>1, <1>2, SavingKnows
<1>4. Follows(req[r], q)
  BY DEF Follows, Arrives
<1>5. begun' \in Nat /\ moves' \in Nat /\ hurt' = hurt /\ hurt \subseteq Rows
      /\ UNCHANGED <<excused, raced>>
  BY DEF history, IInv, TypeOK
<1> QED BY <1>2, <1>3, <1>4, <1>5, QuietKeeps

LEMMA CoSpeakerKeeps ==
  ASSUME IInv, NEW r \in Requests, FindCoSpeaker(r) \/ CreateCoSpeaker(r)
  PROVE  IInv'
<1>1. /\ req[r].pc \in {"cofind", "coaccount"}
      /\ UNCHANGED <<form, row, link, tracked, bare, excused, raced, begun, moves>>
      /\ accounts \subseteq Emails
  BY DEF FindCoSpeaker, Find, CreateCoSpeaker, Insert, At, stored, history, IInv, TypeOK
<1>2. /\ req[r] \in Request /\ Knows(req[r], form, row, link, raced)
      /\ req[r].id \in Rows \cup {None} /\ req[r].co \in Emails \cup {None}
  BY Fields
<1>3. req[r].co # None /\ req[r].co \in Emails
  BY <1>1, <1>2 DEF Knows, Placed
<1>4. CASE CreateCoSpeaker(r) /\ req[r].co \in accounts
  <2>1. Quit(r) /\ hurt' = hurt \cup ({req[r].id} \ {None}) /\ accounts' = accounts
    BY <1>4 DEF CreateCoSpeaker, Insert
  <2>2. /\ hurt \subseteq hurt' /\ hurt' \subseteq Rows /\ begun' \in Nat /\ moves' \in Nat
        /\ req[r].id \in hurt'
    BY <1>1, <1>2, <2>1, IntakeConstants DEF IInv, TypeOK, Knows, Placed, Saving
  <2> QED BY <1>1, <2>1, <2>2, QuitKeeps
<1>5. ASSUME NEW label \in {"coaccount", "links"}, Goto(r, label), hurt' = hurt,
             accounts' \subseteq Emails
      PROVE  IInv'
  <2>1. PICK q : q = [req[r] EXCEPT !.pc = label]
    OBVIOUS
  <2>2. q \in Request
    BY <1>2, <2>1 DEF Request
  <2>3. /\ q.pc = label /\ q.kind = req[r].kind /\ q.id = req[r].id /\ q.alone = req[r].alone
        /\ q.email = req[r].email /\ q.type = req[r].type /\ q.co = req[r].co
        /\ q.finishes = req[r].finishes
    BY <1>2, <2>1 DEF Request
  <2>4. /\ Set(r, q) /\ req[r].pc \in Saving /\ q.pc \in Saving
        /\ q.pc \in Linking /\ req[r].pc \in Linking
        /\ q.pc \notin Routing /\ req[r].pc \notin Routing
    BY <1>1, <1>5, <2>1, <2>3 DEF Goto, Saving, Linking, Routing
  <2>5. UNCHANGED <<form, row, link, tracked, bare, history>>
    BY <1>1, <1>5 DEF history
  <2> QED BY <1>3, <1>5, <2>2, <2>3, <2>4, <2>5, SavingKeeps
<1>6. CASE FindCoSpeaker(r)
  <2>1. PICK label \in {"coaccount", "links"} : Goto(r, label)
    BY <1>6 DEF FindCoSpeaker, Find
  <2>2. hurt' = hurt /\ accounts' = accounts
    BY <1>6 DEF FindCoSpeaker, Find, stored, history
  <2> QED BY <1>1, <1>5, <2>1, <2>2
<1>7. CASE CreateCoSpeaker(r) /\ req[r].co \notin accounts
  <2>1. Goto(r, "links") /\ hurt' = hurt /\ accounts' \subseteq Emails
    BY <1>1, <1>3, <1>7 DEF CreateCoSpeaker, Insert
  <2> QED BY <1>5, <2>1
<1> QED BY <1>4, <1>6, <1>7

LEMMA ListLinksKeeps ==
  ASSUME IInv, NEW r \in Requests, ListLinks(r)
  PROVE  IInv'
<1>1. /\ req[r].pc = "links" /\ UNCHANGED <<form, row, link, tracked, bare, history>>
      /\ accounts' \subseteq Emails
  BY DEF ListLinks, At, stored, IInv, TypeOK
<1>2. req[r] \in Request
  BY Fields
<1>3. PICK doomed \in SUBSET Emails :
        doomed = {e \in Emails : link[req[r].id][e] # "none"} \ Keep(req[r])
  OBVIOUS
<1>4. PICK q : q = [req[r] EXCEPT !.pc = "drop", !.doomed = doomed]
  OBVIOUS
<1>5. q \in Request
  BY <1>2, <1>4 DEF Request
<1>6. /\ q.pc = "drop" /\ q.kind = req[r].kind /\ q.id = req[r].id /\ q.alone = req[r].alone
      /\ q.email = req[r].email /\ q.type = req[r].type /\ q.finishes = req[r].finishes
  BY <1>2, <1>4 DEF Request
<1>7. /\ Set(r, q) /\ req[r].pc \in Saving /\ q.pc \in Saving
      /\ q.pc \in Linking /\ req[r].pc \in Linking
      /\ q.pc \notin Routing /\ req[r].pc \notin Routing
  BY <1>1, <1>3, <1>4, <1>6 DEF ListLinks, Saving, Linking, Routing
<1> QED BY <1>1, <1>5, <1>6, <1>7, SavingKeeps

LEMMA FailKeeps ==
  ASSUME IInv, NEW r \in Requests, Fail(r)
  PROVE  IInv'
<1>1. /\ req[r].pc # "idle" /\ Quit(r) /\ hurt' = hurt \cup ({req[r].id} \ {None})
      /\ UNCHANGED <<form, row, link, tracked, bare, accounts, excused, raced, begun>>
      /\ moves' = moves + 1
  BY DEF Fail, Busy, At, stored
<1>2. Knows(req[r], form, row, link, raced) /\ req[r].id \in Rows \cup {None}
  BY Fields
<1>3. /\ hurt \subseteq hurt' /\ hurt' \subseteq Rows /\ begun' \in Nat /\ moves' \in Nat
      /\ accounts' \subseteq Emails
  BY <1>1, <1>2 DEF IInv, TypeOK
<1>4. req[r].pc \notin Saving \/ req[r].id \in hurt'
  BY <1>1, <1>2, IntakeConstants DEF Knows, Placed
<1> QED BY <1>1, <1>3, <1>4, QuitKeeps

LEMMA CreateKeeps ==
  ASSUME IInv, NEW r \in Requests, NEW p \in Rows, Create(r, p)
  PROVE  IInv'
<1>1. req[r].pc = "create" /\ ~Exists(p) /\ UNCHANGED <<form, accounts, link, tracked, bare, history>>
  BY DEF Create, At
<1>2. /\ req[r] \in Request /\ Knows(req[r], form, row, link, raced) /\ form \in Form
      /\ row \in [Rows -> Row] /\ req[r].type \in Types /\ req[r].content \in Contents \cup {None}
      /\ link \in [Rows -> [Emails -> {"none", "primary", "co"}]]
  BY Fields
<1>3. CASE Quit(r) /\ UNCHANGED row
  <2>1. accounts' \subseteq Emails
    BY <1>1 DEF IInv, TypeOK
  <2> QED BY <1>1, <1>3, <2>1, EarlyQuit DEF Saving
<1>4. ASSUME NEW new, Set(r, [req[r] EXCEPT !.pc = "tracks", !.id = p]),
             new = [status |-> IF req[r].kind = "draft" THEN "draft" ELSE "submitted",
                    content |-> req[r].content, token |-> req[r].kind = "draft",
                    type |-> req[r].type],
             row' = [row EXCEPT ![p] = new]
      PROVE  IInv'
  <2>1. PICK q : q = [req[r] EXCEPT !.pc = "tracks", !.id = p]
    OBVIOUS
  <2>2. q \in Request
    BY <1>2, <2>1 DEF Request
  <2>3. /\ q.pc = "tracks" /\ q.id = p /\ q.kind = req[r].kind /\ q.alone = req[r].alone
        /\ q.email = req[r].email /\ q.type = req[r].type
    BY <1>2, <2>1 DEF Request
  <2>4. /\ req' \in [Requests -> Request] /\ req'[r] = q /\ Others(r)
        /\ \A o \in Requests \ {r} : req'[o] = req[o]
    BY <1>4, <2>1, <2>2, SetRequest DEF IInv, Others, Noticed
  <2>5. /\ new \in Row /\ new.status \in {"draft", "submitted"} /\ new.type = req[r].type
        /\ new.status = "submitted" => req[r].kind # "draft"
    BY <1>2, <1>4 DEF Row, Statuses
  <2>6. row' \in [Rows -> Row] /\ row'[p] = new /\ \A s \in Rows \ {p} : row'[s] = row[s]
    BY <1>2, <1>4, <2>5
  <2>7. TypeOK'
    BY <1>1, <2>4, <2>6 DEF IInv, TypeOK, history
  <2>8. /\ \A s \in Rows : Exists(s) => row'[s].status # "none"
        /\ \A s \in Saved' : s = p \/ s \in Saved
    BY <1>1, <2>5, <2>6 DEF Exists, Saved
  <2>9. req[r].id = None /\ req[r].kind \in {"submit", "draft", "behalf"}
    BY <1>1, <1>2 DEF Knows, Placed, Saving
  <2>10. \A e \in Emails : link[p][e] = "none"
    BY <1>1 DEF IInv, World, OwnLinks
  <2>11. \A e \in Emails : Primaries(e, row', link') = Primaries(e, row, link)
    BY <1>1, <2>6, <2>8, <2>10 DEF Primaries, Exists, Saved
  <2>12. Knows(q, form', row', link', raced')
    <3>1. req[r].email \in Emails
      BY <1>1, <1>2, <2>9 DEF Knows, Placed, OfForm
    <3>2. Primaries(q.email, row', link') \ {q.id} \subseteq Primaries(req[r].email, row, link) \ {req[r].id}
      BY <2>3, <2>9, <2>11, <3>1, IntakeConstants DEF Primaries
    <3>3. row'[q.id].status # "none" /\ q.id \in Rows
      BY <2>3, <2>5, <2>6
    <3>4. Knows(q, form, row', link', raced)
      BY <1>1, <1>2, <2>2, <2>3, <3>2, <3>3, SavingKnows DEF Saving, Linking
    <3> QED BY <1>1, <3>4 DEF history
  <2>13. World'
    <3>1. \A s \in Rows : /\ On(s, Routing) # {} => On(s, Routing)' # {}
                          /\ On(s, Linking) # {} => On(s, Linking)' # {}
      BY <1>1, <2>4, OnKept DEF Routing, Linking, IInv
    <3>2. On(p, Routing)' # {} /\ On(p, Linking)' # {}
      BY <2>3, <2>4 DEF On, Routing, Linking
    <3>3. Tracked' /\ Named'
      BY <1>1, <2>8, <3>1, <3>2 DEF IInv, World, Tracked, Named, Saved, history
    <3>4. OwnLinks'
      BY <1>1, <2>8 DEF IInv, World, OwnLinks, Exists
    <3>5. ~raced => new.type = form.type
      BY <1>1, <1>2, <2>5 DEF Knows, Typed, OnForm
    <3>6. RowTypes'
      BY <1>1, <2>6, <2>8, <3>5 DEF IInv, World, RowTypes, Saved, history
    <3>7. Awaited'
      <4> SUFFICES ASSUME ~raced, form.type = "session", NEW s \in (Saved \ hurt)',
                          row'[s].status = "submitted"
                   PROVE  \E o \in On(s, Saving)' : Arrives(req'[o])
        BY <1>1 DEF Awaited, history
      <4>1. CASE s = p
        <5>1. Arrives(q)
          BY <2>3, <2>5, <2>6, <2>9, <3>5, <4>1 DEF Arrives
        <5> QED BY <2>3, <2>4, <4>1, <5>1 DEF On, Saving
      <4>2. CASE s # p
        <5>1. s \in Saved \ hurt /\ row[s].status = "submitted"
          BY <1>1, <2>6, <2>8, <4>2 DEF Saved, history
        <5>2. \E o \in On(s, Saving) : Arrives(req[o])
          BY <5>1 DEF IInv, World, Awaited
        <5> QED BY <1>1, <2>4, <5>2, AwaitKept DEF Saving, IInv
      <4> QED BY <4>1, <4>2
    <3>8. LimitHolds'
      <4>1. \A e \in Emails : ByFormAndSpeaker(e)' = ByFormAndSpeaker(e)
        BY <2>11 DEF ByFormAndSpeaker, Primaries, Saved, Exists
      <4> QED BY <1>1, <4>1 DEF IInv, World, LimitHolds, history
    <3> QED BY <3>3, <3>4, <3>6, <3>7, <3>8 DEF World
  <2>14. \A o \in Requests \ {r} : req'[o].pc = "update" =>
           row'[req[o].id].status = row[req[o].id].status
    <3> SUFFICES ASSUME NEW o \in Requests \ {r}, req'[o].pc = "update"
                 PROVE  row'[req[o].id].status = row[req[o].id].status
      OBVIOUS
    <3>1. req[o].pc = "update" /\ Knows(req[o], form, row, link, raced)
      BY <2>4, Fields
    <3>2. req[o].id \in Rows /\ Exists(req[o].id)
      BY <3>1, IntakeConstants DEF Knows, Placed, OnForm, Exists
    <3> QED BY <1>1, <2>6, <3>2
  <2> QED BY <1>1, <2>2, <2>3, <2>4, <2>7, <2>8, <2>12, <2>13, <2>14, StepKeeps DEF history
<1> QED BY <1>3, <1>4 DEF Create

(* A save or a decision writes the status of a row.                         *)
Outdated(q) == [q EXCEPT !.fresh = FALSE]

LEMMA OutdatedRequest ==
  ASSUME NEW q \in Request
  PROVE  Outdated(q) \in Request /\ Outdated(q).fresh = FALSE
  BY DEF Request, Outdated

(* The step of one request, after which the others' readings may be old. *)
Advances(r, t, p) ==
  /\ req' = [o \in Requests |-> req'[o]]
  /\ req'[r] = t \/ req'[r] = Outdated(t)
  /\ \A o \in Requests \ {r} :
       IF req[o].id = p /\ row'[p].status # row[p].status
       THEN req'[o] = Outdated(req[o]) ELSE req'[o] = req[o]

LEMMA AdvanceFacts ==
  ASSUME IInv, NEW r \in Requests, NEW t \in Request, NEW p \in Rows, Advances(r, t, p)
  PROVE  /\ req' \in [Requests -> Request] /\ Others(r)
         /\ req'[r] = t \/ req'[r] = Outdated(t)
         /\ \A o \in Requests \ {r} :
              req[o].id = p /\ row'[p].status # row[p].status => ~req'[o].fresh
<1>1. \A o \in Requests : req[o] \in Request
  BY DEF IInv, TypeOK
<1>2. \A o \in Requests \ {r} : Noticed(o)
  BY DEF Advances, Noticed, Outdated
<1>3. \A o \in Requests \ {r} :
        req[o].id = p /\ row'[p].status # row[p].status => ~req'[o].fresh
  BY <1>1, OutdatedRequest DEF Advances
<1>4. \A o \in Requests : req'[o] \in Request
  BY <1>1, OutdatedRequest DEF Advances
<1>5. req' \in [Requests -> Request]
  <2>1. req' = [o \in Requests |-> req'[o]]
    BY DEF Advances
  <2> QED BY <1>4, <2>1
<1> QED BY <1>2, <1>3, <1>5 DEF Others, Advances

LEMMA StatusKeeps ==
  ASSUME IInv, NEW r \in Requests, req[r].pc # "idle", NEW q \in Request, req'[r] = q, Others(r),
         req' \in [Requests -> Request], row' \in [Rows -> Row],
         UNCHANGED <<form, accounts, link, tracked, bare, history>>,
         NEW p \in Rows, req[r].id = p, row[p].status # "none", row'[p].status # "none",
         row'[p].type = row[p].type, \A s \in Rows \ {p} : row'[s] = row[s],
         \A o \in Requests \ {r} :
           req[o].id = p /\ row'[p].status # row[p].status => ~req'[o].fresh,
         \A labels \in {Routing, Linking} : req[r].pc \in labels => q.id = p /\ q.pc \in labels,
         row'[p].status = "submitted" =>
           \/ row[p].status = "submitted" /\ ~(req[r].pc \in Saving /\ Arrives(req[r]))
           \/ q.id = p /\ q.pc \in Saving /\ (~raced /\ form.type = "session" => Arrives(q)),
         Knows(q, form, row', link, raced), q.pc # "idle" /\ q.alone => req[r].alone
  PROVE  IInv'
<1>1. /\ form' = form /\ accounts' = accounts /\ link' = link /\ tracked' = tracked /\ bare' = bare
      /\ hurt' = hurt /\ excused' = excused /\ raced' = raced /\ begun' = begun /\ moves' = moves
  BY DEF history
<1>2. TypeOK'
  BY <1>1 DEF IInv, TypeOK
<1>3. /\ \A s \in Rows : row'[s].status # "none" <=> row[s].status # "none"
      /\ Saved' = Saved
  BY DEF Exists, Saved
<1>4. \A e \in Emails : Primaries(e, row', link') = Primaries(e, row, link)
  BY <1>1, <1>3 DEF Primaries
<1>5. World'
  <2>1. \A s \in Rows : /\ On(s, Routing) # {} => On(s, Routing)' # {}
                        /\ On(s, Linking) # {} => On(s, Linking)' # {}
    BY OnKept DEF IInv
  <2>2. Tracked' /\ Named'
    BY <1>1, <1>3, <2>1 DEF IInv, World, Tracked, Named, Saved
  <2>3. OwnLinks'
    BY <1>1, <1>3 DEF IInv, World, OwnLinks, Exists
  <2>4. RowTypes'
    BY <1>1, <1>3 DEF IInv, World, RowTypes, Saved
  <2>5. Awaited'
    <3> SUFFICES ASSUME ~raced, form.type = "session", NEW s \in Saved \ hurt,
                        row'[s].status = "submitted"
                 PROVE  \E o \in On(s, Saving)' : Arrives(req'[o])
      BY <1>1, <1>3 DEF Awaited
    <3>1. CASE s = p /\ q.id = p /\ q.pc \in Saving /\ Arrives(q)
      BY <3>1 DEF On
    <3>2. CASE ~(s = p /\ q.id = p /\ q.pc \in Saving /\ Arrives(q))
      <4>1. row[s].status = "submitted" /\ (s = p => ~(req[r].pc \in Saving /\ Arrives(req[r])))
        BY <3>2 DEF Saved
      <4>2. \E o \in On(s, Saving) : Arrives(req[o])
        BY <4>1 DEF IInv, World, Awaited
      <4> QED BY <4>1, <4>2, AwaitKept DEF IInv
    <3> QED BY <3>1, <3>2
  <2>6. LimitHolds'
    <3>1. \A e \in Emails : ByFormAndSpeaker(e)' = ByFormAndSpeaker(e)
      BY <1>4 DEF ByFormAndSpeaker, Primaries, Saved, Exists
    <3> QED BY <1>1, <3>1 DEF IInv, World, LimitHolds
  <2> QED BY <2>2, <2>3, <2>4, <2>5, <2>6 DEF World
<1>6. \A o \in Requests \ {r} : req'[o].pc = "update" /\ req'[o].fresh =>
         row'[req[o].id].status = row[req[o].id].status
  <2> SUFFICES ASSUME NEW o \in Requests \ {r}, req'[o].pc = "update", req'[o].fresh
               PROVE  row'[req[o].id].status = row[req[o].id].status
    OBVIOUS
  <2>1. req[o].pc = "update" /\ Knows(req[o], form, row, link, raced)
    BY Fields, NoticedFields DEF Others, IInv
  <2>2. req[o].id \in Rows
    BY <2>1 DEF Knows, Placed
  <2> QED BY <2>2
<1>7. \A s \in Rows : Exists(s) => row'[s].status # "none"
  BY <1>3 DEF Exists
<1> QED BY <1>1, <1>2, <1>5, <1>6, <1>7, StepKeeps

LEMMA UpdateKeeps ==
  ASSUME IInv, NEW r \in Requests, Update(r)
  PROVE  IInv'
<1>1. /\ req[r].pc = "update" /\ UNCHANGED <<form, accounts, link, tracked, bare, history>>
      /\ row' = [row EXCEPT ![req[r].id] =
                   [row[req[r].id] EXCEPT !.content = req[r].content,
                             !.status = IF req[r].sets = "none" THEN @ ELSE req[r].sets,
                             !.token = @ \/ req[r].sets # "none"]]
      /\ req' = Stale([req EXCEPT ![r].pc = "tracks"], req[r].id)
  BY DEF Update, At
<1>2. /\ req[r] \in Request /\ Knows(req[r], form, row, link, raced) /\ form \in Form
      /\ row \in [Rows -> Row] /\ req[r].content \in Contents \cup {None}
      /\ req[r].sets \in {"none", "draft", "submitted"}
  BY Fields
<1>3. PICK p \in Rows : p = req[r].id
  BY <1>1, <1>2 DEF Knows, Placed
<1>4. row[p].status # "none" /\ req[r].kind \notin OfForm /\ req[r].email \in Emails
  BY <1>1, <1>2, <1>3, IntakeConstants DEF Knows, Placed, OnForm
<1>5. PICK new \in Row :
        /\ row' = [row EXCEPT ![p] = new] /\ new.type = row[p].type
        /\ new.status = IF req[r].sets = "none" THEN row[p].status ELSE req[r].sets
  <2>1. row[p] \in Row
    BY <1>2
  <2>2. PICK new :
          /\ row' = [row EXCEPT ![p] = new]
          /\ new = [row[p] EXCEPT !.content = req[r].content,
                            !.status = IF req[r].sets = "none" THEN @ ELSE req[r].sets,
                            !.token = @ \/ req[r].sets # "none"]
    BY <1>1, <1>3
  <2>3. /\ row[p].status \in Statuses /\ row[p].token \in BOOLEAN
        /\ row[p].content \in Contents \cup {None} /\ row[p].type \in Types
    BY <2>1 DEF Row
  <2>4. /\ (IF req[r].sets = "none" THEN row[p].status ELSE req[r].sets) \in Statuses
        /\ (row[p].token \/ req[r].sets # "none") \in BOOLEAN
    BY <1>2, <2>3 DEF Statuses
  <2>5. new \in Row
    BY <1>2, <2>1, <2>2, <2>4 DEF Row
  <2>6. /\ new.type = row[p].type
        /\ new.status = IF req[r].sets = "none" THEN row[p].status ELSE req[r].sets
    BY <2>1, <2>2 DEF Row
  <2> QED BY <2>2, <2>5, <2>6
<1>6. /\ row' \in [Rows -> Row] /\ row'[p] = new /\ \A s \in Rows \ {p} : row'[s] = row[s]
      /\ new.status # "none"
  BY <1>2, <1>4, <1>5
<1>7. PICK t : t = [req[r] EXCEPT !.pc = "tracks"]
  OBVIOUS
<1>8. t \in Request
  BY <1>2, <1>7 DEF Request
<1>9. /\ t.pc = "tracks" /\ t.kind = req[r].kind /\ t.id = p /\ t.alone = req[r].alone
      /\ t.email = req[r].email /\ t.type = req[r].type /\ t.finishes = req[r].finishes
  BY <1>2, <1>3, <1>7 DEF Request
<1>10. Advances(r, t, p)
  <2>1. PICK qs : qs = [req EXCEPT ![r] = t] /\ req' = Stale(qs, p)
    BY <1>1, <1>3, <1>7
  <2>2. qs[r] = t /\ \A o \in Requests \ {r} : qs[o] = req[o]
    BY <2>1 DEF IInv, TypeOK
  <2>3. req' = [o \in Requests |-> IF qs[o].id = p /\ row'[p].status # row[p].status
                                   THEN Outdated(qs[o]) ELSE qs[o]]
    BY <2>1 DEF Stale, Outdated
  <2>4. \A o \in Requests : req'[o] = IF qs[o].id = p /\ row'[p].status # row[p].status
                                     THEN Outdated(qs[o]) ELSE qs[o]
    BY <2>3
  <2>5. req' = [o \in Requests |-> req'[o]]
    BY <2>3
  <2> QED BY <2>2, <2>4, <2>5 DEF Advances
<1>11. /\ req' \in [Requests -> Request] /\ Others(r)
       /\ req'[r] = t \/ req'[r] = Outdated(t)
       /\ \A o \in Requests \ {r} :
            req[o].id = p /\ row'[p].status # row[p].status => ~req'[o].fresh
  BY <1>8, <1>10, AdvanceFacts
<1>12. PICK q : q = req'[r]
  OBVIOUS
<1>13. q \in Request
  BY <1>11, <1>12
<1>14. /\ q.pc = "tracks" /\ q.kind = req[r].kind /\ q.id = p /\ q.alone = req[r].alone
       /\ q.email = req[r].email /\ q.type = req[r].type /\ q.finishes = req[r].finishes
  BY <1>8, <1>9, <1>11, <1>12 DEF Request, Outdated
<1>15. Knows(q, form, row', link, raced)
  <2>1. Primaries(q.email, row', link) \ {q.id} \subseteq Primaries(req[r].email, row, link) \ {req[r].id}
    BY <1>3, <1>6, <1>14 DEF Primaries
  <2>2. q.id \in Rows /\ row'[q.id].status # "none"
    BY <1>6, <1>14
  <2>3. /\ req[r].pc \in {"create", "update"} \cup Saving
        /\ q.pc \in Saving /\ q.pc \in Linking /\ q.pc \notin {"cofind", "coaccount", "co"}
        /\ req[r].pc \in {"create", "update"} \cup Linking
    BY <1>1, <1>14 DEF Saving, Linking
  <2> QED BY <1>2, <1>13, <1>14, <2>1, <2>2, <2>3, SavingKnows
<1>16. row'[p].status = "submitted" =>
         \/ row[p].status = "submitted" /\ ~(req[r].pc \in Saving /\ Arrives(req[r]))
         \/ q.id = p /\ q.pc \in Saving /\ (~raced /\ form.type = "session" => Arrives(q))
  <2>1. CASE req[r].sets = "submitted"
    <3>1. ~raced => q.type = form.type
      BY <1>1, <1>2, <1>14 DEF Knows, Typed, OnForm
    <3>2. q.kind = "finish" \/ q.finishes
      BY <1>1, <1>2, <1>14, <2>1 DEF Knows, SetsDraft
    <3> QED BY <1>14, <3>1, <3>2 DEF Arrives, Saving
  <2>2. CASE req[r].sets # "submitted"
    BY <1>1, <1>5, <1>6, <2>2 DEF Saving
  <2> QED BY <2>1, <2>2
<1>17. \A labels \in {Routing, Linking} : req[r].pc \in labels => q.id = p /\ q.pc \in labels
  BY <1>1 DEF Routing, Linking
<1>18. row'[p].type = row[p].type /\ row'[p].status # "none" /\ req[r].pc # "idle"
       /\ (q.pc # "idle" /\ q.alone => req[r].alone) /\ req'[r] = q /\ req[r].id = p
  BY <1>1, <1>3, <1>5, <1>6, <1>12, <1>14
<1>19. /\ UNCHANGED <<form, accounts, link, tracked, bare, history>>
       /\ \A s \in Rows \ {p} : row'[s] = row[s]
  BY <1>1, <1>6
<1> QED BY <1>4, <1>6, <1>11, <1>13, <1>15, <1>16, <1>17, <1>18, <1>19, StatusKeeps

LEMMA TracksKeep ==
  ASSUME IInv, NEW r \in Requests, InsertTracks(r) \/ \E picks \in BOOLEAN : ClearTracks(r, picks)
  PROVE  IInv'
<1>1. req[r].pc \in Routing /\ UNCHANGED <<form, accounts, row, link, history>>
  BY DEF ClearTracks, InsertTracks, At, Routing
<1>2. /\ req[r] \in Request /\ Knows(req[r], form, row, link, raced) /\ form \in Form
      /\ req[r].id \in Rows \cup {None}
  BY Fields
<1>3. PICK p \in Rows : p = req[r].id
  BY <1>1, <1>2 DEF Knows, Placed, Routing, Saving
<1>4. PICK label \in {"route", "links", "cofind"} :
        /\ Goto(r, label) /\ (label = "cofind" => req[r].co # None)
        /\ \A s \in Rows \ {p} : s \in tracked => s \in tracked'
        /\ \A s \in Rows \ {p} : s \in bare => s \in bare'
        /\ tracked' \cup bare' \subseteq Rows
        /\ label # "route" => p \in tracked' \/ p \in bare'
  BY <1>3 DEF ClearTracks, InsertTracks, AfterTracks, IInv, TypeOK
<1>5. PICK q : q = [req[r] EXCEPT !.pc = label]
  OBVIOUS
<1>6. q \in Request
  BY <1>2, <1>5 DEF Request
<1>7. /\ q.pc = label /\ q.kind = req[r].kind /\ q.id = req[r].id /\ q.alone = req[r].alone
      /\ q.email = req[r].email /\ q.type = req[r].type /\ q.co = req[r].co
      /\ q.finishes = req[r].finishes
  BY <1>2, <1>5 DEF Request
<1>8. /\ req' \in [Requests -> Request] /\ req'[r] = q /\ Others(r)
      /\ \A o \in Requests \ {r} : req'[o] = req[o]
  BY <1>4, <1>5, <1>6, SetRequest DEF IInv, Others, Noticed, Goto
<1>9. TypeOK'
  BY <1>1, <1>4, <1>8 DEF IInv, TypeOK, history
<1>10. row[req[r].id].status # "none"
  BY <1>1, <1>2, <1>3, IntakeConstants DEF Knows, Placed, Routing, OnForm
<1>11. Knows(q, form', row', link', raced')
  <2>1. Knows(q, form, row, link, raced)
    BY <1>1, <1>2, <1>3, <1>4, <1>6, <1>7, <1>10, SavingKnows DEF Routing, Saving, Linking
  <2> QED BY <1>1, <2>1 DEF history
<1>12. World'
  <2>1. /\ \A s \in Rows : On(s, Linking) # {} => On(s, Linking)' # {}
        /\ \A s \in Rows \ {p} : On(s, Routing) # {} => On(s, Routing)' # {}
    BY <1>3, <1>7, <1>8, OnKept DEF Routing, Linking, IInv
  <2>2. label = "route" => On(p, Routing)' # {}
    BY <1>3, <1>7, <1>8 DEF On, Routing
  <2>3. Saved' = Saved
    BY <1>1 DEF Saved, Exists
  <2>4. Tracked'
    BY <1>1, <1>4, <2>1, <2>2, <2>3 DEF IInv, World, Tracked, Saved, history
  <2>5. Named'
    BY <1>1, <2>1, <2>3 DEF IInv, World, Named, Saved, history
  <2>6. OwnLinks' /\ RowTypes' /\ LimitHolds'
    BY <1>1, <2>3 DEF IInv, World, OwnLinks, RowTypes, LimitHolds, ByFormAndSpeaker, Exists, history
  <2>7. Awaited'
    <3> SUFFICES ASSUME ~raced, form.type = "session", NEW s \in Saved \ hurt,
                        row[s].status = "submitted"
                 PROVE  \E o \in On(s, Saving)' : Arrives(req'[o])
      BY <1>1, <2>3 DEF Awaited, history
    <3>1. \E o \in On(s, Saving) : Arrives(req[o])
      BY DEF IInv, World, Awaited
    <3>2. Arrives(req[r]) => Arrives(q)
      BY <1>7 DEF Arrives
    <3> QED BY <1>7, <1>8, <3>1, <3>2, AwaitKept DEF Saving, IInv
  <2> QED BY <2>4, <2>5, <2>6, <2>7 DEF World
<1>13. req[r].pc # "idle"
  BY <1>1 DEF Routing
<1> QED BY <1>1, <1>6, <1>7, <1>8, <1>9, <1>11, <1>12, <1>13, StepKeeps DEF history, Exists

LEMMA AcceptKeeps ==
  ASSUME IInv, NEW r \in Requests, AcceptOnArrival(r)
  PROVE  IInv'
<1>1. /\ req[r].pc = "arrive" /\ UNCHANGED <<form, accounts, link, tracked, bare, history>>
      /\ IF Arrives(req[r]) /\ row[req[r].id].status # "draft"
         THEN /\ row' = [row EXCEPT ![req[r].id].status = "approved"]
              /\ req' = Stale([req EXCEPT ![r] = Unasked], req[r].id)
         ELSE Quit(r) /\ UNCHANGED row
  BY DEF AcceptOnArrival, At
<1>2. /\ req[r] \in Request /\ Knows(req[r], form, row, link, raced)
      /\ row \in [Rows -> Row]
  BY Fields
<1>3. PICK p \in Rows : p = req[r].id
  BY <1>1, <1>2 DEF Knows, Placed, Saving
<1>4. row[p].status # "none"
  BY <1>1, <1>2, <1>3, IntakeConstants DEF Knows, Placed, OnForm
<1>5. PICK t \in Request : t = Unasked
  BY UnaskedRequest
<1>6. t.pc = "idle" /\ t.kind = "submit"
  BY <1>5 DEF Unasked
<1>7. \A labels \in {Routing, Linking} : req[r].pc \notin labels
  BY <1>1 DEF Routing, Linking
<1>8. CASE Arrives(req[r]) /\ row[p].status # "draft"
  <2>1. /\ row' \in [Rows -> Row] /\ \A s \in Rows \ {p} : row'[s] = row[s]
        /\ row'[p].type = row[p].type /\ row'[p].status = "approved"
    <3>1. row[p] \in Row
      BY <1>2
    <3>2. PICK new : row' = [row EXCEPT ![p] = new] /\ new = [row[p] EXCEPT !.status = "approved"]
      BY <1>1, <1>3, <1>8
    <3>3. new \in Row /\ new.type = row[p].type /\ new.status = "approved"
      BY <3>1, <3>2 DEF Row, Statuses, Decided
    <3> QED BY <1>2, <3>2, <3>3
  <2>2. Advances(r, t, p)
    <3>1. PICK qs : qs = [req EXCEPT ![r] = t] /\ req' = Stale(qs, p)
      BY <1>1, <1>3, <1>5, <1>8
    <3>2. qs[r] = t /\ \A o \in Requests \ {r} : qs[o] = req[o]
      BY <3>1 DEF IInv, TypeOK
    <3>3. req' = [o \in Requests |-> IF qs[o].id = p /\ row'[p].status # row[p].status
                                     THEN Outdated(qs[o]) ELSE qs[o]]
      BY <3>1 DEF Stale, Outdated
    <3>4. \A o \in Requests : req'[o] = IF qs[o].id = p /\ row'[p].status # row[p].status
                                       THEN Outdated(qs[o]) ELSE qs[o]
      BY <3>3
    <3>5. req' = [o \in Requests |-> req'[o]]
      BY <3>3
    <3> QED BY <3>2, <3>4, <3>5 DEF Advances
  <2>3. /\ req' \in [Requests -> Request] /\ Others(r)
        /\ req'[r] = t \/ req'[r] = Outdated(t)
        /\ \A o \in Requests \ {r} :
             req[o].id = p /\ row'[p].status # row[p].status => ~req'[o].fresh
    BY <2>2, AdvanceFacts
  <2>4. PICK q \in Request : q = req'[r]
    BY <2>3
  <2>5. q.pc = "idle" /\ q.kind = "submit"
    BY <1>6, <2>3, <2>4 DEF Request, Outdated
  <2>6. Knows(q, form, row', link, raced)
    BY <2>5, KnowsIdle
  <2>7. /\ row'[p].status # "none" /\ row'[p].status # "submitted" /\ req[r].pc # "idle"
        /\ req'[r] = q /\ req[r].id = p
    BY <1>1, <1>3, <2>1, <2>4
  <2>8. UNCHANGED <<form, accounts, link, tracked, bare, history>>
    BY <1>1
  <2> QED BY <1>4, <1>7, <2>1, <2>3, <2>5, <2>6, <2>7, <2>8, StatusKeeps
<1>9. CASE ~(Arrives(req[r]) /\ row[p].status # "draft")
  <2>1. Set(r, t) /\ row' = row
    BY <1>1, <1>3, <1>5, <1>9 DEF Quit
  <2>2. /\ req' \in [Requests -> Request] /\ req'[r] = t /\ Others(r)
    BY <2>1, SetRequest DEF IInv, Others, Noticed
  <2>3. Knows(t, form, row', link, raced)
    BY <1>6, KnowsIdle
  <2>4. row'[p].status = "submitted" =>
          row[p].status = "submitted" /\ ~(req[r].pc \in Saving /\ Arrives(req[r]))
    BY <1>9, <2>1
  <2>5. /\ row' \in [Rows -> Row] /\ row'[p].status # "none" /\ row'[p].type = row[p].type
        /\ \A s \in Rows : row'[s] = row[s]
        /\ req[r].pc # "idle" /\ req[r].id = p /\ t.pc = "idle"
    BY <1>1, <1>2, <1>3, <1>4, <1>6, <2>1
  <2>6. UNCHANGED <<form, accounts, link, tracked, bare, history>>
    BY <1>1
  <2> QED BY <1>4, <1>7, <2>2, <2>3, <2>4, <2>5, <2>6, StatusKeeps
<1> QED BY <1>8, <1>9

(* A link is taken away or written. *)
LEMMA LinkKeeps ==
  ASSUME IInv, NEW r \in Requests, req[r].pc \in {"drop", "co"}, NEW p \in Rows, req[r].id = p,
         NEW q \in Request, Set(r, q), q.pc \in {"drop", "co", "arrive"}, q.id = p,
         q.pc = "drop" => req[r].pc = "drop", q.pc = "co" => q.co # None,
         q.kind = req[r].kind, q.email = req[r].email, q.type = req[r].type,
         q.alone = req[r].alone, q.finishes = req[r].finishes,
         NEW e \in Emails, NEW role \in {"none", "primary", "co"},
         q.pc # "drop" => role # "none", Linked(p, e, role),
         UNCHANGED <<form, accounts, row, tracked, bare, hurt, raced, begun, moves>>,
         excused \subseteq excused', excused' \subseteq Emails,
         role = "primary" /\ e \notin excused' /\ form.limit # 0 =>
           Cardinality(Primaries(e, row, link) \ {p}) < form.limit
  PROVE  IInv'
<1>1. /\ req[r] \in Request /\ Knows(req[r], form, row, link, raced) /\ form \in Form
      /\ link \in [Rows -> [Emails -> {"none", "primary", "co"}]] /\ form.limit \in Nat
  BY Fields DEF Form
<1>2. PICK l : l = [link[p] EXCEPT ![e] = role]
  OBVIOUS
<1>3. /\ l \in [Emails -> {"none", "primary", "co"}] /\ l[e] = role
      /\ \A x \in Emails \ {e} : l[x] = link[p][x]
  BY <1>1, <1>2
<1>4. link' = [link EXCEPT ![p] = l]
  BY <1>2 DEF Linked
<1>5. /\ link' \in [Rows -> [Emails -> {"none", "primary", "co"}]]
      /\ \A s \in Rows \ {p} : link'[s] = link[s]
      /\ link'[p] = l
  BY <1>1, <1>3, <1>4
<1>6. /\ req' \in [Requests -> Request] /\ req'[r] = q /\ Others(r)
      /\ \A o \in Requests \ {r} : req'[o] = req[o]
  BY SetRequest DEF IInv, Others, Noticed
<1>7. TypeOK'
  BY <1>5, <1>6 DEF IInv, TypeOK
<1>8. \A x \in Emails : Primaries(x, row', link') \ {p} = Primaries(x, row, link) \ {p}
  BY <1>5 DEF Primaries
<1>9. row[p].status # "none" /\ req[r].email \in Emails
  BY <1>1, IntakeConstants DEF Knows, Placed, OnForm
<1>10. Knows(q, form', row', link', raced')
  <2>1. Primaries(q.email, row', link') \ {q.id} \subseteq Primaries(req[r].email, row, link) \ {req[r].id}
    BY <1>8, <1>9
  <2>2. q.id \in Rows /\ row'[q.id].status # "none"
    BY <1>9
  <2>3. /\ req[r].pc \in {"create", "update"} \cup Saving /\ q.pc \in Saving
        /\ q.pc \in Linking => req[r].pc \in {"create", "update"} \cup Linking
        /\ q.pc \in {"cofind", "coaccount", "co"} => q.co # None
    BY DEF Saving, Linking
  <2>4. Knows(q, form, row', link', raced)
    BY <1>1, <2>1, <2>2, <2>3, SavingKnows
  <2> QED BY <2>4
<1>11. World'
  <2>1. Saved' = Saved
    BY DEF Saved, Exists
  <2>2. \A s \in Rows : /\ On(s, Routing) # {} => On(s, Routing)' # {}
                        /\ s # p /\ On(s, Linking) # {} => On(s, Linking)' # {}
    BY <1>6, OnKept DEF Routing, IInv
  <2>3. q.pc = "drop" => On(p, Linking)' # {}
    BY <1>6 DEF On, Linking
  <2>4. Tracked'
    BY <2>1, <2>2 DEF IInv, World, Tracked, Saved
  <2>5. Named'
    <3> SUFFICES ASSUME NEW s \in Saved \ hurt
                 PROVE  (\E x \in Emails : link'[s][x] # "none") \/ On(s, Linking)' # {}
      BY <2>1 DEF Named
    <3>1. CASE s = p
      BY <1>3, <1>5, <2>3, <3>1
    <3>2. CASE s # p
      <4>1. (\E x \in Emails : link[s][x] # "none") \/ On(s, Linking) # {}
        BY DEF IInv, World, Named
      <4>2. link'[s] = link[s] /\ s \in Rows
        BY <1>5, <3>2 DEF Saved
      <4> QED BY <2>2, <3>2, <4>1, <4>2
    <3> QED BY <3>1, <3>2
  <2>6. OwnLinks'
    <3> SUFFICES ASSUME NEW s \in Rows, NEW x \in Emails, link'[s][x] # "none"
                 PROVE  row[s].status # "none"
      BY DEF OwnLinks, Exists
    <3>1. CASE s = p
      BY <1>9, <3>1
    <3>2. CASE s # p
      BY <1>5, <3>2 DEF IInv, World, OwnLinks, Exists
    <3> QED BY <3>1, <3>2
  <2>7. RowTypes'
    BY <2>1 DEF IInv, World, RowTypes
  <2>8. Awaited'
    <3> SUFFICES ASSUME ~raced, form.type = "session", NEW s \in Saved \ hurt,
                        row[s].status = "submitted"
                 PROVE  \E o \in On(s, Saving)' : Arrives(req'[o])
      BY <2>1 DEF Awaited
    <3>1. \E o \in On(s, Saving) : Arrives(req[o])
      BY DEF IInv, World, Awaited
    <3>2. (Arrives(req[r]) => Arrives(q)) /\ q.pc \in Saving
      BY DEF Arrives, Saving
    <3> QED BY <1>6, <3>1, <3>2, AwaitKept DEF IInv
  <2>9. LimitHolds'
    <3> SUFFICES ASSUME form.limit # 0, NEW x \in Emails \ excused'
                 PROVE  Cardinality(Primaries(x, row', link')) <= form.limit
      BY DEF LimitHolds, ByFormAndSpeaker, Primaries, Saved, Exists
    <3>1. CASE x = e /\ role = "primary"
      <4>1. Cardinality(Primaries(x, row', link') \ {p}) < form.limit
        BY <1>8, <3>1
      <4>2. Primaries(x, row', link') \in SUBSET Rows
        BY DEF Primaries
      <4> QED BY <1>1, <4>1, <4>2, OneMore
    <3>2. CASE ~(x = e /\ role = "primary")
      <4>1. Primaries(x, row', link') \in SUBSET Primaries(x, row, link)
        BY <1>3, <1>5, <3>2 DEF Primaries
      <4>2. IsFiniteSet(Primaries(x, row, link))
        BY RowsFinite DEF Primaries
      <4>3. Primaries(x, row, link) = ByFormAndSpeaker(x)
        BY DEF Primaries, ByFormAndSpeaker, Saved, Exists
      <4>4. Cardinality(Primaries(x, row, link)) <= form.limit
        BY <4>3 DEF IInv, World, LimitHolds
      <4> QED BY <1>1, <4>1, <4>2, <4>4, Fewer
    <3> QED BY <3>1, <3>2
  <2> QED BY <2>4, <2>5, <2>6, <2>7, <2>8, <2>9 DEF World
<1>12. \A s \in Rows : Exists(s) => row'[s].status # "none"
  BY DEF Exists
<1> QED BY <1>6, <1>7, <1>10, <1>11, <1>12, StepKeeps

LEMMA RemoveSpeakerKeeps ==
  ASSUME IInv, NEW r \in Requests, NEW e \in Emails, RemoveSpeaker(r, e)
  PROVE  IInv'
<1>1. /\ req[r].pc = "drop" /\ Linked(req[r].id, e, "none")
      /\ Set(r, [req[r] EXCEPT !.doomed = @ \ {e}])
      /\ UNCHANGED <<form, accounts, row, tracked, bare, history>>
  BY DEF RemoveSpeaker, At
<1>2. req[r] \in Request /\ Knows(req[r], form, row, link, raced) /\ excused \subseteq Emails
  BY Fields DEF IInv, TypeOK
<1>3. PICK p \in Rows : p = req[r].id
  BY <1>1, <1>2 DEF Knows, Placed, Saving
<1>4. PICK q : q = [req[r] EXCEPT !.doomed = @ \ {e}]
  OBVIOUS
<1>5. q \in Request
  BY <1>2, <1>4 DEF Request
<1>6. /\ q.pc = "drop" /\ q.kind = req[r].kind /\ q.id = p /\ q.alone = req[r].alone
      /\ q.email = req[r].email /\ q.type = req[r].type /\ q.finishes = req[r].finishes
  BY <1>1, <1>2, <1>3, <1>4 DEF Request
<1>7. /\ Set(r, q) /\ Linked(p, e, "none") /\ req[r].id = p
      /\ UNCHANGED <<form, accounts, row, tracked, bare, hurt, raced, begun, moves>>
      /\ excused' = excused
  BY <1>1, <1>3, <1>4 DEF history
<1> QED BY <1>1, <1>2, <1>5, <1>6, <1>7, LinkKeeps

LEMMA AddPrimaryKeeps ==
  ASSUME IInv, NEW r \in Requests, AddPrimary(r)
  PROVE  IInv'
<1> DEFINE label == IF req[r].co = None THEN "arrive" ELSE "co"
<1>1. /\ req[r].pc = "drop" /\ Linked(req[r].id, req[r].email, "primary")
      /\ excused' = IF Excuses(req[r]) THEN excused \cup {req[r].email} ELSE excused
      /\ Set(r, [req[r] EXCEPT !.pc = label])
      /\ UNCHANGED <<form, accounts, row, tracked, bare, hurt, raced, begun, moves>>
  BY DEF AddPrimary, At
<1>2. /\ req[r] \in Request /\ Knows(req[r], form, row, link, raced) /\ excused \subseteq Emails
      /\ req[r].kind \in Kinds
  BY Fields DEF IInv, TypeOK
<1>3. req[r].id \in Rows /\ req[r].kind \notin OfForm
  BY <1>1, <1>2 DEF Knows, Placed, Saving, OnForm
<1>4. PICK p \in Rows : p = req[r].id
  BY <1>3
<1>5. PICK e \in Emails : e = req[r].email
  BY <1>1, <1>2, <1>3 DEF Knows, Placed
<1>6. PICK q : q = [req[r] EXCEPT !.pc = label]
  OBVIOUS
<1>7. label \in {"co", "arrive"} /\ (label = "co" => req[r].co # None)
  OBVIOUS
<1> HIDE DEF label
<1>8. q \in Request
  BY <1>2, <1>6, <1>7 DEF Request
<1>9. /\ q.pc = label /\ q.kind = req[r].kind /\ q.id = p /\ q.alone = req[r].alone
      /\ q.email = req[r].email /\ q.type = req[r].type /\ q.finishes = req[r].finishes
      /\ q.co = req[r].co
  BY <1>2, <1>4, <1>6 DEF Request
<1>10. /\ Set(r, q) /\ Linked(p, e, "primary") /\ req[r].id = p
       /\ UNCHANGED <<form, accounts, row, tracked, bare, hurt, raced, begun, moves>>
       /\ excused \subseteq excused' /\ excused' \subseteq Emails
  BY <1>1, <1>2, <1>4, <1>5, <1>6
<1>11. e \notin excused' /\ form.limit # 0 => Cardinality(Primaries(e, row, link) \ {p}) < form.limit
  <2> SUFFICES ASSUME e \notin excused', form.limit # 0
               PROVE  Cardinality(Primaries(e, row, link) \ {p}) < form.limit
    OBVIOUS
  <2>1. req[r].alone /\ req[r].kind \in Public
    BY <1>1, <1>2, <1>3, <1>5 DEF Excuses, Kinds, OfForm
  <2>2. BelowCap(req[r], form, row, link)
    BY <1>2, <2>1 DEF Knows
  <2> QED BY <1>1, <1>4, <1>5, <2>1, <2>2 DEF BelowCap, Capped, Linking
<1>12. /\ q.pc \in {"drop", "co", "arrive"} /\ q.pc # "drop"
       /\ q.pc = "co" => q.co # None
  BY <1>7, <1>9
<1> QED BY <1>1, <1>8, <1>9, <1>10, <1>11, <1>12, LinkKeeps

LEMMA AddCoSpeakerKeeps ==
  ASSUME IInv, NEW r \in Requests, AddCoSpeaker(r)
  PROVE  IInv'
<1>1. /\ req[r].pc = "co" /\ Linked(req[r].id, req[r].co, "co") /\ Goto(r, "arrive")
      /\ UNCHANGED <<form, accounts, row, tracked, bare, history>>
  BY DEF AddCoSpeaker, At
<1>2. /\ req[r] \in Request /\ Knows(req[r], form, row, link, raced) /\ excused \subseteq Emails
      /\ req[r].co \in Emails \cup {None}
  BY Fields DEF IInv, TypeOK
<1>3. req[r].id \in Rows /\ req[r].co # None
  BY <1>1, <1>2 DEF Knows, Placed, Saving
<1>4. PICK p \in Rows : p = req[r].id
  BY <1>3
<1>5. PICK e \in Emails : e = req[r].co
  BY <1>2, <1>3
<1>6. PICK q : q = [req[r] EXCEPT !.pc = "arrive"]
  OBVIOUS
<1>7. q \in Request
  BY <1>2, <1>6 DEF Request
<1>8. /\ q.pc = "arrive" /\ q.kind = req[r].kind /\ q.id = p /\ q.alone = req[r].alone
      /\ q.email = req[r].email /\ q.type = req[r].type /\ q.finishes = req[r].finishes
  BY <1>2, <1>4, <1>6 DEF Request
<1>9. /\ Set(r, q) /\ Linked(p, e, "co") /\ req[r].id = p
      /\ UNCHANGED <<form, accounts, row, tracked, bare, hurt, raced, begun, moves>>
      /\ excused' = excused
  BY <1>1, <1>4, <1>5, <1>6 DEF history, Goto
<1> QED BY <1>1, <1>2, <1>7, <1>8, <1>9, LinkKeeps

----------------------------------------------------------------------------
(* What happens beside the requests, and how one begins *)

LEMMA BesideKeeps ==
  ASSUME IInv, \A o \in Requests : Noticed(o), TypeOK',
         form'.type = form.type, form'.limit = form.limit,
         UNCHANGED <<link, tracked, bare, hurt, excused, raced>>,
         \A s \in Rows :
           /\ row'[s].status \in {"none"} <=> row[s].status \in {"none"}
           /\ row'[s].status \in {"none", "draft"} <=> row[s].status \in {"none", "draft"}
           /\ row'[s].status = "submitted" => row[s].status = "submitted"
           /\ row'[s].type = row[s].type /\ row'[s].content = row[s].content,
         \A o \in Requests : req[o].pc = "update" /\ req'[o].fresh =>
           row'[req[o].id].status = row[req[o].id].status
  PROVE  IInv'
<1>1. \A o \in Requests :
        /\ req'[o].pc = req[o].pc /\ req'[o].kind = req[o].kind /\ req'[o].id = req[o].id
        /\ req'[o].email = req[o].email /\ req'[o].co = req[o].co /\ req'[o].signed = req[o].signed
        /\ req'[o].type = req[o].type /\ req'[o].finishes = req[o].finishes
        /\ req'[o].sets = req[o].sets /\ req'[o].alone = req[o].alone
        /\ req'[o].content = req[o].content /\ (req'[o].fresh => req[o].fresh)
  BY NoticedFields DEF IInv
<1>2. Saved' = Saved /\ \A e : Primaries(e, row', link') = Primaries(e, row, link)
  BY DEF Saved, Exists, Primaries
<1>3. ASSUME NEW o \in Requests
      PROVE  Knows(req'[o], form', row', link', raced')
  <2>1. req[o] \in Request /\ Knows(req[o], form, row, link, raced) /\ req[o].id \in Rows \cup {None}
    BY Fields
  <2>2. Placed(req'[o], row')
    BY <1>1, <2>1 DEF Knows, Placed
  <2>3. Typed(req'[o], form', raced') /\ SetsDraft(req'[o], row')
    BY <1>1, <2>1 DEF Knows, Typed, SetsDraft
  <2>4. req[o].alone => Unrepeated(req'[o], row', link') /\ Empty(req'[o], row')
    <3>1. req[o].alone => Unrepeated(req[o], row, link) /\ Empty(req[o], row)
      BY <2>1 DEF Knows
    <3>2. \A e : Primaries(e, row, link) \subseteq Rows
      BY DEF Primaries
    <3> QED BY <1>1, <1>2, <3>1, <3>2 DEF Unrepeated, Empty
  <2>5. req[o].alone => BelowCap(req'[o], form', row', link')
    <3>1. req[o].alone => BelowCap(req[o], form, row, link)
      BY <2>1 DEF Knows
    <3> QED BY <1>1, <1>2, <3>1 DEF BelowCap
  <2> QED BY <1>1, <2>2, <2>3, <2>4, <2>5 DEF Knows
<1>4. Alone'
  BY <1>1 DEF IInv, Alone
<1>5. \A s, labels : On(s, labels)' = On(s, labels)
  BY <1>1 DEF On
<1>6. World'
  <2>1. Tracked' /\ Named'
    BY <1>2, <1>5 DEF IInv, World, Tracked, Named
  <2>2. OwnLinks' /\ RowTypes'
    BY <1>2 DEF IInv, World, OwnLinks, RowTypes, Exists, Saved
  <2>3. \A o \in Requests : Arrives(req[o]) => Arrives(req'[o])
    BY <1>1 DEF Arrives
  <2>4. Awaited'
    <3> SUFFICES ASSUME ~raced, form.type = "session", NEW s \in Saved \ hurt,
                        row'[s].status = "submitted"
                 PROVE  \E o \in On(s, Saving)' : Arrives(req'[o])
      BY <1>2 DEF Awaited
    <3>1. \E o \in On(s, Saving) : Arrives(req[o])
      BY DEF IInv, World, Awaited, Saved
    <3>2. PICK o \in On(s, Saving) : Arrives(req[o])
      BY <3>1
    <3>3. o \in On(s, Saving)' /\ o \in Requests
      BY <1>1, <3>2 DEF On
    <3> QED BY <2>3, <3>2, <3>3
  <2>5. LimitHolds'
    <3>1. \A e : ByFormAndSpeaker(e)' = ByFormAndSpeaker(e)
      BY <1>2 DEF ByFormAndSpeaker
    <3> QED BY <3>1 DEF IInv, World, LimitHolds
  <2> QED BY <2>1, <2>2, <2>4, <2>5 DEF World
<1> QED BY <1>3, <1>4, <1>6 DEF IInv

LEMMA MoveWindowKeeps ==
  ASSUME IInv, MoveWindow
  PROVE  IInv'
<1>1. /\ moves' = moves + 1 /\ form' = [form EXCEPT !.open = ~@]
      /\ UNCHANGED <<accounts, row, link, tracked, bare, req, hurt, excused, raced, begun>>
  BY DEF MoveWindow
<1>2. form \in Form
  BY DEF IInv, TypeOK
<1>3. form' \in Form /\ form'.type = form.type /\ form'.limit = form.limit
  BY <1>1, <1>2 DEF Form
<1>4. TypeOK'
  BY <1>1, <1>3 DEF IInv, TypeOK
<1>5. \A o \in Requests : Noticed(o)
  BY <1>1 DEF Noticed
<1> QED BY <1>1, <1>3, <1>4, <1>5, BesideKeeps

LEMMA DecideKeeps ==
  ASSUME IInv, NEW p \in Rows, NEW verdict \in Decided, Decide(p, verdict)
  PROVE  IInv'
<1>1. /\ row[p].status \in {"submitted"} \cup Decided /\ moves' = moves + 1
      /\ row' = [row EXCEPT ![p].status = verdict] /\ req' = Stale(req, p)
      /\ UNCHANGED <<form, accounts, link, tracked, bare, hurt, excused, raced, begun>>
  BY DEF Decide
<1>2. row \in [Rows -> Row] /\ \A o \in Requests : req[o] \in Request
  BY DEF IInv, TypeOK
<1>3. /\ row' \in [Rows -> Row] /\ \A s \in Rows \ {p} : row'[s] = row[s]
      /\ row'[p].status = verdict /\ row'[p].type = row[p].type /\ row'[p].content = row[p].content
  <2>1. row[p] \in Row
    BY <1>2
  <2>2. PICK new : row' = [row EXCEPT ![p] = new] /\ new = [row[p] EXCEPT !.status = verdict]
    BY <1>1
  <2>3. /\ new \in Row /\ new.status = verdict /\ new.type = row[p].type
        /\ new.content = row[p].content
    BY <2>1, <2>2 DEF Row, Statuses
  <2> QED BY <1>2, <2>2, <2>3
<1>4. req' = [o \in Requests |-> IF req[o].id = p /\ row'[p].status # row[p].status
                               THEN Outdated(req[o]) ELSE req[o]]
  BY <1>1 DEF Stale, Outdated
<1>5. \A o \in Requests : req'[o] = IF req[o].id = p /\ row'[p].status # row[p].status
                                 THEN Outdated(req[o]) ELSE req[o]
  BY <1>4
<1>6. \A o \in Requests : req'[o] \in Request
  BY <1>2, <1>5, OutdatedRequest
<1>7. req' \in [Requests -> Request]
  BY <1>4, <1>6
<1>8. \A o \in Requests : Noticed(o)
  BY <1>5 DEF Noticed, Outdated
<1>9. ASSUME NEW o \in Requests, req[o].pc = "update", req'[o].fresh
      PROVE  row'[req[o].id].status = row[req[o].id].status
  <2>1. req[o].id \in Rows
    BY <1>9, Fields DEF Knows, Placed
  <2> QED BY <1>2, <1>3, <1>5, <1>9, <2>1, OutdatedRequest
<1>10. TypeOK'
  BY <1>1, <1>3, <1>7 DEF IInv, TypeOK
<1>11. \A s \in Rows :
         /\ row'[s].status \in {"none"} <=> row[s].status \in {"none"}
         /\ row'[s].status \in {"none", "draft"} <=> row[s].status \in {"none", "draft"}
         /\ row'[s].status = "submitted" => row[s].status = "submitted"
         /\ row'[s].type = row[s].type /\ row'[s].content = row[s].content
  <2> SUFFICES ASSUME NEW s \in Rows
               PROVE  /\ row'[s].status \in {"none"} <=> row[s].status \in {"none"}
                      /\ row'[s].status \in {"none", "draft"} <=> row[s].status \in {"none", "draft"}
                      /\ row'[s].status = "submitted" => row[s].status = "submitted"
                      /\ row'[s].type = row[s].type /\ row'[s].content = row[s].content
    OBVIOUS
  <2>1. CASE s = p
    BY <1>1, <1>3, <2>1 DEF Decided
  <2>2. CASE s # p
    BY <1>3, <2>2
  <2> QED BY <2>1, <2>2
<1> QED BY <1>1, <1>8, <1>9, <1>10, <1>11, BesideKeeps

LEMMA WriteFormKeeps ==
  ASSUME IInv, NEW r \in Requests, WriteForm(r)
  PROVE  IInv'
<1>1. /\ req[r].pc = "write" /\ Quit(r)
      /\ UNCHANGED <<accounts, row, link, tracked, bare, hurt, excused, begun, moves>>
      /\ \/ /\ form.exists /\ form' = [form EXCEPT !.type = Other(form.type)]
            /\ raced' = (raced \/ ~req[r].alone)
         \/ /\ form' = [form EXCEPT !.exists = @ /\ (req[r].kind = "retype" \/ Saved # {})]
            /\ raced' = raced
  BY DEF WriteForm, At
<1>2. req[r] \in Request /\ Knows(req[r], form, row, link, raced) /\ form \in Form
  BY Fields
<1>3. PICK q \in Request : q = Unasked
  BY UnaskedRequest
<1>4. q.pc = "idle" /\ q.kind = "submit"
  BY <1>3 DEF Unasked
<1>5. /\ req' \in [Requests -> Request] /\ req'[r] = q /\ Others(r)
      /\ \A o \in Requests \ {r} : req'[o] = req[o]
  BY <1>1, <1>3, SetRequest DEF IInv, Others, Noticed, Quit
<1>6. /\ form' \in Form /\ form'.limit = form.limit /\ raced' \in BOOLEAN /\ (raced => raced')
      /\ form'.type = form.type \/ raced' = (raced \/ ~req[r].alone)
  <2>1. Other(form.type) \in Types /\ raced \in BOOLEAN
    BY DEF Other, Types, IInv, TypeOK
  <2>2. CASE /\ form' = [form EXCEPT !.type = Other(form.type)]
             /\ raced' = (raced \/ ~req[r].alone)
    <3>1. form' \in Form /\ form'.limit = form.limit
      BY <1>2, <2>1, <2>2 DEF Form
    <3> QED BY <2>1, <2>2, <3>1
  <2>3. CASE /\ form' = [form EXCEPT !.exists = @ /\ (req[r].kind = "retype" \/ Saved # {})]
             /\ raced' = raced
    <3>1. PICK x \in BOOLEAN : form' = [form EXCEPT !.exists = x]
      BY <2>3
    <3>2. form' \in Form /\ form'.limit = form.limit /\ form'.type = form.type
      BY <1>2, <3>1 DEF Form
    <3> QED BY <2>1, <2>3, <3>2
  <2> QED BY <1>1, <2>2, <2>3
<1>7. form'.type = form.type \/ raced' \/ (Saved = {} /\ \A o \in Requests \ {r} : req[o].pc = "idle")
  <2> SUFFICES ASSUME ~raced', form'.type # form.type
               PROVE  Saved = {} /\ \A o \in Requests \ {r} : req[o].pc = "idle"
    OBVIOUS
  <2>1. req[r].alone
    BY <1>2, <1>6 DEF Request
  <2>2. Saved = {}
    BY <1>1, <1>2, <2>1 DEF Knows, Empty, Saved, Exists
  <2>3. \A o \in Requests \ {r} : req[o].pc = "idle"
    BY <1>1, <2>1 DEF IInv, Alone
  <2> QED BY <2>2, <2>3
<1>8. TypeOK'
  BY <1>1, <1>5, <1>6 DEF IInv, TypeOK
<1>9. Knows(q, form', row', link', raced')
  BY <1>4, KnowsIdle
<1>10. World'
  <2>1. Saved' = Saved
    BY <1>1 DEF Saved, Exists
  <2>2. \A s \in Rows : /\ On(s, Routing) # {} => On(s, Routing)' # {}
                        /\ On(s, Linking) # {} => On(s, Linking)' # {}
    BY <1>1, <1>5, OnKept DEF Routing, Linking, IInv
  <2>3. Tracked' /\ Named'
    BY <1>1, <2>1, <2>2 DEF IInv, World, Tracked, Named, Saved
  <2>4. OwnLinks' /\ LimitHolds'
    BY <1>1, <1>6, <2>1 DEF IInv, World, OwnLinks, LimitHolds, ByFormAndSpeaker, Exists
  <2>5. RowTypes'
    BY <1>1, <1>6, <1>7, <2>1 DEF IInv, World, RowTypes
  <2>6. Awaited'
    <3> SUFFICES ASSUME ~raced', form'.type = "session", NEW s \in Saved \ hurt,
                        row[s].status = "submitted"
                 PROVE  \E o \in On(s, Saving)' : Arrives(req'[o])
      BY <1>1, <2>1 DEF Awaited
    <3>1. form.type = "session" /\ ~raced
      BY <1>6, <1>7
    <3>2. \E o \in On(s, Saving) : Arrives(req[o])
      BY <3>1 DEF IInv, World, Awaited
    <3> QED BY <1>1, <1>5, <3>2, AwaitKept DEF IInv, Saving
  <2> QED BY <2>3, <2>4, <2>5, <2>6 DEF World
<1>11. form'.type = form.type \/ raced' \/ \A o \in Requests \ {r} : req[o].pc = "idle"
  BY <1>7
<1>12. /\ \A s \in Rows : Exists(s) => row'[s].status # "none"
       /\ req[r].pc # "idle" /\ row' = row
  BY <1>1 DEF Exists
<1> QED BY <1>4, <1>5, <1>6, <1>8, <1>9, <1>10, <1>11, <1>12, StepKeeps

LEMMA BeginKeeps ==
  ASSUME IInv, NEW r \in Requests, NEW t \in Request, t.pc = "form",
         t.kind \in {"finish", "redraft", "portal"} => t.id \in Rows,
         t.kind \in {"submit", "draft", "behalf"} => t.id = None,
         t.kind \notin OfForm => t.email \in Emails,
         Begin(r, t)
  PROVE  IInv'
<1>1. /\ req[r].pc = "idle" /\ begun' = begun + 1
      /\ req' = [k \in Requests |->
           IF k = r THEN [t EXCEPT !.alone = (Busy = {})]
           ELSE [req[k] EXCEPT !.alone = @ /\ At(k, "idle")]]
      /\ UNCHANGED <<form, accounts, row, link, tracked, bare, hurt, excused, raced, moves>>
  BY DEF Begin, stored, At
<1>2. \A o \in Requests : req[o] \in Request
  BY DEF IInv, TypeOK
<1>3. PICK x \in BOOLEAN : x = (Busy = {})
  OBVIOUS
<1>4. PICK q : q = [t EXCEPT !.alone = x]
  OBVIOUS
<1>5. /\ q \in Request /\ q.pc = "form" /\ q.kind = t.kind /\ q.id = t.id /\ q.email = t.email
      /\ q.alone = x
  BY <1>4 DEF Request
<1>6. req'[r] = q
  BY <1>1, <1>3, <1>4
<1>7. ASSUME NEW o \in Requests \ {r}
      PROVE  /\ req'[o] \in Request
             /\ req'[o].pc = req[o].pc /\ req'[o].kind = req[o].kind /\ req'[o].id = req[o].id
             /\ req'[o].email = req[o].email /\ req'[o].co = req[o].co
             /\ req'[o].content = req[o].content /\ req'[o].signed = req[o].signed
             /\ req'[o].type = req[o].type /\ req'[o].finishes = req[o].finishes
             /\ req'[o].sets = req[o].sets /\ req'[o].fresh = req[o].fresh
             /\ req'[o].alone => req[o].alone /\ req[o].pc = "idle"
  <2>1. PICK y : y = (req[o].alone /\ At(o, "idle"))
    OBVIOUS
  <2>2. y \in BOOLEAN /\ (y => req[o].alone /\ req[o].pc = "idle")
    BY <2>1 DEF At
  <2>3. req'[o] = [req[o] EXCEPT !.alone = y]
    BY <1>1, <2>1
  <2> QED BY <1>2, <2>2, <2>3 DEF Request
<1>8. req' \in [Requests -> Request]
  <2>1. \A o \in Requests : req'[o] \in Request
    BY <1>5, <1>6, <1>7
  <2> QED BY <1>1, <2>1
<1>9. TypeOK'
  BY <1>1, <1>8 DEF IInv, TypeOK
<1>10. Alone'
  <2>1. q.alone => \A o \in Requests : req[o].pc = "idle"
    BY <1>3, <1>5 DEF Busy, At
  <2> QED BY <1>6, <1>7, <2>1 DEF Alone
<1>11. Knows(q, form, row, link, raced)
  <2>1. Placed(q, row)
    BY <1>5 DEF Placed, OnForm, Saving
  <2>2. Typed(q, form, raced) /\ SetsDraft(q, row)
    BY <1>5 DEF Typed, SetsDraft, OnForm
  <2>3. Unrepeated(q, row, link) /\ Empty(q, row) /\ BelowCap(q, form, row, link)
    BY <1>5 DEF Unrepeated, Empty, BelowCap, Capped, Linking
  <2> QED BY <2>1, <2>2, <2>3 DEF Knows
<1>12. ASSUME NEW o \in Requests \ {r}
       PROVE  Knows(req'[o], form, row, link, raced)
  <2>1. Knows(req[o], form, row, link, raced)
    BY Fields
  <2>2. Placed(req'[o], row)
    BY <1>7, <2>1 DEF Knows, Placed
  <2>3. Typed(req'[o], form, raced) /\ SetsDraft(req'[o], row)
    BY <1>7, <2>1 DEF Knows, Typed, SetsDraft
  <2>4. req'[o].alone => /\ Unrepeated(req'[o], row, link) /\ Empty(req'[o], row)
                         /\ BelowCap(req'[o], form, row, link)
    BY <1>7 DEF Unrepeated, Empty, BelowCap, Capped, Linking
  <2> QED BY <2>2, <2>3, <2>4 DEF Knows
<1>13. World'
  <2>1. Saved' = Saved
    BY <1>1 DEF Saved, Exists
  <2>2. \A s : /\ On(s, Routing)' = On(s, Routing) /\ On(s, Linking)' = On(s, Linking)
               /\ On(s, Saving)' = On(s, Saving)
    BY <1>1, <1>5, <1>6, <1>7 DEF On, Routing, Linking, Saving
  <2>3. Tracked' /\ Named'
    BY <1>1, <2>1, <2>2 DEF IInv, World, Tracked, Named
  <2>4. OwnLinks' /\ LimitHolds' /\ RowTypes'
    BY <1>1, <2>1 DEF IInv, World, OwnLinks, LimitHolds, ByFormAndSpeaker, Exists, RowTypes
  <2>5. Awaited'
    <3> SUFFICES ASSUME ~raced, form.type = "session", NEW s \in Saved \ hurt,
                        row[s].status = "submitted"
                 PROVE  \E o \in On(s, Saving)' : Arrives(req'[o])
      BY <1>1, <2>1 DEF Awaited
    <3>1. PICK o \in On(s, Saving) : Arrives(req[o])
      BY DEF IInv, World, Awaited
    <3>2. o \in Requests \ {r}
      BY <1>1, <3>1 DEF On, Saving
    <3>3. Arrives(req'[o])
      BY <1>7, <3>1, <3>2 DEF Arrives
    <3>4. o \in On(s, Saving)'
      BY <1>7, <3>1, <3>2 DEF On
    <3> QED BY <3>3, <3>4
  <2> QED BY <2>3, <2>4, <2>5 DEF World
<1>14. \A o \in Requests : Knows(req'[o], form', row', link', raced')
  BY <1>1, <1>6, <1>11, <1>12
<1> QED BY <1>9, <1>10, <1>13, <1>14 DEF IInv

LEMMA AskedKeeps ==
  ASSUME IInv, NEW r \in Requests, Asked(r)
  PROVE  IInv'
<1>1. CoSpeakers \subseteq Emails \cup {None}
  BY DEF CoSpeakers
<1>2. ASSUME NEW e \in Emails, NEW co \in CoSpeakers, NEW c \in Contents, NEW signed \in Emails \cup {None},
             SubmitProposal(r, e, co, c, signed)
      PROVE  IInv'
  <2>1. PICK t : t = [Ask("submit", e, co, c) EXCEPT !.signed = signed]
    OBVIOUS
  <2>2. t \in Request /\ t.pc = "form" /\ t.kind = "submit" /\ t.id = None /\ t.email = e
    BY <1>1, <1>2, <2>1, UnaskedRequest DEF Ask, Unasked, Request, Kinds, Public
  <2>3. Begin(r, t)
    BY <1>2, <2>1 DEF SubmitProposal
  <2> QED BY <1>2, <2>2, <2>3, BeginKeeps DEF OfForm
<1>3. ASSUME NEW e \in Emails, NEW co \in CoSpeakers, NEW c \in Contents,
             SaveDraft(r, e, co, c)
      PROVE  IInv'
  <2>1. PICK t : t = Ask("draft", e, co, c)
    OBVIOUS
  <2>2. t \in Request /\ t.pc = "form" /\ t.kind = "draft" /\ t.id = None /\ t.email = e
    BY <1>1, <1>3, <2>1, UnaskedRequest DEF Ask, Unasked, Request, Kinds, Public
  <2>3. Begin(r, t)
    BY <1>3, <2>1 DEF SaveDraft
  <2> QED BY <1>3, <2>2, <2>3, BeginKeeps DEF OfForm
<1>4. ASSUME NEW e \in Emails, NEW co \in CoSpeakers, NEW c \in Contents,
             CreateOnBehalf(r, e, co, c)
      PROVE  IInv'
  <2>1. PICK t : t = Ask("behalf", e, co, c)
    OBVIOUS
  <2>2. t \in Request /\ t.pc = "form" /\ t.kind = "behalf" /\ t.id = None /\ t.email = e
    BY <1>1, <1>4, <2>1, UnaskedRequest DEF Ask, Unasked, Request, Kinds, Public
  <2>3. Begin(r, t)
    BY <1>4, <2>1 DEF CreateOnBehalf
  <2> QED BY <1>4, <2>2, <2>3, BeginKeeps DEF OfForm
<1>5. ASSUME NEW e \in Emails, NEW co \in CoSpeakers, NEW c \in Contents,
             NEW p \in Rows, NEW kind \in Kinds,
             Resume(r, kind, p, e, co, c)
      PROVE  IInv'
  <2>1. PICK t : t = [Ask(kind, e, co, c) EXCEPT !.id = p]
    OBVIOUS
  <2>2. t \in Request /\ t.pc = "form" /\ t.kind = kind /\ t.id = p /\ t.email = e
    BY <1>1, <1>5, <2>1, UnaskedRequest, ZenonT(60) DEF Ask, Unasked, Request, Kinds, Public
  <2>3. Begin(r, t)
    BY <1>5, <2>1 DEF Resume
  <2> QED BY <1>5, <2>2, <2>3, BeginKeeps DEF OfForm, Resume
<1>6. ASSUME NEW e \in Emails, NEW co \in CoSpeakers, NEW c \in Contents,
             NEW p \in Rows, NEW signed \in Emails,
             UpdateOwnSubmission(r, p, e, co, c, signed)
      PROVE  IInv'
  <2>1. PICK t : t = [Ask("portal", e, co, c) EXCEPT !.id = p, !.signed = signed]
    OBVIOUS
  <2>2. t \in Request /\ t.pc = "form" /\ t.kind = "portal" /\ t.id = p /\ t.email = e
    BY <1>1, <1>6, <2>1, UnaskedRequest, ZenonT(60) DEF Ask, Unasked, Request, Kinds, Public
  <2>3. Begin(r, t)
    BY <1>6, <2>1 DEF UpdateOwnSubmission
  <2> QED BY <1>6, <2>2, <2>3, BeginKeeps DEF OfForm
<1>7. CASE SaveForm(r)
  <2>1. PICK t : t = Ask("retype", None, None, None)
    OBVIOUS
  <2>2. t \in Request /\ t.pc = "form" /\ t.kind = "retype"
    BY <2>1, UnaskedRequest DEF Ask, Unasked, Request, Kinds, Public
  <2>3. Begin(r, t)
    BY <1>7, <2>1 DEF SaveForm
  <2> QED BY <2>2, <2>3, BeginKeeps DEF OfForm
<1>8. CASE DeleteForm(r)
  <2>1. PICK t : t = Ask("delete", None, None, None)
    OBVIOUS
  <2>2. t \in Request /\ t.pc = "form" /\ t.kind = "delete"
    BY <2>1, UnaskedRequest DEF Ask, Unasked, Request, Kinds, Public
  <2>3. Begin(r, t)
    BY <1>8, <2>1 DEF DeleteForm
  <2> QED BY <2>2, <2>3, BeginKeeps DEF OfForm
<1> QED BY <1>2, <1>3, <1>4, <1>5, <1>6, <1>7, <1>8 DEF Asked

----------------------------------------------------------------------------
(* The invariant is one *)

LEMMA InitKeeps ==
  ASSUME Init
  PROVE  IInv
<1>1. PICK f \in Forms :
        form = [exists |-> TRUE, open |-> TRUE, type |-> f.type, limit |-> f.limit]
  BY DEF Init
<1>2. f.type \in Types /\ f.limit \in Nat
  BY IntakeConstants DEF Types
<1>3. form \in Form /\ form.limit \in Nat /\ form.type \in Types
  BY <1>1, <1>2 DEF Form
<1>4. /\ req = [r \in Requests |-> Unasked] /\ hurt = {} /\ excused = {} /\ raced = FALSE
      /\ begun = 0 /\ moves = 0
  BY DEF Init
<1>5. /\ req \in [Requests -> Request]
      /\ \A r \in Requests : req[r].pc = "idle" /\ req[r].kind = "submit"
  BY <1>4, UnaskedRequest DEF Unasked
<1>6. Alone /\ \A r \in Requests : Knows(req[r], form, row, link, raced)
  BY <1>5, KnowsIdle DEF Alone
<1>7. NoRow \in Row /\ NoRow.status = "none"
  BY DEF NoRow, Row, Statuses, Types
<1>8. CASE /\ accounts = {} /\ tracked = {} /\ bare = {}
           /\ row = [p \in Rows |-> NoRow]
           /\ link = [p \in Rows |-> [e \in Emails |-> "none"]]
  <2>1. row \in [Rows -> Row] /\ \A p \in Rows : row[p].status = "none"
    BY <1>7, <1>8
  <2>2. TypeOK
    BY <1>3, <1>4, <1>5, <1>8, <2>1 DEF TypeOK
  <2>3. Saved = {} /\ \A e : ByFormAndSpeaker(e) = {}
    BY <2>1 DEF Saved, Exists, ByFormAndSpeaker
  <2>4. LimitHolds
    BY <1>3, <2>3, FS_EmptySet DEF LimitHolds
  <2>5. World
    BY <1>8, <2>3, <2>4 DEF World, Tracked, Named, OwnLinks, RowTypes, Awaited, Exists
  <2> QED BY <1>6, <2>2, <2>5 DEF IInv
<1>9. ASSUME NEW d \in Rows, NEW author \in Emails, NEW c \in Contents,
             accounts = {author}, tracked \in {{}, {d}}, bare = {d} \ tracked,
             row = [p \in Rows |->
                      IF p = d THEN [status |-> "draft", content |-> c, token |-> TRUE,
                                     type |-> form.type]
                      ELSE NoRow],
             link = [p \in Rows |-> [e \in Emails |->
                      IF p = d /\ e = author THEN "primary" ELSE "none"]]
      PROVE  IInv
  <2>1. PICK new : new = [status |-> "draft", content |-> c, token |-> TRUE, type |-> form.type]
    OBVIOUS
  <2>2. new \in Row /\ new.status = "draft" /\ new.type = form.type
    BY <1>3, <2>1 DEF Row, Statuses
  <2>3. row \in [Rows -> Row] /\ row[d] = new /\ \A p \in Rows \ {d} : row[p] = NoRow
    BY <1>7, <1>9, <2>1, <2>2
  <2>4. /\ link \in [Rows -> [Emails -> {"none", "primary", "co"}]]
        /\ link[d][author] = "primary"
        /\ \A p \in Rows, e \in Emails : link[p][e] # "none" => p = d /\ e = author
    BY <1>9
  <2>5. TypeOK
    BY <1>3, <1>4, <1>5, <1>9, <2>3, <2>4 DEF TypeOK
  <2>6. Saved = {d}
    BY <1>7, <2>2, <2>3 DEF Saved, Exists
  <2>7. ASSUME form.limit # 0, NEW e \in Emails
        PROVE  Cardinality(ByFormAndSpeaker(e)) <= form.limit
    <3>1. ByFormAndSpeaker(e) \in SUBSET {d}
      BY <2>6 DEF ByFormAndSpeaker
    <3>2. IsFiniteSet({d}) /\ Cardinality({d}) = 1
      BY FS_Singleton
    <3>3. Cardinality({d}) <= form.limit
      BY <1>3, <2>7, <3>2
    <3> QED BY <1>3, <3>1, <3>2, <3>3, Fewer
  <2>8. World
    <3>1. Tracked /\ Named
      BY <1>9, <2>4, <2>6 DEF Tracked, Named
    <3>2. OwnLinks
      BY <2>2, <2>3, <2>4 DEF OwnLinks, Exists
    <3>3. RowTypes /\ Awaited
      BY <2>2, <2>3, <2>6 DEF RowTypes, Awaited
    <3>4. LimitHolds
      BY <2>7 DEF LimitHolds
    <3> QED BY <3>1, <3>2, <3>3, <3>4 DEF World
  <2> QED BY <1>6, <2>5, <2>8 DEF IInv
<1> QED BY <1>8, <1>9 DEF Init

LEMMA NextKeeps == IInv /\ [Next]_intakeVars => IInv'
<1> SUFFICES ASSUME IInv, [Next]_intakeVars
             PROVE  IInv'
  OBVIOUS
<1>1. CASE MoveWindow
  BY <1>1, MoveWindowKeeps
<1>2. ASSUME NEW p \in Rows, NEW verdict \in Decided, Decide(p, verdict)
      PROVE  IInv'
  BY <1>2, DecideKeeps
<1>3. ASSUME NEW r \in Requests, Asked(r)
      PROVE  IInv'
  BY <1>3, AskedKeeps
<1>4. ASSUME NEW r \in Requests, Step(r)
      PROVE  IInv'
  <2>1. CASE ReadForm(r) \/ DraftIdFromToken(r) \/ LimitRefusal(r)
    BY <2>1, ReadFormKeeps, DraftIdFromTokenKeeps, LimitRefusalKeeps
  <2>2. CASE FindPrimary(r) \/ CreatePrimary(r)
    BY <2>2, PrimaryKeeps
  <2>3. CASE Guard(r) \/ ReadExisting(r) \/ Update(r)
    BY <2>3, GuardKeeps, ReadExistingKeeps, UpdateKeeps
  <2>4. ASSUME NEW p \in Rows, Create(r, p)
        PROVE  IInv'
    BY <2>4, CreateKeeps
  <2>5. CASE InsertTracks(r) \/ \E picks \in BOOLEAN : ClearTracks(r, picks)
    BY <2>5, TracksKeep
  <2>6. CASE FindCoSpeaker(r) \/ CreateCoSpeaker(r)
    BY <2>6, CoSpeakerKeeps
  <2>7. ASSUME NEW e \in Emails, RemoveSpeaker(r, e)
        PROVE  IInv'
    BY <2>7, RemoveSpeakerKeeps
  <2>8. CASE ListLinks(r) \/ AddPrimary(r) \/ AddCoSpeaker(r)
    BY <2>8, ListLinksKeeps, AddPrimaryKeeps, AddCoSpeakerKeeps
  <2>9. CASE AcceptOnArrival(r) \/ Count(r) \/ WriteForm(r)
    BY <2>9, AcceptKeeps, CountKeeps, WriteFormKeeps
  <2> QED BY <1>4, <2>1, <2>2, <2>3, <2>4, <2>5, <2>6, <2>7, <2>8, <2>9 DEF Step
<1>5. ASSUME NEW r \in Requests, Fail(r)
      PROVE  IInv'
  BY <1>5, FailKeeps
<1>6. CASE UNCHANGED intakeVars
  <2>1. /\ form' = form /\ accounts' = accounts /\ row' = row /\ link' = link
        /\ tracked' = tracked /\ bare' = bare /\ req' = req /\ hurt' = hurt /\ excused' = excused
        /\ raced' = raced /\ begun' = begun /\ moves' = moves
    BY <1>6 DEF intakeVars
  <2>2. TypeOK' /\ \A o \in Requests : Noticed(o)
    BY <2>1 DEF IInv, TypeOK, Noticed
  <2> QED BY <2>1, <2>2, BesideKeeps
<1> QED BY <1>1, <1>2, <1>3, <1>4, <1>5, <1>6 DEF Next

LEMMA AlwaysIInv == Spec => []IInv
<1>1. Init => IInv
  BY InitKeeps
<1>2. IInv /\ [Next]_intakeVars => IInv'
  BY NextKeeps
<1> QED BY <1>1, <1>2, PTL DEF Spec

----------------------------------------------------------------------------
(* What holds *)

(* Whatever requests come in, in whatever order their statements run and    *)
(* wherever one breaks off, every variable keeps its type.                  *)
THEOREM TypeCorrect == Spec => []TypeOK
<1>1. IInv => TypeOK
  BY DEF IInv
<1> QED BY <1>1, AlwaysIInv, PTL

(* However many saves of a proposal overlap, it keeps a speaker, and it has *)
(* tracks unless the last save to set any set none, or one broke off:       *)
(* wherever one of the two is missing a save is under way that writes it    *)
(* (syncSpeakers, setTracks).                                               *)
THEOREM ProposalsStayReachable == Spec => []StaysReachable
<1>1. IInv => StaysReachable
  <2> SUFFICES ASSUME IInv, NEW p \in Saved \ hurt, \A r \in Busy : req[r].id # p
               PROVE  (p \in tracked \/ p \in bare) /\ \E e \in Emails : link[p][e] # "none"
    BY DEF StaysReachable
  <2>1. On(p, Routing) = {} /\ On(p, Linking) = {}
    BY DEF On, Busy, At, Routing, Linking
  <2> QED BY <2>1 DEF IInv, World, Tracked, Named
<1> QED BY <1>1, AlwaysIInv, PTL

(* Nobody is past the cap but for an overlap, an organizer or an edit in    *)
(* the portal; and when all requests have ended nothing that was sent to a  *)
(* session-type form waits for a review that form does not have             *)
(* (limitRefusal, acceptOnArrival, saveForm).                               *)
THEOREM IntakeAlwaysHolds == Spec => []IntakeHolds
<1>1. IInv => IntakeHolds
  <2> SUFFICES ASSUME IInv
               PROVE  LimitHolds /\ NothingWaitsUnreviewed
    BY DEF IntakeHolds
  <2>1. LimitHolds
    BY DEF IInv, World
  <2>2. ASSUME Busy = {}, ~raced
        PROVE  /\ \A p \in Saved : row[p].type = form.type
               /\ form.type = "session" => \A p \in Saved \ hurt : row[p].status # "submitted"
    <3>1. \A p \in Saved : row[p].type = form.type
      BY <2>2 DEF IInv, World, RowTypes
    <3>2. \A p : On(p, Saving) = {}
      BY <2>2 DEF On, Busy, At, Saving
    <3> QED BY <2>2, <3>1, <3>2 DEF IInv, World, Awaited
  <2> QED BY <2>1, <2>2 DEF NothingWaitsUnreviewed
<1> QED BY <1>1, AlwaysIInv, PTL

(* The two action properties, as what one step does *)
Repeats ==
  \A r \in Requests :
    LET q == req[r] IN
    At(r, "create") /\ req'[r].pc = "tracks" /\ q.alone
      /\ q.kind = "submit" /\ q.signed = q.email =>
    \A p \in Rows :
      link[p][q.email] = "primary" /\ row[p].status \in {"submitted"} \cup Decided
        => row[p].content # q.content
TakesBack ==
  \A p \in Rows :
    row[p].status \in {"submitted"} \cup Decided
      /\ row'[p].status \in {"draft", "submitted"} \ {row[p].status} =>
    \E r \in Requests : At(r, "update") /\ req[r].id = p /\ ~req[r].fresh

LEMMA NothingRepeated ==
  ASSUME IInv
  PROVE  Repeats
<1> SUFFICES ASSUME NEW r \in Requests, req[r].pc = "create", req[r].alone,
                    req[r].kind = "submit", req[r].signed = req[r].email, NEW p \in Rows,
                    link[p][req[r].email] = "primary",
                    row[p].status \in {"submitted"} \cup Decided
             PROVE  row[p].content # req[r].content
  BY DEF Repeats, At
<1>1. Unrepeated(req[r], row, link)
  BY Fields DEF Knows
<1>2. row[p].status \notin {"none", "draft"} /\ p \in Primaries(req[r].email, row, link)
  BY DEF Decided, Primaries
<1> QED BY <1>1, <1>2 DEF Unrepeated

LEMMA TakenBackUnread ==
  ASSUME IInv, [Next]_intakeVars
  PROVE  TakesBack
<1> SUFFICES ASSUME NEW p \in Rows, row[p].status \in {"submitted"} \cup Decided,
                    row'[p].status \in {"draft", "submitted"}, row'[p].status # row[p].status
             PROVE  \E r \in Requests : At(r, "update") /\ req[r].id = p /\ ~req[r].fresh
  BY DEF TakesBack
<1>1. row \in [Rows -> Row] /\ row' # row
  BY DEF IInv, TypeOK
<1>2. ASSUME NEW s \in Rows, NEW verdict \in Decided, Decide(s, verdict)
      PROVE  FALSE
  <2>1. row'[p] = row[p] \/ row'[p].status = verdict
    BY <1>1, <1>2 DEF Decide, Row
  <2> QED BY <2>1 DEF Decided
<1>3. ASSUME NEW r \in Requests, NEW s \in Rows, Create(r, s)
      PROVE  FALSE
  <2>1. s # p
    BY <1>3 DEF Create, Exists, Decided
  <2>2. row'[p] = row[p]
    BY <1>1, <1>3, <2>1 DEF Create
  <2> QED BY <2>2
<1>4. ASSUME NEW r \in Requests, AcceptOnArrival(r)
      PROVE  FALSE
  <2>1. row' = [row EXCEPT ![req[r].id].status = "approved"]
    BY <1>1, <1>4 DEF AcceptOnArrival
  <2>2. row'[p] = row[p] \/ row'[p].status = "approved"
    BY <1>1, <2>1 DEF Row
  <2> QED BY <2>2
<1>5. ASSUME NEW r \in Requests, Update(r)
      PROVE  At(r, "update") /\ req[r].id = p /\ ~req[r].fresh
  <2>1. /\ req[r].pc = "update" /\ Knows(req[r], form, row, link, raced)
        /\ row' = [row EXCEPT ![req[r].id] =
                     [row[req[r].id] EXCEPT !.content = req[r].content,
                               !.status = IF req[r].sets = "none" THEN @ ELSE req[r].sets,
                               !.token = @ \/ req[r].sets # "none"]]
    BY <1>5, Fields DEF Update, At
  <2>2. req[r].id = p
    BY <1>1, <2>1
  <2>3. req[r].sets # "none"
    <3> SUFFICES ASSUME req[r].sets = "none"
                 PROVE  FALSE
      OBVIOUS
    <3>1. row[p] \in Row
      BY <1>1
    <3>2. row'[p].status = row[p].status
      BY <1>1, <2>1, <2>2, <3>1 DEF Row
    <3> QED BY <3>2
  <2>4. ~req[r].fresh
    BY <2>1, <2>2, <2>3 DEF Knows, SetsDraft, Decided
  <2> QED BY <2>1, <2>2, <2>4 DEF At
<1>6. CASE MoveWindow \/ UNCHANGED intakeVars
  BY <1>1, <1>6 DEF MoveWindow, intakeVars
<1>7. ASSUME NEW r \in Requests, Asked(r) \/ Fail(r)
      PROVE  FALSE
  <2>1. \A t : Begin(r, t) => row' = row
    BY DEF Begin, stored
  <2>2. Fail(r) => row' = row
    BY DEF Fail, stored
  <2>3. Asked(r) => \E t : Begin(r, t)
    BY ZenonT(60) DEF Asked, SubmitProposal, SaveDraft, CreateOnBehalf, Resume, UpdateOwnSubmission,
           SaveForm, DeleteForm
  <2> QED BY <1>1, <1>7, <2>1, <2>2, <2>3
<1>8. ASSUME NEW r \in Requests, Step(r), ~Update(r)
      PROVE  FALSE
  <2>1. \/ ReadForm(r) \/ DraftIdFromToken(r) \/ LimitRefusal(r)
        \/ FindPrimary(r) \/ CreatePrimary(r) \/ Guard(r) \/ ReadExisting(r)
        \/ InsertTracks(r) \/ (\E picks \in BOOLEAN : ClearTracks(r, picks)) \/ FindCoSpeaker(r) \/ CreateCoSpeaker(r)
        \/ ListLinks(r) \/ (\E e \in Emails : RemoveSpeaker(r, e))
        \/ AddPrimary(r) \/ AddCoSpeaker(r) \/ Count(r) \/ WriteForm(r)
    BY <1>3, <1>4, <1>8 DEF Step
  <2>2. row' = row
    BY <2>1 DEF ReadForm, DraftIdFromToken, LimitRefusal, FindPrimary, Find, CreatePrimary, Insert,
                Guard, ReadExisting, ClearTracks, InsertTracks, FindCoSpeaker, CreateCoSpeaker,
                ListLinks, RemoveSpeaker, AddPrimary, AddCoSpeaker, Count, WriteForm, stored
  <2> QED BY <1>1, <2>2
<1> QED BY <1>2, <1>5, <1>6, <1>7, <1>8 DEF Next

(* A signed-in speaker's repeat of what is with the organizers is never     *)
(* inserted by a request that ran alone, and what was sent goes back to     *)
(* draft, or from decided to sent, only by an edit whose reading of its     *)
(* status is old (saveSubmission).                                          *)
THEOREM RequestsAlwaysHold == Spec => RequestsHold
<1>1. IInv /\ [Next]_intakeVars => [Repeats]_intakeVars /\ [TakesBack]_intakeVars
  BY NothingRepeated, TakenBackUnread
<1>2. Spec => [][Repeats]_intakeVars /\ [][TakesBack]_intakeVars
  BY <1>1, AlwaysIInv, PTL DEF Spec
<1> QED BY <1>2 DEF RequestsHold, RepeatsRefused, SentStaysSent, Repeats, TakesBack

----------------------------------------------------------------------------
(* The sourcing pipeline: the card of one contact and its history *)

Events == 1..Len(trail)
Reached == IF trail = <<>> THEN None ELSE trail[Len(trail)].to

(* What a request under way knows ...                                       *)
Handled ==
  \A r \in Hands :
    LET h == hand[r] IN
    /\ h.pc # "idle" => h.to \in Stages
    /\ h.pc \in {"find", "update", "record"} => card # None
    /\ h.pc = "update" => h.from \in Stages
    /\ h.pc \in {"update", "record"} => h.from # h.to

(* ... that an enrolment under way is the only one there will be, and that  *)
(* until then there is no history ...                                       *)
Enrolls(r) == hand[r].pc = "record" /\ hand[r].from = None
Enrolled ==
  /\ card = None => trail = <<>>
  /\ \A r, o \in Hands : Enrolls(r) /\ Enrolls(o) => r = o
  /\ \A r \in Hands : Enrolls(r) => \A i \in Events : trail[i].from # None
  /\ \A i, j \in Events : trail[i].from = None /\ trail[j].from = None => i = j

(* ... that the stage of the card has its event, or is about to have it ... *)
Explained ==
  drops = 0 /\ card # None =>
    \/ \E i \in Events : trail[i].to = card
    \/ \E r \in Hands : hand[r].pc = "record" /\ hand[r].to = card

(* ... and, where requests come one after the other, that it continues the  *)
(* walk so far.                                                             *)
Continues(r) ==
  LET h == hand[r] IN
  /\ h.pc = "record" => h.from = Reached /\ h.to = card
  /\ h.pc # "record" => card = Reached
  /\ h.pc = "update" => h.from = card
Walked ==
  ~muddled =>
    /\ \A r, o \in Sourcing!Busy : r = o
    /\ \A r \in Sourcing!Busy : Continues(r)
    /\ Sourcing!Busy = {} => card = Reached
    /\ \A i \in Events : trail[i].from = IF i = 1 THEN None ELSE trail[i - 1].to

CardInv ==
  /\ Sourcing!TypeOK /\ Handled /\ Enrolled /\ Explained /\ Walked
  /\ \A i \in Events : trail[i].from # trail[i].to

LEMMA CardInit == ASSUME None \notin Stages, Sourcing!Init PROVE CardInv
<1>1. \A r \in Hands : hand[r] = Sourcing!Empty
  BY DEF Sourcing!Init
<1>2. Sourcing!Empty \in Sourcing!Hand /\ Sourcing!Empty.pc = "idle"
  BY DEF Sourcing!Empty, Sourcing!Hand
<1>3. Sourcing!TypeOK
  <2>1. <<>> \in Seq(Sourcing!Move)
    OBVIOUS
  <2> QED BY <1>1, <1>2, <2>1 DEF Sourcing!Init, Sourcing!TypeOK
<1>4. Events = {} /\ Reached = None /\ card = None
  BY DEF Sourcing!Init, Events, Reached
<1>5. Sourcing!Busy = {}
  BY <1>1, <1>2 DEF Sourcing!Busy, Sourcing!At
<1> QED BY <1>1, <1>2, <1>3, <1>4, <1>5
  DEF CardInv, Handled, Enrolled, Enrolls, Explained, Walked, Sourcing!Init

(* The state of the request that steps *)
LEMMA HandStep ==
  ASSUME CardInv, NEW r \in Hands, NEW h \in Sourcing!Hand, Sourcing!Set(r, h)
  PROVE  /\ hand' \in [Hands -> Sourcing!Hand]
         /\ hand'[r] = h /\ \A o \in Hands \ {r} : hand'[o] = hand[o]
         /\ Sourcing!Busy' = IF h.pc = "idle" THEN Sourcing!Busy \ {r} ELSE Sourcing!Busy \cup {r}
  BY DEF CardInv, Sourcing!TypeOK, Sourcing!Set, Sourcing!Busy, Sourcing!At

(* A step that leaves card and history alone *)
LEMMA HandKeeps ==
  ASSUME None \notin Stages, CardInv, NEW r \in Hands, NEW h \in Sourcing!Hand, Sourcing!Set(r, h),
         UNCHANGED <<card, trail, drops>>, muddled' \in BOOLEAN, grabs' \in Nat,
         ~muddled' => ~muddled /\ (hand[r].pc = "idle" => Sourcing!Busy = {}),
         hand[r].pc # "record", h.pc # "record",
         h.pc # "idle" => h.to \in Stages,
         h.pc \in {"find", "update"} => card # None,
         h.pc = "update" => h.from = card /\ h.from # h.to
  PROVE  CardInv'
<1>1. /\ hand' \in [Hands -> Sourcing!Hand]
      /\ hand'[r] = h /\ \A o \in Hands \ {r} : hand'[o] = hand[o]
      /\ Sourcing!Busy' = IF h.pc = "idle" THEN Sourcing!Busy \ {r} ELSE Sourcing!Busy \cup {r}
  BY HandStep
<1>2. Events' = Events /\ Reached' = Reached
  BY DEF Events, Reached
<1>3. Sourcing!TypeOK' /\ card \in Stages \cup {None}
  BY <1>1 DEF CardInv, Sourcing!TypeOK
<1>4. Handled'
  BY <1>1, <1>3 DEF CardInv, Handled
<1>5. \A o \in Hands : Enrolls(o)' = Enrolls(o)
  BY <1>1 DEF Enrolls
<1>6. Enrolled'
  BY <1>2, <1>5 DEF CardInv, Enrolled
<1>7. Explained'
  BY <1>1, <1>2 DEF CardInv, Explained
<1>8. Walked'
  <2> SUFFICES ASSUME ~muddled'
               PROVE  /\ \A o, q \in Sourcing!Busy' : o = q
                      /\ \A o \in Sourcing!Busy' : Continues(o)'
                      /\ Sourcing!Busy' = {} => card = Reached
                      /\ \A i \in Events : trail[i].from = IF i = 1 THEN None ELSE trail[i - 1].to
    BY <1>2 DEF Walked
  <2>1. ~muddled /\ Sourcing!Busy \subseteq {r}
    <3>1. hand[r].pc # "idle" => r \in Sourcing!Busy
      BY DEF Sourcing!Busy, Sourcing!At
    <3>2. ~muddled
      OBVIOUS
    <3>3. \A o, q \in Sourcing!Busy : o = q
      BY <3>2 DEF CardInv, Walked
    <3> QED BY <3>1, <3>2, <3>3
  <2>2. card = Reached
    BY <2>1 DEF CardInv, Walked, Continues
  <2>3. \A o \in Sourcing!Busy' : o = r
    BY <1>1, <2>1
  <2>4. Continues(r)'
    BY <1>1, <1>2, <2>2 DEF Continues
  <2> QED BY <2>1, <2>2, <2>3, <2>4 DEF CardInv, Walked
<1> QED BY <1>2, <1>3, <1>4, <1>6, <1>7, <1>8 DEF CardInv

LEMMA BeginCard ==
  ASSUME None \notin Stages, CardInv, NEW r \in Hands, NEW pc \in {"check", "find"}, NEW stage \in Stages,
         pc = "find" => card # None, Sourcing!Begin(r, pc, stage)
  PROVE  CardInv'
<1> DEFINE h == [pc |-> pc, from |-> None, to |-> stage]
<1>1. h \in Sourcing!Hand /\ h.pc = pc /\ h.to = stage
  BY DEF Sourcing!Hand
<1>2. Sourcing!Set(r, h) /\ UNCHANGED <<card, trail, drops>> /\ hand[r].pc = "idle"
  BY DEF Sourcing!Begin, Sourcing!At
<1>3. grabs' \in Nat
  BY DEF Sourcing!Begin, CardInv, Sourcing!TypeOK
<1>4. muddled' \in BOOLEAN /\ (~muddled' => ~muddled /\ Sourcing!Busy = {})
  <2>1. muddled' = (muddled \/ Sourcing!Busy # {})
    BY DEF Sourcing!Begin
  <2> QED BY <2>1
<1> HIDE DEF h
<1> QED BY <1>1, <1>2, <1>3, <1>4, HandKeeps

LEMMA EmptyHand == Sourcing!Empty \in Sourcing!Hand /\ Sourcing!Empty.pc = "idle"
  BY DEF Sourcing!Empty, Sourcing!Hand

LEMMA CheckCard ==
  ASSUME None \notin Stages, CardInv, NEW r \in Hands, Sourcing!GetCardByUser(r)
  PROVE  CardInv'
<1> DEFINE h == IF card = None THEN [hand[r] EXCEPT !.pc = "insert"] ELSE Sourcing!Empty
<1>1. hand[r].pc = "check" /\ hand[r] \in Sourcing!Hand /\ hand[r].to \in Stages
  BY DEF Sourcing!GetCardByUser, Sourcing!At, CardInv, Sourcing!TypeOK, Handled
<1>2. h \in Sourcing!Hand /\ h.pc \in {"insert", "idle"} /\ (h.pc # "idle" => h.to \in Stages)
  BY <1>1, EmptyHand DEF Sourcing!Hand
<1>3. Sourcing!Set(r, h) /\ UNCHANGED <<card, trail, drops, muddled, grabs>>
  BY DEF Sourcing!GetCardByUser, Sourcing!Let, Sourcing!history
<1> HIDE DEF h
<1>4. muddled' \in BOOLEAN /\ grabs' \in Nat /\ (~muddled' => ~muddled)
  BY <1>3 DEF CardInv, Sourcing!TypeOK
<1> QED BY <1>1, <1>2, <1>3, <1>4, HandKeeps

LEMMA PlanCard ==
  ASSUME None \notin Stages, CardInv, NEW r \in Hands, Sourcing!PlanStageMove(r)
  PROVE  CardInv'
<1> DEFINE h == IF card # hand[r].to THEN [hand[r] EXCEPT !.pc = "update", !.from = card]
                ELSE Sourcing!Empty
<1>1. /\ hand[r].pc = "find" /\ hand[r] \in Sourcing!Hand /\ hand[r].to \in Stages
      /\ card \in Stages
  BY DEF Sourcing!PlanStageMove, Sourcing!At, CardInv, Sourcing!TypeOK, Handled
<1>2. /\ h \in Sourcing!Hand /\ h.pc \in {"update", "idle"} /\ (h.pc # "idle" => h.to \in Stages)
      /\ h.pc = "update" => h.from = card /\ h.from # h.to
  BY <1>1, EmptyHand DEF Sourcing!Hand
<1>3. Sourcing!Set(r, h) /\ UNCHANGED <<card, trail, drops, muddled, grabs>>
  BY DEF Sourcing!PlanStageMove, Sourcing!Moves, Sourcing!Let, Sourcing!history
<1> HIDE DEF h
<1>4. muddled' \in BOOLEAN /\ grabs' \in Nat /\ (~muddled' => ~muddled) /\ card # None
  BY <1>1, <1>3 DEF CardInv, Sourcing!TypeOK
<1> QED BY <1>1, <1>2, <1>3, <1>4, HandKeeps


(* A request that writes the card and is about to record it *)
LEMMA WriteCard ==
  ASSUME None \notin Stages, CardInv, NEW r \in Hands, NEW h \in Sourcing!Hand, Sourcing!Set(r, h),
         hand[r].pc \in {"insert", "update"}, h.pc = "record", h.to \in Stages, h.from # h.to,
         h.from = None => card = None, ~muddled => h.from = card,
         card' = h.to, UNCHANGED <<trail, muddled, grabs, drops>>
  PROVE  CardInv'
<1>1. /\ hand' \in [Hands -> Sourcing!Hand]
      /\ hand'[r] = h /\ \A o \in Hands \ {r} : hand'[o] = hand[o]
      /\ Sourcing!Busy' = Sourcing!Busy \cup {r}
  BY HandStep
<1>2. Events' = Events /\ Reached' = Reached
  BY DEF Events, Reached
<1>3. Sourcing!TypeOK' /\ card' # None
  BY <1>1 DEF CardInv, Sourcing!TypeOK
<1>4. Handled'
  BY <1>1, <1>3 DEF CardInv, Handled
<1>5. Enrolled'
  <2>1. \A o \in Hands : Enrolls(o)' <=> IF o = r THEN h.from = None ELSE Enrolls(o)
    BY <1>1 DEF Enrolls
  <2>2. h.from = None => trail = <<>> /\ \A o \in Hands : ~Enrolls(o)
    BY DEF CardInv, Enrolled, Enrolls, Handled
  <2>3. trail = <<>> => Events = {}
    BY DEF Events
  <2> QED BY <1>2, <1>3, <2>1, <2>2, <2>3 DEF CardInv, Enrolled
<1>6. Explained'
  BY <1>1 DEF Explained
<1>7. Walked'
  <2> SUFFICES ASSUME ~muddled
               PROVE  /\ \A o, q \in Sourcing!Busy' : o = q
                      /\ \A o \in Sourcing!Busy' : Continues(o)'
                      /\ Sourcing!Busy' # {}
                      /\ \A i \in Events : trail[i].from = IF i = 1 THEN None ELSE trail[i - 1].to
    BY <1>2 DEF Walked
  <2>1. r \in Sourcing!Busy
    BY DEF Sourcing!Busy, Sourcing!At
  <2>2. Sourcing!Busy' = {r} /\ card = Reached
    BY <1>1, <2>1 DEF CardInv, Walked, Continues
  <2>3. Continues(r)'
    BY <1>1, <1>2, <2>2 DEF Continues
  <2> QED BY <2>2, <2>3 DEF CardInv, Walked
<1> QED BY <1>2, <1>3, <1>4, <1>5, <1>6, <1>7 DEF CardInv

LEMMA InsertCard ==
  ASSUME None \notin Stages, CardInv, NEW r \in Hands, Sourcing!Insert(r)
  PROVE  CardInv'
<1>1. /\ hand[r].pc = "insert" /\ hand[r] \in Sourcing!Hand /\ hand[r].to \in Stages
      /\ UNCHANGED <<trail, muddled, grabs, drops>>
  BY DEF Sourcing!Insert, Sourcing!At, CardInv, Sourcing!TypeOK, Handled, Sourcing!history
<1>2. CASE card = None
  <2> DEFINE h == [hand[r] EXCEPT !.pc = "record", !.from = None]
  <2>1. h \in Sourcing!Hand /\ h.pc = "record" /\ h.to = hand[r].to /\ h.from = None
    BY <1>1 DEF Sourcing!Hand
  <2>2. Sourcing!Set(r, h) /\ card' = hand[r].to
    BY <1>2 DEF Sourcing!Insert, Sourcing!CameFrom
  <2> HIDE DEF h
  <2> QED BY <1>1, <1>2, <2>1, <2>2, WriteCard
<1>3. CASE card # None
  <2>1. Sourcing!Set(r, Sourcing!Empty) /\ card' = card
    BY <1>3 DEF Sourcing!Insert, Sourcing!Let
  <2>2. muddled' \in BOOLEAN /\ grabs' \in Nat /\ (~muddled' => ~muddled)
    BY <1>1 DEF CardInv, Sourcing!TypeOK
  <2> QED BY <1>1, <2>1, <2>2, EmptyHand, HandKeeps
<1> QED BY <1>2, <1>3

LEMMA UpdateCard ==
  ASSUME None \notin Stages, CardInv, NEW r \in Hands, Sourcing!Update(r)
  PROVE  CardInv'
<1> DEFINE h == [hand[r] EXCEPT !.pc = "record"]
<1>1. /\ hand[r].pc = "update" /\ hand[r] \in Sourcing!Hand /\ hand[r].to \in Stages
      /\ hand[r].from \in Stages /\ hand[r].from # hand[r].to
      /\ card' = hand[r].to /\ UNCHANGED <<trail, muddled, grabs, drops>>
  BY DEF Sourcing!Update, Sourcing!At, CardInv, Sourcing!TypeOK, Handled, Sourcing!history
<1>2. h \in Sourcing!Hand /\ h.pc = "record" /\ h.to = hand[r].to /\ h.from = hand[r].from
  BY <1>1 DEF Sourcing!Hand
<1>3. Sourcing!Set(r, h)
  BY DEF Sourcing!Update
<1>4. ~muddled => hand[r].from = card
  <2>1. r \in Sourcing!Busy
    BY <1>1 DEF Sourcing!Busy, Sourcing!At
  <2> QED BY <1>1, <2>1 DEF CardInv, Walked, Continues
<1> HIDE DEF h
<1> QED BY <1>1, <1>2, <1>3, <1>4, WriteCard

LEMMA RecordCard ==
  ASSUME None \notin Stages, CardInv, NEW r \in Hands, Sourcing!Record(r)
  PROVE  CardInv'
<1> DEFINE e == [from |-> hand[r].from, to |-> hand[r].to]
           n == Len(trail)
<1>1. /\ hand[r].pc = "record" /\ hand[r] \in Sourcing!Hand /\ hand[r].to \in Stages
      /\ hand[r].from # hand[r].to /\ card # None
      /\ UNCHANGED <<card, muddled, grabs, drops>> /\ trail' = Append(trail, e)
      /\ Sourcing!Set(r, Sourcing!Empty)
  BY DEF Sourcing!Record, Sourcing!Let, Sourcing!At, CardInv, Sourcing!TypeOK, Handled, Sourcing!history
<1>2. /\ hand' \in [Hands -> Sourcing!Hand]
      /\ hand'[r].pc = "idle" /\ \A o \in Hands \ {r} : hand'[o] = hand[o]
      /\ Sourcing!Busy' = Sourcing!Busy \ {r}
  BY <1>1, HandStep, EmptyHand
<1>3. e \in Sourcing!Move /\ trail \in Seq(Sourcing!Move) /\ n \in Nat
  BY <1>1 DEF Sourcing!Move, Sourcing!Hand, CardInv, Sourcing!TypeOK
<1>4. /\ trail' \in Seq(Sourcing!Move) /\ trail' # <<>> /\ Len(trail') = n + 1
      /\ trail'[n + 1] = e /\ \A i \in 1..n : trail'[i] = trail[i]
  BY <1>1, <1>3
<1>5. /\ e.from = hand[r].from /\ e.to = hand[r].to
      /\ Events' = Events \cup {n + 1} /\ Events = 1..n /\ Reached' = hand[r].to
  BY <1>3, <1>4 DEF Events, Reached
<1> HIDE DEF e, n
<1>6. Sourcing!TypeOK'
  BY <1>1, <1>2, <1>4 DEF CardInv, Sourcing!TypeOK
<1>7. Handled'
  BY <1>1, <1>2 DEF CardInv, Handled
<1>8. Enrolled'
  <2>1. \A o \in Hands : Enrolls(o)' <=> o # r /\ Enrolls(o)
    BY <1>2 DEF Enrolls
  <2>2. e.from = None <=> Enrolls(r)
    BY <1>1, <1>5 DEF Enrolls
  <2>3. \A o \in Hands : Enrolls(o)' => \A i \in Events' : trail'[i].from # None
    BY <1>4, <1>5, <2>1, <2>2 DEF CardInv, Enrolled
  <2>4. \A i, j \in Events' : trail'[i].from = None /\ trail'[j].from = None => i = j
    BY <1>4, <1>5, <2>2 DEF CardInv, Enrolled
  <2> QED BY <1>1, <2>1, <2>3, <2>4 DEF CardInv, Enrolled
<1>9. Explained'
  <2> SUFFICES ASSUME drops = 0
               PROVE  \/ \E i \in Events' : trail'[i].to = card
                      \/ \E o \in Hands : hand'[o].pc = "record" /\ hand'[o].to = card
    BY <1>1 DEF Explained
  <2>1. CASE \E i \in Events : trail[i].to = card
    BY <1>4, <1>5, <2>1
  <2>2. CASE \E o \in Hands : hand[o].pc = "record" /\ hand[o].to = card
    <3>1. PICK o \in Hands : hand[o].pc = "record" /\ hand[o].to = card
      BY <2>2
    <3>2. CASE o = r
      BY <1>4, <1>5, <3>1, <3>2
    <3>3. CASE o # r
      BY <1>2, <3>1, <3>3
    <3> QED BY <3>2, <3>3
  <2> QED BY <1>1, <2>1, <2>2 DEF CardInv, Explained
<1>10. Walked'
  <2> SUFFICES ASSUME ~muddled
               PROVE  /\ Sourcing!Busy' = {} /\ card = Reached'
                      /\ \A i \in Events' : trail'[i].from = IF i = 1 THEN None ELSE trail'[i - 1].to
    BY <1>1 DEF Walked
  <2>1. r \in Sourcing!Busy
    BY <1>1 DEF Sourcing!Busy, Sourcing!At
  <2>2. Sourcing!Busy' = {} /\ Continues(r)
    BY <1>2, <2>1 DEF CardInv, Walked
  <2>3. hand[r].from = Reached /\ hand[r].to = card
    BY <1>1, <2>2 DEF Continues
  <2>4. ASSUME NEW i \in Events'
        PROVE  trail'[i].from = IF i = 1 THEN None ELSE trail'[i - 1].to
    <3>1. CASE i \in Events
      BY <1>3, <1>4, <1>5, <3>1 DEF CardInv, Walked
    <3>2. CASE i = n + 1
      <4>1. Reached = IF n = 0 THEN None ELSE trail[n].to
        BY <1>3 DEF Reached, n
      <4> QED BY <1>3, <1>4, <1>5, <2>3, <3>2, <4>1
    <3> QED BY <1>5, <2>4, <3>1, <3>2
  <2> QED BY <1>5, <2>2, <2>3, <2>4
<1>11. \A i \in Events' : trail'[i].from # trail'[i].to
  BY <1>1, <1>4, <1>5, ZenonT(60) DEF CardInv
<1> QED BY <1>6, <1>7, <1>8, <1>9, <1>10, <1>11 DEF CardInv

LEMMA DropCard ==
  ASSUME None \notin Stages, CardInv, NEW r \in Hands, Sourcing!Drop(r)
  PROVE  CardInv'
<1>1. /\ Sourcing!Set(r, Sourcing!Empty) /\ muddled' = TRUE /\ UNCHANGED <<card, trail, grabs>>
      /\ drops' = drops + 1
  BY DEF Sourcing!Drop, Sourcing!Let
<1>2. /\ hand' \in [Hands -> Sourcing!Hand]
      /\ hand'[r].pc = "idle" /\ \A o \in Hands \ {r} : hand'[o] = hand[o]
  BY <1>1, HandStep, EmptyHand
<1>3. Events' = Events
  BY <1>1 DEF Events
<1>4. Sourcing!TypeOK' /\ drops' # 0
  BY <1>1, <1>2 DEF CardInv, Sourcing!TypeOK
<1>5. Handled'
  BY <1>1, <1>2 DEF CardInv, Handled
<1>6. Enrolled'
  <2>1. \A o \in Hands : Enrolls(o)' => Enrolls(o)
    BY <1>2 DEF Enrolls
  <2> QED BY <1>1, <1>3, <2>1 DEF CardInv, Enrolled
<1>7. Explained' /\ Walked'
  BY <1>1, <1>4 DEF Explained, Walked
<1> QED BY <1>1, <1>3, <1>4, <1>5, <1>6, <1>7 DEF CardInv

LEMMA CardNext ==
  ASSUME None \notin Stages, CardInv, [Sourcing!Next]_Sourcing!pipelineVars
  PROVE  CardInv'
<1>1. CASE UNCHANGED Sourcing!pipelineVars
  BY <1>1 DEF Sourcing!pipelineVars, CardInv, Sourcing!TypeOK, Handled, Enrolled, Enrolls, Explained,
              Walked, Continues, Events, Reached, Sourcing!Busy, Sourcing!At
<1>2. ASSUME NEW r \in Hands, NEW stage \in Stages,
             Sourcing!EnrollProspect(r, stage) \/ Sourcing!MovePipelineStage(r, stage)
      PROVE  CardInv'
  BY <1>2, BeginCard DEF Sourcing!EnrollProspect, Sourcing!MovePipelineStage
<1>3. ASSUME NEW r \in Hands,
             \/ Sourcing!GetCardByUser(r) \/ Sourcing!Insert(r) \/ Sourcing!PlanStageMove(r)
             \/ Sourcing!Update(r) \/ Sourcing!Record(r) \/ Sourcing!Drop(r)
      PROVE  CardInv'
  BY <1>3, CheckCard, InsertCard, PlanCard, UpdateCard, RecordCard, DropCard
<1> QED BY <1>1, <1>2, <1>3 DEF Sourcing!Next

(* The history of a contact's card tells what happened, for any stages and  *)
(* any number of requests at once: no event leads from a stage to itself,   *)
(* at most one is an enrolment, the card stands where some event led as     *)
(* long as nothing broke off, and moves that never overlap make one walk    *)
(* (planStageMove in src/domain/pipeline.ts; enroll and moveStage in        *)
(* src/db/repos/d1/pipeline.ts).                                            *)
THEOREM HistoryAlwaysTrue ==
  ASSUME None \notin Stages
  PROVE  Desk => []HistoryIsTrue
<1> DEFINE Kept == part = "sourcing" => CardInv
           all == <<part, intakeVars, sourcing, asking>>
<1>1. Open => Kept
  BY CardInit DEF Open
<1>2. Kept /\ [Work]_all => Kept'
  <2> SUFFICES ASSUME Kept, [Work]_all, part' = "sourcing" PROVE CardInv'
    OBVIOUS
  <2>1. part' = part
    BY DEF Work
  <2>2. [Sourcing!Next]_Sourcing!pipelineVars
    BY <2>1 DEF Work, Sourcing!pipelineVars, sourcing
  <2> QED BY <2>1, <2>2, CardNext
<1>3. CardInv => Sourcing!HistoryIsTrue
  <2> SUFFICES ASSUME CardInv PROVE Sourcing!HistoryIsTrue
    OBVIOUS
  <2>1. Sourcing!Busy = {} => \A r \in Hands : hand[r].pc = "idle"
    BY DEF Sourcing!Busy, Sourcing!At
  <2>2. Sourcing!Busy = {} /\ drops = 0 /\ card # None => \E i \in Events : trail[i].to = card
    BY <2>1 DEF CardInv, Explained
  <2>3. Sourcing!Busy = {} /\ ~muddled =>
          /\ card = Reached
          /\ \A i \in Events : trail[i].from = IF i = 1 THEN None ELSE trail[i - 1].to
    BY DEF CardInv, Walked
  <2> QED BY <2>2, <2>3 DEF CardInv, Enrolled, Events, Reached, Sourcing!HistoryIsTrue
<1>4. Kept => HistoryIsTrue
  BY <1>3 DEF HistoryIsTrue
<1> HIDE DEF Kept
<1> QED BY <1>1, <1>2, <1>4, PTL DEF Desk

----------------------------------------------------------------------------
(* The questions of a form *)

Less == {ss \in Nat \X Nat : ss[1] < ss[2]}
LEMMA Least == ASSUME NEW T \in SUBSET Nat, T # {} PROVE \E x \in T : \A y \in T : x <= y
<1>1. IsWellFoundedOn(Less, Nat)
  BY NatLessThanWellFounded DEF OpToRel, Less
<1>2. PICK x \in T : \A y \in T : ~(<<y, x>> \in Less)
  BY <1>1, WFMin
<1>3. \A y \in T : ~(y < x)
  BY <1>2 DEF Less
<1> QED BY <1>3

(* Cardinality as FormRules sees it.                                        *)
LEMMA SameCount == Asking!Cardinality(Questions) = Cardinality(Questions)
BY DEF Cardinality, Asking!Cardinality

LEMMA HowMany ==
  /\ Cardinality(Questions) \in Nat /\ Questions = 1..Cardinality(Questions)
  /\ \A q \in Questions : q \in Nat \ {0} /\ q <= Cardinality(Questions)
<1>1. Cardinality(Questions) \in Nat /\ Questions = 1..Cardinality(Questions)
  BY QuestionsOK, FS_CardinalityType
<1> QED BY <1>1

(* The lineage of a question is what its recursion comes to: as many steps  *)
(* as there are questions.                                                  *)
LEMMA LineageSteps ==
  ASSUME NEW s, NEW q, NEW n, n = Cardinality(Questions)
  PROVE  \E f : /\ f[0] = {q} /\ Asking!Lineage(s, q) = f[n]
                /\ \A k \in Nat : k < n => f[k + 1] = f[k] \cup Asking!Parents(s, f[k])
<1> DEFINE Eq(f, k) ==
             f = [i \in 0..k |-> IF i = 0 THEN {q}
                                 ELSE LET below == f[i - 1] IN below \cup Asking!Parents(s, below)]
           Has(k) == \E f : Eq(f, k)
<1>1. n \in Nat
  BY HowMany
<1>2. Has(0)
  <2>1. PICK f : f = [i \in 0..0 |-> {q}]
    OBVIOUS
  <2>2. Eq(f, 0)
    BY <2>1
  <2> QED BY <2>2
<1>3. ASSUME NEW k \in Nat, k < n, Has(k) PROVE Has(k + 1)
  <2>1. PICK f : Eq(f, k)
    BY <1>3
  <2>2. PICK g : g = [i \in 0..(k + 1) |-> IF i <= k THEN f[i] ELSE f[k] \cup Asking!Parents(s, f[k])]
    OBVIOUS
  <2>3. \A i \in 0..(k + 1) : g[i] = IF i = 0 THEN {q} ELSE g[i - 1] \cup Asking!Parents(s, g[i - 1])
    <3> SUFFICES ASSUME NEW i \in 0..(k + 1)
                 PROVE  g[i] = IF i = 0 THEN {q} ELSE g[i - 1] \cup Asking!Parents(s, g[i - 1])
      OBVIOUS
    <3>1. CASE i <= k
      <4>1. i \in 0..k /\ g[i] = f[i] /\ (i # 0 => i - 1 \in 0..(k + 1) /\ i - 1 <= k)
        BY <1>3, <2>2, <3>1
      <4>2. i # 0 => g[i - 1] = f[i - 1]
        BY <2>2, <4>1
      <4>3. f[i] = IF i = 0 THEN {q} ELSE f[i - 1] \cup Asking!Parents(s, f[i - 1])
        BY <2>1, <4>1
      <4> QED BY <4>1, <4>2, <4>3
    <3>2. CASE ~(i <= k)
      <4>1. i = k + 1 /\ i # 0 /\ i - 1 = k /\ k \in 0..(k + 1) /\ k <= k
        BY <1>3, <3>2
      <4> QED BY <2>2, <3>2, <4>1
    <3> QED BY <3>1, <3>2
  <2>4. Eq(g, k + 1)
    BY <2>2, <2>3
  <2> QED BY <2>4
<1>4. Has(n)
  <2> SUFFICES ASSUME ~Has(n) PROVE FALSE
    OBVIOUS
  <2> HIDE DEF Has
  <2>0. PICK T : T = {k \in Nat : k <= n /\ ~Has(k)}
    OBVIOUS
  <2>1. PICK m \in T : \A k \in T : m <= k
    <3>1. n \in T /\ T \in SUBSET Nat
      BY <1>1, <2>0
    <3> QED BY <3>1, Least
  <2>2. PICK k : k = m - 1
    OBVIOUS
  <2>3. m \in Nat /\ m <= n /\ ~Has(m) /\ m # 0
    BY <1>2, <2>0, <2>1
  <2>4. k \in Nat /\ k < n /\ k < m /\ m = k + 1
    BY <1>1, <2>2, <2>3
  <2>5. Has(k)
    <3>1. k \notin T
      BY <2>1, <2>4
    <3>2. k \in Nat /\ k <= n
      BY <1>1, <2>4
    <3> QED BY <2>0, <3>1, <3>2
  <2>6. Has(k + 1)
    BY <1>3, <2>4, <2>5
  <2> QED BY <2>3, <2>4, <2>6
<1>5. PICK f : Eq(f, n) /\ Asking!Lineage(s, q) = f[n]
  <2>1. PICK f : f = CHOOSE g : Eq(g, Cardinality(Questions))
    OBVIOUS
  <2>2. Eq(f, n)
    BY <1>4, <2>1
  <2>3. Asking!Lineage(s, q) = f[Cardinality(Questions)]
    BY <2>1, SameCount DEF Asking!Lineage
  <2> QED BY <2>2, <2>3
<1>6. f[0] = {q}
  BY <1>1, <1>5
<1>7. ASSUME NEW k \in Nat, k < n PROVE f[k + 1] = f[k] \cup Asking!Parents(s, f[k])
  <2>1. PICK i : i = k + 1
    OBVIOUS
  <2>2. i \in 0..n /\ i # 0 /\ i - 1 = k
    BY <1>1, <1>7, <2>1
  <2>3. f[i] = IF i = 0 THEN {q} ELSE f[i - 1] \cup Asking!Parents(s, f[i - 1])
    BY <1>5, <2>2
  <2>4. f[i] = f[i - 1] \cup Asking!Parents(s, f[i - 1])
    BY <2>2, <2>3
  <2> QED BY <2>1, <2>2, <2>4
<1> QED BY <1>5, <1>6, <1>7

(* It is within whatever has the question and what each of its own hangs on. *)
LEMMA LineageWithin ==
  ASSUME NEW s, NEW q, NEW S, q \in S, \A x \in S : s[x].on = 0 \/ s[x].on \in S
  PROVE  Asking!Lineage(s, q) \subseteq S
<1>0. PICK n : n = Cardinality(Questions)
  OBVIOUS
<1>1. PICK f : /\ f[0] = {q} /\ Asking!Lineage(s, q) = f[n]
               /\ \A k \in Nat : k < n => f[k + 1] = f[k] \cup Asking!Parents(s, f[k])
  BY ONLY <1>0, LineageSteps
<1> DEFINE In(k) == f[k] \subseteq S
<1>2. In(0)
  BY <1>1
<1>3. ASSUME NEW k \in Nat, k < n, In(k) PROVE In(k + 1)
  <2>1. Asking!Parents(s, f[k]) \subseteq S
    BY <1>3 DEF Asking!Parents
  <2> QED BY <1>1, <1>3, <2>1
<1>4. In(n)
  <2> SUFFICES ASSUME ~In(n) PROVE FALSE
    OBVIOUS
  <2> HIDE DEF In
  <2>0. PICK T : T = {k \in Nat : k <= n /\ ~In(k)}
    OBVIOUS
  <2>1. PICK m \in T : \A k \in T : m <= k
    <3>1. n \in T /\ T \in SUBSET Nat
      BY <1>0, <2>0, HowMany
    <3> QED BY <3>1, Least
  <2>2. PICK k : k = m - 1
    OBVIOUS
  <2>3. m \in Nat /\ m <= n /\ ~In(m) /\ m # 0 /\ n \in Nat
    BY <1>0, <1>2, <2>0, <2>1, HowMany
  <2>4. k \in Nat /\ k < n /\ k < m /\ m = k + 1
    BY <2>2, <2>3
  <2>5. In(k)
    <3>1. k \notin T
      BY <2>1, <2>4
    <3>2. k \in Nat /\ k <= n
      BY <2>3, <2>4
    <3> QED BY <2>0, <3>1, <3>2
  <2>6. In(k + 1)
    BY <1>3, <2>4, <2>5
  <2> QED BY <2>3, <2>4, <2>6
<1> QED BY <1>1, <1>4

(* What a saved schema is: conditions hang on earlier questions.            *)
Savable(s) == s \in [Questions -> Asking!Field] /\ Asking!Sound(s)
LEMMA SavableFields ==
  ASSUME NEW s, Savable(s), NEW q \in Questions
  PROVE  /\ s[q] \in Asking!Field
         /\ s[q].on # 0 => /\ s[q].on \in Questions /\ s[q].on < q /\ s[q].expects # {}
                           /\ Asking!TakesOptions(s[s[q].on]) => s[q].expects \subseteq s[s[q].on].options
         /\ Asking!TakesOptions(s[q]) => s[q].options # {}
<1>1. s[q] \in Asking!Field /\ (s[q].on = 0 \/ s[q].on \in Questions)
  BY DEF Savable, Asking!Field
<1>2. q \notin Asking!FieldSchemaProblems(s)
  BY DEF Savable, Asking!Sound
<1>3. s[q].on # 0 => ~(s[q].on >= q)
  BY <1>2 DEF Asking!FieldSchemaProblems
<1> QED BY <1>1, <1>2, <1>3, HowMany DEF Asking!FieldSchemaProblems

(* So its lineages stop at a question that hangs on none.                   *)
LEMMA LineageCloses ==
  ASSUME NEW s, Savable(s), NEW q \in Questions
  PROVE  /\ q \in Asking!Lineage(s, q)
         /\ \A x \in Asking!Lineage(s, q) :
              /\ x \in Questions /\ x <= q
              /\ s[x].on = 0 \/ s[x].on \in Asking!Lineage(s, q)
<1>0. PICK n : n = Cardinality(Questions)
  OBVIOUS
<1>a. n \in Nat /\ q \in 1..n /\ Questions = 1..n
  BY <1>0, HowMany
<1>1. PICK f : /\ f[0] = {q} /\ Asking!Lineage(s, q) = f[n]
               /\ \A k \in Nat : k < n => f[k + 1] = f[k] \cup Asking!Parents(s, f[k])
  BY <1>0, LineageSteps
<1> DEFINE Near(k) == /\ q \in f[k]
                      /\ \A x \in f[k] : x \in Questions /\ (s[x].on = 0 \/ s[x].on \in f[k] \/ x + k <= q)
<1>2. Near(0)
  BY <1>1, <1>a
<1>3. ASSUME NEW k \in Nat, k < n, Near(k) PROVE Near(k + 1)
  <2>1. f[k + 1] = f[k] \cup Asking!Parents(s, f[k])
    BY <1>1, <1>3
  <2>2. ASSUME NEW x \in f[k] PROVE s[x].on = 0 \/ s[x].on \in f[k + 1]
    BY <2>1 DEF Asking!Parents
  <2>3. ASSUME NEW x \in f[k + 1], x \notin f[k] PROVE x \in Questions /\ x + (k + 1) <= q
    <3>1. PICK z \in f[k] : x = s[z].on /\ x # 0
      BY <2>1, <2>3 DEF Asking!Parents
    <3>2. z \in Questions /\ x \in Questions /\ x < z /\ z + k <= q
      BY <1>3, <2>3, <3>1, SavableFields
    <3> QED BY <1>3, <1>a, <3>2
  <2> QED BY <1>3, <2>1, <2>2, <2>3
<1>4. Near(n)
  <2> SUFFICES ASSUME ~Near(n) PROVE FALSE
    OBVIOUS
  <2> HIDE DEF Near
  <2>0. PICK T : T = {k \in Nat : k <= n /\ ~Near(k)}
    OBVIOUS
  <2>1. PICK m \in T : \A k \in T : m <= k
    <3>1. n \in T /\ T \in SUBSET Nat
      BY <1>a, <2>0
    <3> QED BY <3>1, Least
  <2>2. PICK k : k = m - 1
    OBVIOUS
  <2>3. m \in Nat /\ m <= n /\ ~Near(m) /\ m # 0
    BY <1>2, <2>0, <2>1
  <2>4. k \in Nat /\ k < n /\ k < m /\ m = k + 1
    BY <1>a, <2>2, <2>3
  <2>5. Near(k)
    <3>1. k \notin T
      BY <2>1, <2>4
    <3>2. k \in Nat /\ k <= n
      BY <1>a, <2>4
    <3> QED BY <2>0, <3>1, <3>2
  <2>6. Near(k + 1)
    BY <1>3, <2>4, <2>5
  <2> QED BY <2>3, <2>4, <2>6
<1>5. \A x \in f[n] : x \in Questions /\ (s[x].on = 0 \/ s[x].on \in f[n])
  <2> SUFFICES ASSUME NEW x \in f[n] PROVE x \in Questions /\ (s[x].on = 0 \/ s[x].on \in f[n])
    OBVIOUS
  <2>1. x \in Questions /\ ~(x + n <= q)
    BY <1>4, <1>a
  <2> QED BY <1>4, <2>1
<1>6. Asking!Lineage(s, q) \subseteq 1..q
  <2>1. q \in 1..q
    BY <1>a
  <2>2. ASSUME NEW x \in 1..q PROVE s[x].on = 0 \/ s[x].on \in 1..q
    <3>1. x \in Questions
      BY <1>a
    <3> QED BY <1>a, <3>1, SavableFields
  <2> QED BY <2>1, <2>2, LineageWithin
<1>7. \A x \in f[n] : x <= q
  BY <1>1, <1>6
<1> QED BY <1>1, <1>4, <1>5, <1>7

LEMMA LineageOfParent ==
  ASSUME NEW s, Savable(s), NEW q \in Questions, NEW x \in Asking!Lineage(s, q)
  PROVE  Asking!Lineage(s, x) \subseteq Asking!Lineage(s, q)
BY LineageCloses, LineageWithin

(* Who sees a question: whose answers to what its lineage hangs on say so.  *)
Holds(s, x, v) == s[x].on = 0 \/ Asking!ConditionHolds(s[x], v)
LEMMA VisibleIs ==
  ASSUME NEW s, NEW q, NEW v
  PROVE  Asking!IsFieldVisible(s, q, v) <=> \A x \in Asking!Lineage(s, q) : Holds(s, x, v)
BY DEF Asking!IsFieldVisible, Holds

LEMMA HoldsAlike ==
  ASSUME NEW s, Savable(s), NEW x \in Questions, NEW v, NEW w, s[x].on # 0 => v[s[x].on] = w[s[x].on]
  PROVE  Holds(s, x, v) <=> Holds(s, x, w)
<1>1. s[x].op \in {"eq", "neq", "in"}
  BY SavableFields DEF Asking!Field, Asking!Ops
<1> QED BY <1>1 DEF Holds, Asking!ConditionHolds

LEMMA VisibleThrough ==
  ASSUME NEW s, Savable(s), NEW q \in Questions, NEW v, Asking!IsFieldVisible(s, q, v),
         NEW x \in Asking!Lineage(s, q)
  PROVE  x \in Questions /\ Asking!IsFieldVisible(s, x, v)
<1>1. x \in Questions
  BY LineageCloses
<1>2. \A y \in Asking!Lineage(s, x) : y \in Asking!Lineage(s, q)
  BY LineageOfParent
<1> QED BY <1>1, <1>2, VisibleIs

(* What is kept of the answers shows the questions the answers showed: a    *)
(* condition that decides reads an answer that is kept.                     *)
LEMMA PrunedSeen ==
  ASSUME NEW s, Savable(s), NEW v, NEW w, w = Asking!PruneHiddenValues(s, v), NEW q \in Questions
  PROVE  Asking!IsFieldVisible(s, q, v) <=> Asking!IsFieldVisible(s, q, w)
<1>1. ASSUME NEW p \in Questions, Asking!IsFieldVisible(s, p, v) PROVE w[p] = v[p]
  BY <1>1 DEF Asking!PruneHiddenValues, Asking!VisibleFields
<1>2. ASSUME NEW x \in Questions,
             s[x].on = 0 \/ (s[x].on \in Questions /\ Asking!IsFieldVisible(s, s[x].on, v))
      PROVE  Holds(s, x, v) <=> Holds(s, x, w)
  <2>1. s[x].on # 0 => v[s[x].on] = w[s[x].on]
    BY <1>1, <1>2
  <2> QED BY <2>1, HoldsAlike
<1>3. ASSUME Asking!IsFieldVisible(s, q, v) PROVE Asking!IsFieldVisible(s, q, w)
  <2> SUFFICES ASSUME NEW x \in Asking!Lineage(s, q) PROVE Holds(s, x, w)
    BY VisibleIs
  <2>1. x \in Questions /\ (s[x].on = 0 \/ s[x].on \in Asking!Lineage(s, q)) /\ Holds(s, x, v)
    BY <1>3, LineageCloses, VisibleIs
  <2>2. s[x].on = 0 \/ (s[x].on \in Questions /\ Asking!IsFieldVisible(s, s[x].on, v))
    BY <1>3, <2>1, VisibleThrough
  <2> QED BY <1>2, <2>1, <2>2
<1>4. ASSUME Asking!IsFieldVisible(s, q, w), ~Asking!IsFieldVisible(s, q, v) PROVE FALSE
  <2>0. PICK T : T = {x \in Asking!Lineage(s, q) : ~Holds(s, x, v)}
    OBVIOUS
  <2>1. T \in SUBSET Nat /\ T # {}
    <3>1. T # {}
      BY <1>4, <2>0, VisibleIs
    <3>2. \A x \in T : x \in Nat
      BY <2>0, LineageCloses, HowMany
    <3> QED BY <3>1, <3>2
  <2>2. PICK m \in T : \A y \in T : m <= y
    BY <2>1, Least
  <2>3. m \in Asking!Lineage(s, q) /\ m \in Questions /\ ~Holds(s, m, v) /\ Holds(s, m, w)
    BY <1>4, <2>0, LineageCloses, VisibleIs
  <2>4. PICK p : p = s[m].on
    OBVIOUS
  <2>5. p \in Asking!Lineage(s, q) /\ p \in Questions /\ p < m
    <3>1. p # 0
      BY <2>3, <2>4 DEF Holds
    <3> QED BY <2>3, <2>4, <3>1, LineageCloses, SavableFields
  <2>6. Asking!IsFieldVisible(s, p, v)
    <3> SUFFICES ASSUME NEW y \in Asking!Lineage(s, p) PROVE Holds(s, y, v)
      BY VisibleIs
    <3>1. y \in Asking!Lineage(s, q)
      BY <2>5, LineageOfParent
    <3>2. y <= p /\ y \in Nat /\ m \in Nat /\ p \in Nat
      BY <2>3, <2>5, LineageCloses, HowMany
    <3>3. y \notin T
      BY <2>2, <2>5, <3>2
    <3> QED BY <2>0, <3>1, <3>3
  <2> QED BY <1>2, <2>3, <2>4, <2>5, <2>6
<1> QED BY <1>3, <1>4

(* Kept once, answers are kept as they are, and found as right as they were. *)
LEMMA PrunedStays ==
  ASSUME NEW s, Savable(s), NEW v, NEW w, w = Asking!PruneHiddenValues(s, v)
  PROVE  Asking!PruneHiddenValues(s, w) = w /\ Asking!Errors(s, w) = Asking!Errors(s, v)
<1>1. Asking!VisibleFields(s, w) = Asking!VisibleFields(s, v)
  BY PrunedSeen DEF Asking!VisibleFields
<1>2. PICK shown : shown = Asking!VisibleFields(s, v)
  OBVIOUS
<1>3. w = [q \in Questions |-> IF q \in shown THEN v[q] ELSE {}]
  BY <1>2 DEF Asking!PruneHiddenValues
<1>4. Asking!PruneHiddenValues(s, w) = [q \in Questions |-> IF q \in shown THEN w[q] ELSE {}]
  BY <1>1, <1>2 DEF Asking!PruneHiddenValues
<1>5. \A q \in shown : q \in Questions /\ w[q] = v[q]
  BY <1>2, <1>3 DEF Asking!VisibleFields
<1>6. Asking!Errors(s, w) = {q \in shown : ~Asking!CheckField(s[q], w[q])}
  BY <1>1, <1>2 DEF Asking!Errors
<1>7. Asking!Errors(s, v) = {q \in shown : ~Asking!CheckField(s[q], v[q])}
  BY <1>2 DEF Asking!Errors
<1>8. Asking!PruneHiddenValues(s, w) = w
  BY <1>3, <1>4
<1>9. \A q \in shown : Asking!CheckField(s[q], w[q]) <=> Asking!CheckField(s[q], v[q])
  BY <1>5
<1> QED BY <1>6, <1>7, <1>8, <1>9

(* A draft is held to the same questions, with fewer demands.               *)
LEMMA OptionalShows ==
  ASSUME NEW s, Savable(s), NEW v
  PROVE  /\ Savable(Asking!OptionalFields(s))
         /\ Asking!PruneHiddenValues(Asking!OptionalFields(s), v) = Asking!PruneHiddenValues(s, v)
<1>0. PICK o : o = Asking!OptionalFields(s)
  OBVIOUS
<1>1. \A q \in Questions :
        /\ o[q] \in Asking!Field /\ o[q].type = s[q].type /\ o[q].options = s[q].options
        /\ o[q].on = s[q].on /\ o[q].op = s[q].op /\ o[q].expects = s[q].expects
  <2> TAKE q \in Questions
  <2>1. PICK f : f = s[q]
    OBVIOUS
  <2>2. PICK no : no = FALSE
    OBVIOUS
  <2>3. o[q] = [f EXCEPT !.required = no]
    BY <1>0, <2>1, <2>2 DEF Asking!OptionalFields
  <2>4. f \in Asking!Field /\ no \in BOOLEAN
    BY <2>1, <2>2, SavableFields
  <2> QED BY <2>1, <2>3, <2>4 DEF Asking!Field
<1>2. o \in [Questions -> Asking!Field]
  BY <1>0, <1>1 DEF Asking!OptionalFields
<1>3. Asking!FieldSchemaProblems(o) = {}
  <2> SUFFICES ASSUME NEW q \in Asking!FieldSchemaProblems(o) PROVE FALSE
    OBVIOUS
  <2>1. q \in Questions
    BY DEF Asking!FieldSchemaProblems
  <2>2. /\ s[q].on # 0 => /\ s[q].on \in Questions /\ ~(s[q].on >= q) /\ s[q].expects # {}
                          /\ Asking!TakesOptions(s[s[q].on]) => s[q].expects \subseteq s[s[q].on].options
        /\ Asking!TakesOptions(s[q]) => s[q].options # {}
    BY <2>1, SavableFields, HowMany
  <2>3. o[q].on # 0 => ~(o[q].on >= q)
    BY <1>1, <2>1, <2>2
  <2>4. \A x \in Questions : Asking!TakesOptions(o[x]) <=> Asking!TakesOptions(s[x])
    BY <1>1 DEF Asking!TakesOptions
  <2> QED BY <1>1, <2>1, <2>2, <2>3, <2>4 DEF Asking!FieldSchemaProblems
<1>4. Savable(o)
  BY <1>2, <1>3 DEF Savable, Asking!Sound
<1>5. ASSUME NEW q \in Questions PROVE Asking!Lineage(o, q) = Asking!Lineage(s, q)
  <2>1. PICK S : S = Asking!Lineage(s, q)
    OBVIOUS
  <2>2. q \in S /\ \A x \in S : x \in Questions /\ (s[x].on = 0 \/ s[x].on \in S)
    BY <2>1, LineageCloses
  <2>3. \A x \in S : o[x].on = 0 \/ o[x].on \in S
    BY <1>1, <2>2
  <2>4. Asking!Lineage(o, q) \subseteq S
    BY <2>2, <2>3, LineageWithin
  <2>5. PICK R : R = Asking!Lineage(o, q)
    OBVIOUS
  <2>6. q \in R /\ \A x \in R : x \in Questions /\ (o[x].on = 0 \/ o[x].on \in R)
    BY <1>4, <2>5, LineageCloses
  <2>7. \A x \in R : s[x].on = 0 \/ s[x].on \in R
    BY <1>1, <2>6
  <2>8. Asking!Lineage(s, q) \subseteq R
    BY <2>6, <2>7, LineageWithin
  <2> QED BY <2>1, <2>4, <2>5, <2>8
<1>6. ASSUME NEW q \in Questions PROVE Asking!IsFieldVisible(o, q, v) <=> Asking!IsFieldVisible(s, q, v)
  <2>1. \A x \in Asking!Lineage(s, q) : x \in Questions
    BY LineageCloses
  <2>2. ASSUME NEW x \in Questions PROVE Holds(o, x, v) <=> Holds(s, x, v)
    <3>1. s[x].op \in {"eq", "neq", "in"}
      BY SavableFields DEF Asking!Field, Asking!Ops
    <3> QED BY <1>1, <3>1 DEF Holds, Asking!ConditionHolds
  <2>3. Asking!IsFieldVisible(o, q, v) <=> \A x \in Asking!Lineage(s, q) : Holds(o, x, v)
    BY <1>5, VisibleIs
  <2> QED BY <2>1, <2>2, <2>3, VisibleIs
<1>7. Asking!VisibleFields(o, v) = Asking!VisibleFields(s, v)
  BY <1>6 DEF Asking!VisibleFields
<1> QED BY <1>0, <1>4, <1>7 DEF Asking!PruneHiddenValues

(* Answers that come to show a question: one step from those that show what *)
(* it hangs on.                                                             *)
ShownBy(s, q, v) ==
  /\ v \in [Questions -> SUBSET Choices]
  /\ \A p \in Questions :
       v[p] # {} => p < q /\ v[p] \in Asking!Offered(s[p]) /\ Asking!IsFieldVisible(s, p, v)
  /\ Asking!IsFieldVisible(s, q, v)

(* Some answer that is offered makes a condition hold.                      *)
LEMMA AnswerFits ==
  ASSUME NEW s \in Designs, Savable(s), NEW q \in Questions, s[q].on # 0
  PROVE  \E c \in SUBSET Choices :
           /\ c \in Asking!Offered(s[s[q].on])
           /\ \A v : v[s[q].on] = c => Holds(s, q, v)
<1>0. PICK p : p = s[q].on
  OBVIOUS
<1>1. /\ p \in Questions /\ s[q].expects # {} /\ s[q].op \in {"eq", "neq", "in"}
      /\ Asking!TakesOptions(s[p]) => s[q].expects \subseteq s[p].options
      /\ s[p].options \subseteq Choices /\ s[p].type \in {"text", "select", "multiselect", "checkbox"}
  BY <1>0, SavableFields DEF Asking!Field, Asking!Ops, Asking!Types
<1>2. s[q].expects \subseteq Choices
  BY <1>0, <1>1, AnswerableOK
<1>3. PICK e : e \in s[q].expects
  BY <1>1
<1>4. {} \in Asking!Offered(s[p]) /\ {e} \in Asking!Offered(s[p])
  <2>1. e \in Choices /\ (Asking!TakesOptions(s[p]) => e \in s[p].options)
    BY <1>1, <1>2, <1>3
  <2> QED BY <1>1, <2>1 DEF Asking!Offered, Asking!TakesOptions
<1>5. CASE s[q].op = "neq"
  <2>1. ASSUME NEW v, v[p] = {} PROVE Holds(s, q, v)
    BY <1>0, <1>5, <2>1 DEF Holds, Asking!ConditionHolds
  <2> QED BY <1>0, <1>4, <2>1
<1>6. CASE s[q].op = "in"
  <2>1. ASSUME NEW v, v[p] = {e} PROVE Holds(s, q, v)
    BY <1>0, <1>3, <1>6, <2>1 DEF Holds, Asking!ConditionHolds
  <2> QED BY <1>0, <1>2, <1>3, <1>4, <2>1
<1>7. CASE s[q].op = "eq"
  <2>1. ASSUME NEW v, v[p] = s[q].expects PROVE Holds(s, q, v)
    BY <1>0, <1>1, <1>7, <2>1 DEF Holds, Asking!ConditionHolds
  <2>2. s[q].expects \in Asking!Offered(s[p])
    <3>1. CASE s[p].type = "multiselect"
      BY <1>1, <3>1 DEF Asking!Offered, Asking!TakesOptions
    <3>2. CASE s[p].type # "multiselect"
      <4>1. s[q].expects = {e}
        BY <1>0, <1>3, <1>7, <3>2, AnswerableOK
      <4> QED BY <1>4, <4>1
    <3> QED BY <3>1, <3>2
  <2> QED BY <1>0, <1>2, <2>1, <2>2
<1> QED BY <1>1, <1>5, <1>6, <1>7

LEMMA NextShown ==
  ASSUME NEW s \in Designs, Savable(s), NEW q \in Questions, NEW p \in Questions, p = s[q].on,
         NEW u, ShownBy(s, p, u)
  PROVE  \E v : ShownBy(s, q, v)
<1>1. p # 0 /\ p < q /\ p \in Nat /\ q \in Nat
  BY SavableFields, HowMany
<1>2. PICK c \in SUBSET Choices :
        /\ c \in Asking!Offered(s[p])
        /\ \A v : v[p] = c => Holds(s, q, v)
  BY <1>1, AnswerFits
<1>3. PICK v : v = [u EXCEPT ![p] = c]
  OBVIOUS
<1>4. v \in [Questions -> SUBSET Choices] /\ v[p] = c /\ \A x \in Questions : x # p => v[x] = u[x]
  BY <1>3 DEF ShownBy
<1>5. ASSUME NEW x \in Questions, x <= p, Asking!IsFieldVisible(s, x, u) PROVE Asking!IsFieldVisible(s, x, v)
  <2> SUFFICES ASSUME NEW y \in Asking!Lineage(s, x) PROVE Holds(s, y, v)
    BY VisibleIs
  <2>1. y \in Questions /\ y <= x /\ Holds(s, y, u)
    BY <1>5, LineageCloses, VisibleIs
  <2>2. s[y].on # 0 => s[y].on \in Questions /\ s[y].on < y
    BY <2>1, SavableFields
  <2>3. s[y].on # 0 => v[s[y].on] = u[s[y].on]
    <3>1. s[y].on # 0 => s[y].on \in Nat /\ y \in Nat /\ x \in Nat
      BY <2>1, <2>2, HowMany
    <3> QED BY <1>1, <1>4, <1>5, <2>1, <2>2, <3>1
  <2> QED BY <2>1, <2>3, HoldsAlike
<1>6. Asking!IsFieldVisible(s, p, v)
  BY <1>1, <1>5 DEF ShownBy
<1>7. ASSUME NEW x \in Questions, v[x] # {}
      PROVE  x < q /\ v[x] \in Asking!Offered(s[x]) /\ Asking!IsFieldVisible(s, x, v)
  <2>1. CASE x = p
    BY <1>1, <1>2, <1>4, <1>6, <2>1
  <2>2. CASE x # p
    <3>1. u[x] # {} /\ v[x] = u[x]
      BY <1>4, <1>7, <2>2
    <3>2. x < p /\ u[x] \in Asking!Offered(s[x]) /\ Asking!IsFieldVisible(s, x, u) /\ x \in Nat
      BY <3>1, HowMany DEF ShownBy
    <3>3. Asking!IsFieldVisible(s, x, v)
      BY <1>1, <1>5, <3>2
    <3> QED BY <1>1, <3>1, <3>2, <3>3
  <2> QED BY <2>1, <2>2
<1>8. Asking!IsFieldVisible(s, q, v)
  <2>1. PICK S : S = {q} \cup Asking!Lineage(s, p)
    OBVIOUS
  <2>2. \A x \in S : s[x].on = 0 \/ s[x].on \in S
    BY <2>1, LineageCloses
  <2>3. Asking!Lineage(s, q) \subseteq S
    BY <2>1, <2>2, LineageWithin
  <2>4. \A x \in S : Holds(s, x, v)
    <3>1. Holds(s, q, v)
      BY <1>2, <1>4
    <3>2. \A x \in Asking!Lineage(s, p) : Holds(s, x, v)
      BY <1>6, VisibleIs
    <3> QED BY <2>1, <3>1, <3>2
  <2> QED BY <2>3, <2>4, VisibleIs
<1> QED BY <1>4, <1>7, <1>8 DEF ShownBy

LEMMA AllShown ==
  ASSUME NEW s \in Designs, Savable(s), NEW q \in Questions
  PROVE  \E v : ShownBy(s, q, v)
<1> SUFFICES ASSUME ~\E v : ShownBy(s, q, v) PROVE FALSE
  OBVIOUS
<1>0. PICK T : T = {x \in Questions : ~\E v : ShownBy(s, x, v)}
  OBVIOUS
<1>1. PICK m \in T : \A y \in T : m <= y
  <2>1. q \in T /\ T \in SUBSET Nat
    <3>1. \A x \in T : x \in Nat
      BY <1>0, HowMany
    <3> QED BY <1>0, <3>1
  <2> QED BY <2>1, Least
<1>2. m \in Questions /\ ~\E v : ShownBy(s, m, v)
  BY <1>0, <1>1
<1>3. CASE s[m].on = 0
  <2>1. PICK v : v = [x \in Questions |-> {}]
    OBVIOUS
  <2>2. Asking!Lineage(s, m) \subseteq {m}
    BY <1>3, LineageWithin
  <2>3. Asking!IsFieldVisible(s, m, v)
    BY <1>3, <2>2, VisibleIs DEF Holds
  <2>4. ShownBy(s, m, v)
    BY <2>1, <2>3 DEF ShownBy
  <2> QED BY <1>2, <2>4
<1>4. CASE s[m].on # 0
  <2>1. PICK p : p = s[m].on
    OBVIOUS
  <2>2. p \in Questions /\ p < m /\ p \in Nat /\ m \in Nat
    BY <1>2, <1>4, <2>1, SavableFields, HowMany
  <2>3. p \notin T
    BY <1>1, <2>2
  <2>4. PICK u : ShownBy(s, p, u)
    BY <1>0, <2>2, <2>3
  <2> QED BY <1>2, <2>1, <2>2, <2>4, NextShown
<1> QED BY <1>3, <1>4

(* The invariant: the stored schema is a saved one, and what is stored of a *)
(* proposal was accepted and pruned under a saved one.                      *)
FormInv ==
  /\ fields \in Designs /\ Savable(fields)
  /\ Asking!ResavesAsItIs

LEMMA FormStart == Asking!Init => FormInv
BY QuestionsOK DEF Asking!Init, FormInv, Savable, Asking!ResavesAsItIs

LEMMA KeepKeeps ==
  ASSUME FormInv, NEW s, Savable(s),
         \A v : Asking!PruneHiddenValues(s, v) = Asking!PruneHiddenValues(fields, v),
         Asking!Keep(s)
  PROVE  FormInv'
<1>1. fields' = fields
  BY DEF Asking!Keep
<1>2. CASE Asking!Errors(s, page.values) = {}
  <2>1. PICK w : w = Asking!PruneHiddenValues(fields, page.values)
    OBVIOUS
  <2>2. answers' = <<w>> /\ under' = s
    BY <1>2, <2>1 DEF Asking!Keep
  <2>3. w = Asking!PruneHiddenValues(s, page.values)
    BY <2>1
  <2>4. Asking!PruneHiddenValues(s, w) = w /\ Asking!Errors(s, w) = {}
    BY <1>2, <2>3, PrunedStays
  <2>5. answers'[1] = w
    BY <2>2
  <2> QED BY <1>1, <2>2, <2>4, <2>5 DEF FormInv, Asking!ResavesAsItIs
<1>3. CASE Asking!Errors(s, page.values) # {}
  <2>1. UNCHANGED <<answers, under>>
    BY <1>3 DEF Asking!Keep
  <2> QED BY <1>1, <2>1 DEF FormInv, Asking!ResavesAsItIs
<1> QED BY <1>2, <1>3

LEMMA FormStep == FormInv /\ [Asking!Next]_(asking) => FormInv'
<1> SUFFICES ASSUME FormInv, [Asking!Next]_(asking) PROVE FormInv'
  OBVIOUS
<1>1. CASE UNCHANGED asking
  BY <1>1 DEF asking, FormInv, Asking!ResavesAsItIs
<1>2. ASSUME NEW s \in Designs, Asking!SaveForm(s) PROVE FormInv'
  <2>1. Asking!Sound(s) /\ fields' = s /\ answers' = answers /\ under' = under
    BY <1>2 DEF Asking!SaveForm
  <2> QED BY <2>1, QuestionsOK DEF FormInv, Savable, Asking!ResavesAsItIs
<1>3. CASE Asking!Visit
  BY <1>3 DEF Asking!Visit, FormInv, Asking!ResavesAsItIs
<1>4. ASSUME NEW q \in Questions, NEW answer \in SUBSET Choices, Asking!Answer(q, answer) PROVE FormInv'
  BY <1>4 DEF Asking!Answer, FormInv, Asking!ResavesAsItIs
<1>5. CASE Asking!Submit
  BY <1>5, KeepKeeps DEF Asking!Submit, FormInv
<1>6. CASE Asking!SaveDraft
  BY <1>6, KeepKeeps, OptionalShows DEF Asking!SaveDraft, FormInv
<1> QED BY <1>1, <1>2, <1>3, <1>4, <1>5, <1>6 DEF Asking!Next

LEMMA FormIsFair == ASSUME FormInv PROVE Asking!ResavesAsItIs /\ Asking!EveryQuestionReachable
<1>1. ASSUME NEW q \in Questions PROVE \E v \in [Questions -> SUBSET Choices] : Asking!Reveals(q, v)
  <2>1. PICK v : ShownBy(fields, q, v)
    BY AllShown DEF FormInv
  <2> QED BY <2>1 DEF ShownBy, Asking!Reveals
<1> QED BY <1>1 DEF FormInv, Asking!EveryQuestionReachable

(* What was accepted is accepted again as it is, and nothing of it changes, *)
(* whatever the questions and however they are changed under an open page   *)
(* (validateSubmissionValues, pruneHiddenValues).                           *)
THEOREM AnswersStayAccepted == Asking!Spec => []Asking!ResavesAsItIs
<1>1. Asking!Spec => []FormInv
  <2>1. UNCHANGED Asking!formVars <=> UNCHANGED asking
    BY DEF Asking!formVars, asking
  <2>2. FormInv /\ [Asking!Next]_Asking!formVars => FormInv'
    BY <2>1, FormStep
  <2> QED BY <2>2, FormStart, PTL DEF Asking!Spec
<1>2. FormInv => Asking!ResavesAsItIs
  BY DEF FormInv
<1> QED BY <1>1, <1>2, PTL

(* In the composition: that, and that every question of a saved form can    *)
(* come to be shown (fieldSchemaProblems).                                  *)
THEOREM FormsAlwaysHold == Desk => []FormsHold
<1> DEFINE Inv == part = "questions" => FormInv
<1>1. Open => Inv
  BY FormStart DEF Open
<1>2. Inv /\ [Work]_<<part, intakeVars, sourcing, asking>> => Inv'
  <2> SUFFICES ASSUME Inv, [Work]_<<part, intakeVars, sourcing, asking>>, part' = "questions" PROVE FormInv'
    OBVIOUS
  <2>1. part = "questions" /\ ([Asking!Next]_(asking))
    BY DEF Work
  <2> QED BY <2>1, FormStep
<1>3. Inv => FormsHold
  BY FormIsFair DEF FormsHold
<1> QED BY <1>1, <1>2, <1>3, PTL DEF Desk
=============================================================================
