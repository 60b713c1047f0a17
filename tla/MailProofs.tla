----------------------------- MODULE MailProofs -----------------------------
(***************************************************************************)
(* Theorems about module Digests, for any runs, events and speakers, any   *)
(* silences and any number of failures and changes: whom a digest reaches, *)
(* and how soon after the one before.  Then about module Invitations, for  *)
(* any sends, speakers and bounds: that an update lands; and about module  *)
(* DraftReminders: that no draft is reminded twice.  The last of each are  *)
(* stated of the composition MCMail, for every value of its constants.     *)
(***************************************************************************)
EXTENDS MCMail, SequenceTheorems, TLAPS

(* The statements after a run has read the log, those with one mail, and    *)
(* where nothing is under way.                                              *)
Mailer == {"send", "record", "refused"}
Reading == {"read"} \cup PastReading
Pages == {"page", "dialog"}
Resting == {"idle"} \cup Pages

(* Where a run under way is: at one event, with one mail in hand.           *)
Placed(r) ==
  LET q == run[r] IN
  /\ q.pc \in Reading \cup Pages => q.event \in Events
  /\ q.pc \in Mailer => q.mail \in Speakers \ q.rest
  /\ q.pc = "drafts" => r \in CronRuns

(* Nobody mails a speaker, with the row yet to be written, but the runs     *)
(* that have read the log of the event miss it.                             *)
Heard ==
  \A r \in Runs : \A o \in Runs \ {r} :
    run[o].pc = "record" /\ run[r].pc \in PastReading /\ run[o].event = run[r].event =>
      run[o].mail \in run[r].missed

(* What a run has read in the log is still so about everyone it has not     *)
(* mailed and nobody else has.                                              *)
LogKept(r) ==
  LET q == run[r] IN
  /\ q.pc \in PastReading =>
       \A p \in q.rest : p \notin q.missed => q.last[p] = age[<<q.event, p>>]
  /\ q.pc = "send" /\ q.mail \notin q.missed => age[Mailing(r)] >= SilenceOf(r)

(* What it knows of those it need not chase: what owed nothing still does,  *)
(* who had declined still has, and neither is among those it may mail.      *)
Spared(r) ==
  LET q == run[r] IN
  /\ q.pc \notin Resting => q.clear \cap owes = {} /\ q.away \subseteq declined
  /\ q.pc \in Reading => \A p \in q.open : <<q.event, p>> \notin q.clear
  /\ q.pc \in PastReading => \A p \in Speakers \ q.out : <<q.event, p>> \notin q.away
  /\ q.pc = "send" => q.mail \in q.open \ q.out /\ q.event \notin started

(* Of those about whom nothing has changed since the page was read: what    *)
(* was read open is, and the number is that of those a press would reach.   *)
Reached(x) == Due(x) /\ age[x] >= ManualSilence
OpenIs(q, e) ==
  \A p \in Speakers : <<e, p>> \in q.quiet => (p \in q.open <=> <<e, p>> \in owes)
NumberIs(q, e) ==
  \A p \in Speakers : <<e, p>> \in q.quiet => (p \in q.promised <=> Reached(<<e, p>>))
(* The button keeps that until it has read the log itself.                  *)
Kept(r) ==
  LET q == run[r] IN
  r \in ButtonRuns =>
    /\ q.pc \in {"page", "read"} => OpenIs(q, q.event)
    /\ q.pc \in {"dialog", "read"} => NumberIs(q, q.event)
    /\ q.pc = "event" => \E e \in Events : q.unread = {e} /\ NumberIs(q, e)
    /\ q.pc \in Reading => q.unread = {}
    /\ q.pc \in PastReading =>
         \A p \in q.rest : <<q.event, p>> \in q.quiet => (ToMail(r, p) <=> p \in q.promised)

Knows(r) == Placed(r) /\ LogKept(r) /\ Spared(r) /\ Kept(r)
IInv == TypeOK /\ Heard /\ \A r \in Runs : Knows(r)
----------------------------------------------------------------------------
(* Types, and a run that is not under way *)

LEMMA IdleRun == Idle \in Run
<1>1. [p \in Speakers |-> Week] \in [Speakers -> Days]
  BY DigestConstants DEF Days
<1> QED BY <1>1 DEF Idle, Run

LEMMA IdleKnows ==
  ASSUME NEW r \in Runs, run[r].pc = "idle"
  PROVE  Knows(r)
  BY DEF Knows, Placed, LogKept, Spared, Kept, Reading, PastReading, Mailer, Pages, Resting

LEMMA RunFields ==
  ASSUME TypeOK, NEW r \in Runs
  PROVE  /\ run[r] \in Run /\ run[r].unread \subseteq Events
         /\ run[r].event \in Events \cup {None} /\ run[r].open \subseteq Speakers
         /\ run[r].last \in [Speakers -> Days] /\ run[r].out \subseteq Speakers
         /\ run[r].rest \subseteq Speakers /\ run[r].mail \in Speakers \cup {None}
         /\ run[r].promised \subseteq Speakers /\ run[r].quiet \subseteq Pairs
         /\ run[r].missed \subseteq Speakers
         /\ run[r].clear \subseteq Pairs /\ run[r].away \subseteq Pairs
  BY DEF TypeOK, Run

LEMMA SilenceBounds ==
  ASSUME NEW r \in Runs
  PROVE  SilenceOf(r) \in Nat /\ SilenceOf(r) <= CronSilence
  BY DigestConstants DEF SilenceOf

(* What a step of somebody else may do to a run: nothing it goes by, but    *)
(* what it keeps of the past shrinks, and what it has missed grows.         *)
SameReadings(n, q) ==
  /\ n.pc = q.pc /\ n.unread = q.unread /\ n.event = q.event /\ n.open = q.open
  /\ n.last = q.last /\ n.out = q.out /\ n.rest = q.rest /\ n.mail = q.mail
  /\ n.promised = q.promised
Aside(o) ==
  /\ SameReadings(run'[o], run[o])
  /\ run'[o].quiet \subseteq run[o].quiet
  /\ run[o].pc \in {"page", "dialog", "event", "read"} =>
       \A x \in Pairs : x \in run'[o].quiet => Steady(x)
  /\ run[o].missed \subseteq run'[o].missed
  /\ run[o].pc \notin Resting =>
       /\ run'[o].clear \subseteq run[o].clear \ owes'
       /\ run'[o].away \subseteq run[o].away \cap declined'
       /\ started' = started
  /\ run[o].pc \in PastReading =>
       \A p \in Speakers :
         p \notin run'[o].missed => age'[<<run[o].event, p>>] = age[<<run[o].event, p>>]

LEMMA AsideSame ==
  ASSUME IInv, NEW o \in Runs, run'[o] = run[o], UNCHANGED <<owes, declined, started, age>>
  PROVE  Aside(o)
<1>1. Spared(o)
  BY DEF IInv, Knows
<1> QED BY <1>1 DEF Aside, SameReadings, Steady, Spared

LEMMA AsideSpares ==
  ASSUME IInv, NEW o \in Runs, Aside(o)
  PROVE  Placed(o)' /\ LogKept(o)' /\ Spared(o)'
<1>1. Placed(o) /\ LogKept(o) /\ Spared(o)
  BY DEF IInv, Knows
<1>2. run[o].rest \subseteq Speakers
  BY RunFields DEF IInv
<1>3. SameReadings(run'[o], run[o])
  BY DEF Aside
<1>4. Placed(o)'
  BY <1>1, <1>3 DEF Placed, SameReadings
<1>5. LogKept(o)'
  <2>1. ASSUME run[o].pc \in PastReading, NEW p \in run[o].rest, p \notin run'[o].missed
        PROVE  run'[o].last[p] = age'[<<run'[o].event, p>>]
    BY <1>1, <1>2, <1>3, <2>1 DEF LogKept, SameReadings, Aside
  <2>2. ASSUME run[o].pc = "send", run[o].mail \notin run'[o].missed
        PROVE  age'[<<run[o].event, run[o].mail>>] >= SilenceOf(o)
    <3>1. run[o].mail \in Speakers /\ run[o].pc \in PastReading
      BY <1>1, <2>2 DEF Placed, Mailer, PastReading
    <3>2. age'[<<run[o].event, run[o].mail>>] = age[Mailing(o)] /\ run[o].mail \notin run[o].missed
      BY <2>2, <3>1 DEF Aside, Mailing
    <3> QED BY <1>1, <2>2, <3>2 DEF LogKept
  <2> QED BY <1>3, <2>1, <2>2 DEF LogKept, SameReadings, Mailing
<1>6. Spared(o)'
  <2>1. ASSUME run[o].pc \notin Resting
        PROVE  /\ run'[o].clear \cap owes' = {} /\ run'[o].away \subseteq declined' /\ started' = started
               /\ run'[o].clear \subseteq run[o].clear /\ run'[o].away \subseteq run[o].away
    BY <2>1 DEF Aside
  <2>2. run[o].pc \in Reading => run[o].pc \notin Resting
    BY DEF Reading, PastReading, Resting, Pages
  <2>3. run[o].pc \in PastReading => run[o].pc \in Reading
    BY DEF Reading
  <2>4. run[o].pc = "send" => run[o].pc \in Reading
    BY DEF Reading, PastReading
  <2> QED BY <1>1, <1>3, <2>1, <2>2, <2>3, <2>4 DEF Spared, SameReadings
<1> QED BY <1>4, <1>5, <1>6

LEMMA AsideKeepsNumber ==
  ASSUME NEW o \in Runs, NEW e \in Events, Aside(o),
         run[o].pc \in {"page", "dialog", "event", "read"}
  PROVE  /\ OpenIs(run[o], e) => OpenIs(run[o], e)'
         /\ NumberIs(run[o], e) => NumberIs(run[o], e)'
<1>1. \A p \in Speakers : <<e, p>> \in run'[o].quiet =>
        <<e, p>> \in run[o].quiet /\ Steady(<<e, p>>)
  BY DEF Aside, Pairs
<1>2. run'[o].open = run[o].open /\ run'[o].promised = run[o].promised
  BY DEF Aside, SameReadings
<1>3. \A p \in Speakers : Steady(<<e, p>>) => (Reached(<<e, p>>)' <=> Reached(<<e, p>>))
  BY DEF Steady, Reached, Due
<1>4. \A p \in Speakers : Steady(<<e, p>>) => (<<e, p>> \in owes' <=> <<e, p>> \in owes)
  BY DEF Steady
<1>5. OpenIs(run[o], e) => OpenIs(run[o], e)'
  BY <1>1, <1>2, <1>4 DEF OpenIs
<1>6. NumberIs(run[o], e) => NumberIs(run[o], e)'
  BY <1>1, <1>2, <1>3 DEF NumberIs
<1> QED BY <1>5, <1>6

LEMMA AsideKeeps ==
  ASSUME IInv, NEW o \in Runs, Aside(o)
  PROVE  Knows(o)'
<1>1. Kept(o)'
  <2> SUFFICES ASSUME o \in ButtonRuns
               PROVE  Kept(o)'
    BY DEF Kept
  <2>1. Placed(o) /\ Kept(o) /\ SameReadings(run'[o], run[o])
    BY DEF IInv, Knows, Aside
  <2>2. CASE run[o].pc \in {"page", "dialog", "read"}
    <3>1. PICK e \in Events : e = run[o].event
      BY <2>1, <2>2 DEF Placed, Reading, Pages
    <3>2. /\ OpenIs(run[o], e) => OpenIs(run[o], e)'
          /\ NumberIs(run[o], e) => NumberIs(run[o], e)'
      BY <2>2, AsideKeepsNumber
    <3>3. run'[o].event = e /\ run'[o].pc = run[o].pc /\ run'[o].unread = run[o].unread
      BY <2>1, <3>1 DEF SameReadings
    <3> QED BY <2>1, <2>2, <3>1, <3>2, <3>3 DEF Kept, PastReading
  <2>3. CASE run[o].pc = "event"
    <3>1. PICK e \in Events : run[o].unread = {e} /\ NumberIs(run[o], e)
      BY <2>1, <2>3 DEF Kept
    <3>2. NumberIs(run[o], e)'
      BY <2>3, <3>1, AsideKeepsNumber
    <3>3. run'[o].pc = "event" /\ run'[o].unread = {e}
      BY <2>1, <2>3, <3>1 DEF SameReadings
    <3> QED BY <3>2, <3>3 DEF Kept, Reading, PastReading
  <2>4. CASE run[o].pc \in PastReading
    <3>1. started' = started /\ run'[o].quiet \subseteq run[o].quiet
      BY <2>4 DEF Aside, PastReading, Resting, Pages
    <3>2. \A p : ToMail(o, p)' <=> ToMail(o, p)
      BY <2>1, <3>1 DEF ToMail, Cooling, SameReadings
    <3> QED BY <2>1, <2>4, <3>1, <3>2 DEF Kept, SameReadings, PastReading, Reading
  <2>5. CASE run[o].pc \notin {"page", "dialog", "event", "read"} \cup PastReading
    BY <2>1, <2>5 DEF Kept, SameReadings, Reading
  <2> QED BY <2>2, <2>3, <2>4, <2>5
<1> QED BY <1>1, AsideSpares DEF Knows

(* A run goes on or ends, and the others stand aside. *)
LEMMA StepKeeps ==
  ASSUME IInv, TypeOK', NEW r \in Runs, NEW q, run'[r] = q, Knows(r)',
         \A o \in Runs \ {r} : Aside(o),
         q.pc \in PastReading =>
           \A o \in Runs \ {r} : run[o].pc = "record" /\ run[o].event = q.event =>
             run[o].mail \in q.missed,
         q.pc = "record" =>
           \A o \in Runs \ {r} : run[o].pc \in PastReading /\ run[o].event = q.event =>
             q.mail \in run'[o].missed
  PROVE  IInv'
<1>1. \A o \in Runs : Knows(o)'
  BY AsideKeeps
<1>2. ASSUME NEW c \in Runs, NEW o \in Runs, o # c, run'[o].pc = "record",
             run'[c].pc \in PastReading, run'[o].event = run'[c].event
      PROVE  run'[o].mail \in run'[c].missed
  <2>1. CASE c = r
    BY <1>2, <2>1 DEF Aside, SameReadings
  <2>2. CASE o = r
    BY <1>2, <2>2 DEF Aside, SameReadings
  <2>3. CASE c # r /\ o # r
    BY <1>2, <2>3 DEF Aside, SameReadings, IInv, Heard
  <2> QED BY <2>1, <2>2, <2>3
<1>3. Heard'
  BY <1>2 DEF Heard
<1> QED BY <1>1, <1>3 DEF IInv

LEMMA GoKeeps ==
  ASSUME IInv, NEW r \in Runs, NEW q \in Run, Set(r, q), q.pc # "record",
         UNCHANGED <<world, age>>, silent' \in [Pairs -> Days],
         failures' \in 0..MaxFailures, ran' \subseteq Runs,
         q.pc \in PastReading =>
           \A o \in Runs \ {r} : run[o].pc = "record" /\ run[o].event = q.event =>
             run[o].mail \in q.missed,
         run' \in [Runs -> Run] /\ run'[r] = q => Knows(r)'
  PROVE  IInv'
<1>1. /\ run' \in [Runs -> Run] /\ run'[r] = q
      /\ \A o \in Runs \ {r} : run'[o] = run[o]
  BY DEF IInv, TypeOK, Set
<1>2. day' = day /\ owes' = owes /\ declined' = declined /\ started' = started /\ changes' = changes
  BY DEF world
<1>3. TypeOK'
  BY <1>1, <1>2 DEF IInv, TypeOK
<1>4. \A o \in Runs \ {r} : Aside(o)
  BY <1>1, <1>2, AsideSame
<1> QED BY <1>1, <1>3, <1>4, StepKeeps

LEMMA EndKeeps ==
  ASSUME IInv, NEW r \in Runs, Set(r, Idle), UNCHANGED <<world, ran, age, silent>>,
         failures' \in 0..MaxFailures
  PROVE  IInv'
<1>1. PICK q : q = Idle
  OBVIOUS
<1>2. q \in Run /\ q.pc = "idle" /\ Set(r, q)
  BY <1>1, IdleRun DEF Idle
<1>3. silent' \in [Pairs -> Days] /\ ran' \subseteq Runs
  BY DEF IInv, TypeOK
<1>4. ASSUME run'[r] = q
      PROVE  Knows(r)'
  BY <1>2, <1>4 DEF Knows, Placed, LogKept, Spared, Kept, Reading, PastReading, Mailer, Pages, Resting
<1> QED BY <1>2, <1>3, <1>4, GoKeeps DEF PastReading

(* Whom a run past its reading has missed so far *)
LEMMA Misses ==
  ASSUME IInv, NEW r \in Runs, run[r].pc \in PastReading, NEW q,
         q.event = run[r].event, q.missed = run[r].missed
  PROVE  \A o \in Runs \ {r} : run[o].pc = "record" /\ run[o].event = q.event =>
           run[o].mail \in q.missed
  BY DEF IInv, Heard

----------------------------------------------------------------------------
(* One lemma per statement of a page and of a run *)

LEMMA PageKeeps ==
  ASSUME IInv, NEW r \in ButtonRuns, NEW e \in Events, PageReadsWork(r, e)
  PROVE  IInv'
<1>1. PICK q : q = [Idle EXCEPT !.pc = "page", !.event = e,
                               !.open = {p \in Speakers : <<e, p>> \in owes},
                               !.quiet = {e} \X Speakers]
  OBVIOUS
<1>2. r \in Runs /\ Set(r, q) /\ UNCHANGED <<world, ran, age, silent, failures>>
  BY <1>1 DEF PageReadsWork, Runs
<1>3. q \in Run
  <2>1. {e} \X Speakers \subseteq Pairs
    BY DEF Pairs
  <2> QED BY <1>1, <2>1, IdleRun DEF Run
<1>4. q.pc = "page" /\ q.event = e /\ q.open = {p \in Speakers : <<e, p>> \in owes}
  BY <1>1 DEF Idle
<1>5. owes' = owes /\ silent' \in [Pairs -> Days] /\ failures' \in 0..MaxFailures /\ ran' \subseteq Runs
  BY <1>2 DEF IInv, TypeOK, world
<1>6. ASSUME run'[r] = q
      PROVE  Knows(r)'
  <2>1. Placed(r)' /\ LogKept(r)' /\ Spared(r)'
    BY <1>4, <1>6 DEF Placed, LogKept, Spared, Reading, PastReading, Mailer, Resting, Pages
  <2>2. OpenIs(run[r], e)'
    BY <1>4, <1>5, <1>6 DEF OpenIs
  <2>3. Kept(r)'
    BY <1>4, <1>6, <2>2 DEF Kept, Reading, PastReading
  <2> QED BY <2>1, <2>3 DEF Knows
<1> QED BY <1>2, <1>3, <1>4, <1>5, <1>6, GoKeeps DEF PastReading

LEMMA DialogKeeps ==
  ASSUME IInv, NEW r \in ButtonRuns, PageReadsRecipients(r)
  PROVE  IInv'
<1>1. r \in Runs /\ run[r].pc = "page" /\ UNCHANGED <<world, ran, age, silent, failures>>
  BY DEF PageReadsRecipients, At, Runs
<1>2. run[r] \in Run /\ Knows(r) /\ TypeOK
  BY <1>1 DEF IInv, TypeOK
<1>3. PICK e \in Events : e = run[r].event
  BY <1>1, <1>2 DEF Knows, Placed, Pages
<1>4. PICK n : n = PreviewTaskDigest(e, run[r].open)
  OBVIOUS
<1>5. /\ n \subseteq Speakers
      /\ \A p \in Speakers : p \in n <=> /\ p \in run[r].open /\ <<e, p>> \notin declined
                                         /\ e \notin started /\ age[<<e, p>>] >= ManualSilence
  BY <1>2, <1>4, RunFields, <1>1 DEF PreviewTaskDigest
<1>6. PICK q : q = [run[r] EXCEPT !.pc = "dialog", !.open = {}, !.promised = n]
  OBVIOUS
<1>7. q \in Run
  BY <1>2, <1>5, <1>6 DEF Run
<1>8. Set(r, q)
  BY <1>3, <1>4, <1>6 DEF PageReadsRecipients
<1>9. q.pc = "dialog" /\ q.event = e /\ q.promised = n /\ q.quiet = run[r].quiet
  BY <1>2, <1>3, <1>6 DEF Run
<1>10. silent' \in [Pairs -> Days] /\ failures' \in 0..MaxFailures /\ ran' \subseteq Runs
  BY <1>1, <1>2 DEF TypeOK
<1>11. owes' = owes /\ declined' = declined /\ started' = started /\ age' = age
  BY <1>1 DEF world
<1>12. ASSUME run'[r] = q
       PROVE  Knows(r)'
  <2>1. Placed(r)' /\ LogKept(r)' /\ Spared(r)'
    BY <1>9, <1>12 DEF Placed, LogKept, Spared, Reading, PastReading, Mailer, Resting, Pages
  <2>2. OpenIs(run[r], e)
    BY <1>1, <1>2, <1>3 DEF Knows, Kept
  <2>3. NumberIs(run[r], e)'
    BY <1>5, <1>9, <1>11, <1>12, <2>2 DEF OpenIs, NumberIs, Reached, Due
  <2>4. Kept(r)'
    BY <1>9, <1>12, <2>3 DEF Kept, Reading, PastReading
  <2> QED BY <2>1, <2>4 DEF Knows
<1> QED BY <1>1, <1>7, <1>8, <1>9, <1>10, <1>12, GoKeeps DEF PastReading

LEMMA CronKeeps ==
  ASSUME IInv, NEW r \in CronRuns, Cron(r)
  PROVE  IInv'
<1>1. r \in Runs /\ r \notin ButtonRuns
  BY DigestConstants DEF Runs
<1>2. PICK q : q = [[Idle EXCEPT !.pc = "drafts", !.unread = Events]
                      EXCEPT !.clear = Pairs \ owes, !.away = declined]
  OBVIOUS
<1>3. Set(r, q) /\ ran' = ran \cup {r} /\ UNCHANGED <<world, age, silent, failures>>
  BY <1>2 DEF Cron, Begin
<1>4. q \in Run
  BY <1>2, IdleRun DEF IInv, TypeOK, Run
<1>5. q.pc = "drafts" /\ q.clear = Pairs \ owes /\ q.away = declined
  BY <1>2 DEF Idle
<1>6. silent' \in [Pairs -> Days] /\ failures' \in 0..MaxFailures /\ ran' \subseteq Runs
  BY <1>1, <1>3 DEF IInv, TypeOK
<1>7. ASSUME run'[r] = q
      PROVE  Knows(r)'
  BY <1>1, <1>3, <1>5, <1>7 DEF Knows, Placed, LogKept, Spared, Kept, Reading, PastReading, Mailer,
                                Resting, Pages, world
<1> QED BY <1>1, <1>3, <1>4, <1>5, <1>6, <1>7, GoKeeps DEF PastReading

LEMMA ButtonKeeps ==
  ASSUME IInv, NEW r \in ButtonRuns, Button(r)
  PROVE  IInv'
<1>1. r \in Runs /\ run[r].pc = "dialog"
  BY DEF Runs, Button, At
<1>2. run[r] \in Run /\ Knows(r) /\ TypeOK
  BY <1>1 DEF IInv, TypeOK
<1>3. PICK e \in Events : e = run[r].event
  BY <1>1, <1>2 DEF Knows, Placed, Pages
<1>4. PICK q : q = [[run[r] EXCEPT !.pc = "event", !.unread = {e}, !.event = None]
                      EXCEPT !.clear = Pairs \ owes, !.away = declined]
  OBVIOUS
<1>5. Set(r, q) /\ ran' = ran \cup {r} /\ UNCHANGED <<world, age, silent, failures>>
  BY <1>3, <1>4 DEF Button, Begin
<1>6. q \in Run
  <2>1. Pairs \ owes \subseteq Pairs /\ declined \subseteq Pairs /\ {e} \subseteq Events
    BY <1>2 DEF TypeOK
  <2> QED BY <1>2, <1>4, <2>1 DEF Run
<1>7. /\ q.pc = "event" /\ q.clear = Pairs \ owes /\ q.away = declined /\ q.unread = {e}
      /\ q.promised = run[r].promised /\ q.quiet = run[r].quiet
  BY <1>2, <1>4 DEF Run
<1>8. silent' \in [Pairs -> Days] /\ failures' \in 0..MaxFailures /\ ran' \subseteq Runs
  BY <1>1, <1>2, <1>5 DEF TypeOK
<1>9. owes' = owes /\ declined' = declined /\ started' = started /\ age' = age
  BY <1>5 DEF world
<1>10. ASSUME run'[r] = q
       PROVE  Knows(r)'
  <2>1. Placed(r)' /\ LogKept(r)'
    BY <1>7, <1>10 DEF Placed, LogKept, Reading, PastReading, Mailer, Pages
  <2>2. Spared(r)'
    BY <1>7, <1>9, <1>10 DEF Spared, Reading, PastReading
  <2>3. NumberIs(run[r], e)
    BY <1>1, <1>2, <1>3 DEF Knows, Kept
  <2>4. NumberIs(run[r], e)'
    BY <1>7, <1>9, <1>10, <2>3 DEF NumberIs, Reached, Due
  <2>5. Kept(r)'
    BY <1>7, <1>10, <2>4 DEF Kept, Reading, PastReading
  <2> QED BY <2>1, <2>2, <2>5 DEF Knows
<1> QED BY <1>1, <1>5, <1>6, <1>7, <1>8, <1>10, GoKeeps DEF PastReading

LEMMA DraftsDoneKeeps ==
  ASSUME IInv, NEW r \in Runs, DraftsDone(r)
  PROVE  IInv'
<1>1. /\ run[r].pc = "drafts" /\ UNCHANGED <<world, ran, age, silent, failures>>
      /\ Set(r, [run[r] EXCEPT !.pc = "event"]) \/ Set(r, Idle)
  BY DEF DraftsDone, At
<1>2. /\ run[r] \in Run /\ Knows(r) /\ silent' \in [Pairs -> Days] /\ failures' \in 0..MaxFailures
      /\ ran' \subseteq Runs
  BY <1>1 DEF IInv, TypeOK
<1>3. CASE Set(r, Idle)
  BY <1>1, <1>2, <1>3, EndKeeps
<1>4. CASE Set(r, [run[r] EXCEPT !.pc = "event"])
  <2>1. PICK q : q = [run[r] EXCEPT !.pc = "event"]
    OBVIOUS
  <2>2. q \in Run
    BY <1>2, <2>1 DEF Run
  <2>3. q.pc = "event" /\ q.clear = run[r].clear /\ q.away = run[r].away
    BY <1>2, <2>1 DEF Run
  <2>4. r \notin ButtonRuns
    BY <1>1, <1>2, DigestConstants DEF Knows, Placed
  <2>5. ASSUME run'[r] = q
        PROVE  Knows(r)'
    <3>1. Placed(r)' /\ LogKept(r)' /\ Kept(r)'
      BY <2>3, <2>4, <2>5 DEF Placed, LogKept, Kept, Reading, PastReading, Mailer, Pages
    <3>2. Spared(r)'
      BY <1>1, <1>2, <2>3, <2>5 DEF Knows, Spared, Reading, PastReading, Resting, Pages, world
    <3> QED BY <3>1, <3>2 DEF Knows
  <2>6. Set(r, q)
    BY <1>4, <2>1
  <2> QED BY <1>1, <1>2, <2>2, <2>3, <2>5, <2>6, GoKeeps DEF PastReading
<1> QED BY <1>1, <1>3, <1>4

LEMMA ReadAssignmentsKeeps ==
  ASSUME IInv, NEW r \in Runs, NEW e \in Events, ReadAssignments(r, e)
  PROVE  IInv'
<1>1. /\ run[r].pc = "event" /\ e \in run[r].unread
      /\ UNCHANGED <<world, ran, age, silent, failures>>
      /\ Set(r, [run[r] EXCEPT !.pc = "read", !.unread = @ \ {e}, !.event = e,
                               !.open = {p \in Speakers : <<e, p>> \in owes},
                               !.rest = Speakers])
  BY DEF ReadAssignments, At
<1>2. /\ run[r] \in Run /\ Knows(r) /\ silent' \in [Pairs -> Days] /\ failures' \in 0..MaxFailures
      /\ ran' \subseteq Runs
  BY <1>1 DEF IInv, TypeOK
<1>3. PICK q : q = [run[r] EXCEPT !.pc = "read", !.unread = @ \ {e}, !.event = e,
                               !.open = {p \in Speakers : <<e, p>> \in owes},
                               !.rest = Speakers]
  OBVIOUS
<1>4. q \in Run
  BY <1>2, <1>3 DEF Run
<1>5. /\ q.pc = "read" /\ q.unread = run[r].unread \ {e} /\ q.event = e
      /\ q.open = {p \in Speakers : <<e, p>> \in owes} /\ q.rest = Speakers
      /\ q.promised = run[r].promised /\ q.quiet = run[r].quiet
      /\ q.clear = run[r].clear /\ q.away = run[r].away
  BY <1>2, <1>3 DEF Run
<1>6. owes' = owes /\ declined' = declined /\ started' = started /\ age' = age
  BY <1>1 DEF world
<1>7. ASSUME run'[r] = q
      PROVE  Knows(r)'
  <2>1. Placed(r)' /\ LogKept(r)'
    BY <1>5, <1>7 DEF Placed, LogKept, Reading, PastReading, Mailer
  <2>2. Spared(r)'
    BY <1>1, <1>2, <1>5, <1>6, <1>7 DEF Knows, Spared, Reading, PastReading, Resting, Pages
  <2>3. Kept(r)'
    <3> SUFFICES ASSUME r \in ButtonRuns
                 PROVE  Kept(r)'
      BY DEF Kept
    <3>1. run[r].unread = {e} /\ NumberIs(run[r], e)
      BY <1>1, <1>2 DEF Knows, Kept
    <3>2. NumberIs(run[r], e)'
      BY <1>5, <1>6, <1>7, <3>1 DEF NumberIs, Reached, Due
    <3>3. OpenIs(run[r], e)'
      BY <1>5, <1>6, <1>7 DEF OpenIs
    <3> QED BY <1>5, <1>7, <3>1, <3>2, <3>3 DEF Kept, PastReading
  <2> QED BY <2>1, <2>2, <2>3 DEF Knows
<1>8. Set(r, q)
  BY <1>1, <1>3
<1> QED BY <1>1, <1>2, <1>4, <1>5, <1>7, <1>8, GoKeeps DEF PastReading

LEMMA ReadRecipientsKeeps ==
  ASSUME IInv, NEW r \in Runs, ReadRecipients(r)
  PROVE  IInv'
<1>1. run[r].pc = "read" /\ UNCHANGED <<world, ran, age, silent, failures>>
  BY DEF ReadRecipients, At
<1>2. /\ run[r] \in Run /\ Knows(r) /\ silent' \in [Pairs -> Days] /\ failures' \in 0..MaxFailures
      /\ ran' \subseteq Runs
      /\ age \in [Pairs -> Days] /\ run[r].rest \subseteq Speakers /\ TypeOK
  BY <1>1, RunFields DEF IInv, TypeOK
<1>3. PICK e \in Events : e = run[r].event
  BY <1>1, <1>2 DEF Knows, Placed, Reading
<1>4. /\ Logged(e) \in [Speakers -> Days] /\ \A p \in Speakers : Logged(e)[p] = age[<<e, p>>]
  BY <1>2 DEF Logged, Pairs
<1>5. PICK m \in SUBSET Speakers :
        m = {p \in Speakers : \E o \in Runs : At(o, "record") /\ Mailing(o) = <<e, p>>}
  OBVIOUS
<1>6. PICK q : q = [run[r] EXCEPT !.pc = "speaker", !.last = Logged(e),
                                !.out = {p \in Speakers : <<e, p>> \in declined}, !.missed = m]
  OBVIOUS
<1>7. q \in Run
  BY <1>2, <1>4, <1>6 DEF Run
<1>8. /\ q.pc = "speaker" /\ q.unread = run[r].unread /\ q.event = e
      /\ q.open = run[r].open /\ q.rest = run[r].rest /\ q.last = Logged(e)
      /\ q.out = {p \in Speakers : <<e, p>> \in declined} /\ q.missed = m
      /\ q.promised = run[r].promised /\ q.quiet = run[r].quiet
      /\ q.clear = run[r].clear /\ q.away = run[r].away
  BY <1>2, <1>3, <1>6 DEF Run
<1>9. owes' = owes /\ declined' = declined /\ started' = started /\ age' = age
  BY <1>1 DEF world
<1>10. ASSUME run'[r] = q
       PROVE  Knows(r)'
  <2>1. Placed(r)'
    BY <1>8, <1>10 DEF Placed, Mailer
  <2>2. LogKept(r)'
    BY <1>2, <1>4, <1>8, <1>9, <1>10 DEF LogKept
  <2>3. Spared(r)'
    BY <1>1, <1>2, <1>3, <1>8, <1>9, <1>10 DEF Knows, Spared, Reading, Resting, Pages
  <2>4. Kept(r)'
    <3> SUFFICES ASSUME r \in ButtonRuns
                 PROVE  /\ q.unread = {}
                        /\ \A p \in q.rest : <<e, p>> \in q.quiet =>
                             (ToMail(r, p)' <=> p \in q.promised)
      BY <1>8, <1>10 DEF Kept, PastReading
    <3>1. q.unread = {} /\ OpenIs(run[r], e) /\ NumberIs(run[r], e)
      BY <1>1, <1>2, <1>3, <1>8 DEF Knows, Kept, Reading
    <3>2. SilenceOf(r) = ManualSilence /\ ManualSilence \in Nat
      BY DigestConstants DEF SilenceOf
    <3>3. ASSUME NEW p \in Speakers, <<e, p>> \in q.quiet
          PROVE  ToMail(r, p)' <=> /\ <<e, p>> \in owes /\ <<e, p>> \notin declined /\ e \notin started
                                   /\ ~(age[<<e, p>>] < ManualSilence)
      BY <1>4, <1>8, <1>9, <1>10, <3>1, <3>2, <3>3 DEF ToMail, Cooling, OpenIs
    <3>4. ASSUME NEW p \in Speakers
          PROVE  age[<<e, p>>] \in Nat
      BY <1>2, DigestConstants DEF Days, Pairs
    <3>5. ASSUME NEW p \in Speakers, <<e, p>> \in q.quiet
          PROVE  p \in q.promised <=> /\ <<e, p>> \in owes /\ <<e, p>> \notin declined /\ e \notin started
                                      /\ age[<<e, p>>] >= ManualSilence
      BY <1>8, <3>1, <3>5 DEF NumberIs, Reached, Due
    <3>6. \A p \in Speakers : ~(age[<<e, p>>] < ManualSilence) <=> age[<<e, p>>] >= ManualSilence
      BY <3>2, <3>4
    <3> QED BY <1>2, <1>8, <3>1, <3>3, <3>5, <3>6
  <2> QED BY <2>1, <2>2, <2>3, <2>4 DEF Knows
<1>11. Set(r, q)
  BY <1>3, <1>5, <1>6 DEF ReadRecipients
<1>12. ASSUME NEW o \in Runs, run[o].pc = "record", run[o].event = e
       PROVE  run[o].mail \in m
  <2>1. run[o].mail \in Speakers
    BY <1>12 DEF IInv, Knows, Placed, Mailer
  <2> QED BY <1>5, <1>12, <2>1 DEF At, Mailing
<1> QED BY <1>1, <1>2, <1>7, <1>8, <1>10, <1>11, <1>12, GoKeeps

LEMMA DecideKeeps ==
  ASSUME IInv, NEW r \in Runs, NEW s \in Speakers, Decide(r, s)
  PROVE  IInv'
<1>1. /\ run[r].pc = "speaker" /\ s \in run[r].rest
      /\ UNCHANGED <<world, ran, age, silent, failures>>
      /\ Set(r, IF ToMail(r, s)
                THEN [run[r] EXCEPT !.pc = "send", !.rest = @ \ {s}, !.mail = s]
                ELSE [run[r] EXCEPT !.rest = @ \ {s}])
  BY DEF Decide, At
<1>2. /\ run[r] \in Run /\ Knows(r) /\ silent' \in [Pairs -> Days] /\ failures' \in 0..MaxFailures
      /\ ran' \subseteq Runs
      /\ age \in [Pairs -> Days] /\ run[r].last \in [Speakers -> Days] /\ run[r].rest \subseteq Speakers
  BY <1>1, RunFields DEF IInv, TypeOK
<1>3. PICK e \in Events : e = run[r].event
  BY <1>1, <1>2 DEF Knows, Placed, Reading, PastReading
<1>4. started' = started /\ owes' = owes /\ declined' = declined /\ age' = age
  BY <1>1 DEF world
<1>5. PICK label \in {"send", "speaker"}, mail \in Speakers \cup {None} :
        /\ Set(r, [run[r] EXCEPT !.pc = label, !.rest = run[r].rest \ {s}, !.mail = mail])
        /\ label = "send" => mail = s /\ ToMail(r, s)
  <2>1. [run[r] EXCEPT !.rest = run[r].rest \ {s}]
          = [run[r] EXCEPT !.pc = "speaker", !.rest = run[r].rest \ {s}, !.mail = run[r].mail]
    BY <1>1, <1>2 DEF Run
  <2>2. run[r].mail \in Speakers \cup {None}
    BY <1>2 DEF Run
  <2> QED BY <1>1, <2>1, <2>2
<1>6. PICK q : q = [run[r] EXCEPT !.pc = label, !.rest = run[r].rest \ {s}, !.mail = mail]
  OBVIOUS
<1>7. q \in Run
  BY <1>2, <1>6 DEF Run
<1>8. /\ q.pc = label /\ q.rest = run[r].rest \ {s} /\ q.mail = mail /\ q.event = e
      /\ q.unread = run[r].unread /\ q.open = run[r].open /\ q.last = run[r].last
      /\ q.out = run[r].out /\ q.promised = run[r].promised /\ q.quiet = run[r].quiet
      /\ q.missed = run[r].missed /\ q.clear = run[r].clear /\ q.away = run[r].away
  BY <1>2, <1>3, <1>6 DEF Run
<1>9. ASSUME run'[r] = q
      PROVE  Knows(r)'
  <2>1. Placed(r)'
    BY <1>3, <1>5, <1>8, <1>9 DEF Placed, Mailer
  <2>2. LogKept(r)'
    <3>1. \A p \in run[r].rest : p \notin run[r].missed => run[r].last[p] = age[<<e, p>>]
      BY <1>1, <1>2, <1>3 DEF Knows, LogKept, PastReading
    <3>2. ASSUME label = "send", s \notin run[r].missed
          PROVE  age[<<e, s>>] >= SilenceOf(r)
      <4>1. ~(run[r].last[s] < SilenceOf(r))
        BY <1>5, <3>2 DEF ToMail, Cooling
      <4>2. run[r].last[s] \in Nat /\ SilenceOf(r) \in Nat
        BY <1>2, SilenceBounds, DigestConstants DEF Days
      <4>3. run[r].last[s] = age[<<e, s>>]
        BY <1>1, <3>1, <3>2
      <4> QED BY <4>1, <4>2, <4>3
    <3> QED BY <1>4, <1>5, <1>8, <1>9, <3>1, <3>2 DEF LogKept, Mailing
  <2>3. Spared(r)'
    <3>1. label = "send" => s \in run[r].open \ run[r].out /\ run[r].event \notin started
      BY <1>5 DEF ToMail
    <3> QED BY <1>1, <1>2, <1>3, <1>4, <1>5, <1>8, <1>9, <3>1
            DEF Knows, Spared, Reading, PastReading, Resting, Pages
  <2>4. Kept(r)'
    <3>1. \A p : ToMail(r, p)' <=> ToMail(r, p)
      BY <1>3, <1>4, <1>8, <1>9 DEF ToMail, Cooling
    <3> QED BY <1>1, <1>2, <1>3, <1>5, <1>8, <1>9, <3>1 DEF Knows, Kept, Reading, PastReading
  <2> QED BY <2>1, <2>2, <2>3, <2>4 DEF Knows
<1>10. Set(r, q)
  BY <1>5, <1>6
<1>11. run[r].pc \in PastReading /\ q.pc # "record"
  BY <1>1, <1>5, <1>8 DEF PastReading
<1>12. \A o \in Runs \ {r} : run[o].pc = "record" /\ run[o].event = q.event =>
         run[o].mail \in q.missed
  BY <1>3, <1>8, <1>11, Misses
<1> QED BY <1>1, <1>2, <1>7, <1>9, <1>10, <1>11, <1>12, GoKeeps

(* What a run knows does not depend on where it is with its one mail. *)
LEMMA MailMoves ==
  ASSUME IInv, NEW r \in Runs, run[r].pc \in Mailer,
         NEW label \in {"speaker", "record", "refused"}, NEW mail,
         label # "speaker" => mail = run[r].mail,
         run'[r] = [run[r] EXCEPT !.pc = label, !.mail = mail],
         owes' = owes, declined' = declined, started' = started,
         \A p \in run[r].rest : age'[<<run[r].event, p>>] = age[<<run[r].event, p>>]
  PROVE  Knows(r)'
<1>1. run[r] \in Run /\ Knows(r)
  BY DEF IInv, TypeOK
<1>2. PICK q : q = run'[r]
  OBVIOUS
<1>3. /\ q.pc = label /\ q.rest = run[r].rest /\ q.event = run[r].event /\ q.mail = mail
      /\ q.unread = run[r].unread /\ q.open = run[r].open /\ q.last = run[r].last
      /\ q.out = run[r].out /\ q.promised = run[r].promised /\ q.quiet = run[r].quiet
      /\ q.missed = run[r].missed /\ q.clear = run[r].clear /\ q.away = run[r].away
  BY <1>1, <1>2 DEF Run
<1>4. Placed(r)'
  BY <1>1, <1>2, <1>3 DEF Knows, Placed, Reading, PastReading, Mailer
<1>5. LogKept(r)'
  BY <1>1, <1>2, <1>3 DEF Knows, LogKept, PastReading, Mailer
<1>6. Spared(r)'
  BY <1>1, <1>2, <1>3 DEF Knows, Spared, Reading, PastReading, Mailer, Resting, Pages
<1>7. Kept(r)'
  <2>1. \A p : ToMail(r, p)' <=> ToMail(r, p)
    BY <1>2, <1>3 DEF ToMail, Cooling
  <2> QED BY <1>1, <1>2, <1>3, <2>1 DEF Knows, Kept, Reading, PastReading, Mailer
<1> QED BY <1>4, <1>5, <1>6, <1>7 DEF Knows

(* The mail leaves: whoever has read the log of its event misses it. *)
LEMMA DeliverKeeps ==
  ASSUME IInv, NEW r \in Runs, Deliver(r)
  PROVE  IInv'
<1>1. /\ run[r].pc = "send" /\ UNCHANGED <<world, ran, age, failures>>
      /\ silent' = [silent EXCEPT ![Mailing(r)] = 0]
      /\ run' = [o \in Runs |->
                   IF o = r THEN [run[r] EXCEPT !.pc = "record"]
                   ELSE IF run[o].event = run[r].event /\ run[o].pc \in PastReading
                        THEN [run[o] EXCEPT !.missed = @ \cup {run[r].mail}] ELSE run[o]]
  BY DEF Deliver, At
<1>2. run[r] \in Run /\ Knows(r) /\ TypeOK
  BY DEF IInv, TypeOK
<1>3. run[r].mail \in Speakers /\ run[r].rest \subseteq Speakers
  BY <1>1, <1>2, RunFields DEF Knows, Placed, Mailer
<1>4. owes' = owes /\ declined' = declined /\ started' = started /\ age' = age /\ day' = day
      /\ changes' = changes
  BY <1>1 DEF world
<1>5. PICK q : q = [run[r] EXCEPT !.pc = "record"]
  OBVIOUS
<1>6. q \in Run /\ run'[r] = q
  BY <1>1, <1>2, <1>5 DEF Run
<1>7. /\ q.pc = "record" /\ q.event = run[r].event /\ q.mail = run[r].mail
      /\ q.missed = run[r].missed
  BY <1>2, <1>5 DEF Run
<1>8. ASSUME NEW o \in Runs \ {r}
      PROVE  /\ run'[o] \in Run /\ Aside(o)
             /\ run[o].pc \in PastReading /\ run[o].event = q.event => q.mail \in run'[o].missed
  <2>1. run[o] \in Run
    BY <1>2 DEF TypeOK
  <2>2. CASE run[o].event = run[r].event /\ run[o].pc \in PastReading
    <3>1. PICK m \in SUBSET Speakers : m = run[o].missed \cup {run[r].mail}
      BY <1>3, <2>1 DEF Run
    <3>2. run'[o] = [run[o] EXCEPT !.missed = m]
      BY <1>1, <2>2, <3>1
    <3>3. /\ run'[o] \in Run /\ run'[o].missed = m /\ SameReadings(run'[o], run[o])
          /\ run'[o].quiet = run[o].quiet /\ run'[o].clear = run[o].clear
          /\ run'[o].away = run[o].away
      BY <2>1, <3>2 DEF Run, SameReadings
    <3>4. Spared(o)
      BY DEF IInv, Knows
    <3>5. Aside(o)
      BY <1>4, <3>1, <3>3, <3>4 DEF Aside, Steady, Spared
    <3> QED BY <1>7, <3>1, <3>3, <3>5
  <2>3. CASE ~(run[o].event = run[r].event /\ run[o].pc \in PastReading)
    <3>1. run'[o] = run[o]
      BY <1>1, <2>3
    <3> QED BY <1>4, <1>7, <2>1, <2>3, <3>1, AsideSame
  <2> QED BY <2>2, <2>3
<1>9. TypeOK'
  <2>1. 0 \in Days
    BY DigestConstants DEF Days
  <2>2. silent' \in [Pairs -> Days]
    BY <1>1, <1>2, <2>1 DEF TypeOK
  <2>3. run' \in [Runs -> Run]
    <3>1. \A o \in Runs : run'[o] \in Run
      BY <1>6, <1>8
    <3>2. run' = [o \in Runs |-> run'[o]]
      BY <1>1
    <3> QED BY <3>1, <3>2
  <2> QED BY <1>1, <1>2, <1>4, <2>2, <2>3 DEF TypeOK
<1>10. Knows(r)'
  <2>1. run'[r] = [run[r] EXCEPT !.pc = "record", !.mail = run[r].mail]
    BY <1>2, <1>5, <1>6 DEF Run
  <2> QED BY <1>1, <1>4, <2>1, MailMoves DEF Mailer
<1>11. \A o \in Runs \ {r} : run[o].pc = "record" /\ run[o].event = q.event =>
         run[o].mail \in q.missed
  BY <1>1, <1>7, Misses DEF PastReading
<1> QED BY <1>6, <1>8, <1>9, <1>10, <1>11, StepKeeps

(* The mail is refused, that is logged, or the row of a mail is lost. *)
LEMMA UnrecordedKeeps ==
  ASSUME IInv, NEW r \in Runs, Bounce(r) \/ RecordFailure(r) \/ LoseRow(r)
  PROVE  IInv'
<1>1. /\ run[r].pc \in Mailer /\ UNCHANGED <<world, ran, age, silent>>
      /\ \/ Set(r, [run[r] EXCEPT !.pc = "refused"])
         \/ Set(r, [run[r] EXCEPT !.pc = "speaker", !.mail = None])
  BY DEF Bounce, RecordFailure, LoseRow, At, Mailer
<1>2. /\ run[r] \in Run /\ Knows(r) /\ TypeOK
  BY DEF IInv, TypeOK
<1>3. failures' \in 0..MaxFailures
  BY <1>2, DigestConstants DEF Bounce, RecordFailure, LoseRow, TypeOK
<1>4. PICK label \in {"speaker", "refused"}, mail \in Speakers \cup {None} :
        /\ Set(r, [run[r] EXCEPT !.pc = label, !.mail = mail])
        /\ label # "speaker" => mail = run[r].mail
  <2>1. [run[r] EXCEPT !.pc = "refused"] = [run[r] EXCEPT !.pc = "refused", !.mail = run[r].mail]
    BY <1>2 DEF Run
  <2>2. run[r].mail \in Speakers \cup {None}
    BY <1>2 DEF Run
  <2> QED BY <1>1, <2>1, <2>2
<1>5. PICK q : q = [run[r] EXCEPT !.pc = label, !.mail = mail]
  OBVIOUS
<1>6. q \in Run /\ Set(r, q)
  BY <1>2, <1>4, <1>5 DEF Run
<1>7. q.pc = label /\ q.event = run[r].event /\ q.missed = run[r].missed
  BY <1>2, <1>5 DEF Run
<1>8. owes' = owes /\ declined' = declined /\ started' = started /\ age' = age
  BY <1>1 DEF world
<1>9. ASSUME run'[r] = q
      PROVE  Knows(r)'
  BY <1>1, <1>4, <1>5, <1>8, <1>9, MailMoves
<1>10. silent' \in [Pairs -> Days] /\ ran' \subseteq Runs
  BY <1>1, <1>2 DEF TypeOK
<1>11. \A o \in Runs \ {r} : run[o].pc = "record" /\ run[o].event = q.event =>
         run[o].mail \in q.missed
  BY <1>1, <1>7, Misses DEF PastReading, Mailer
<1> QED BY <1>1, <1>3, <1>4, <1>6, <1>7, <1>9, <1>10, <1>11, GoKeeps

(* A step of one actor beside a run that keeps what it has *)
LEMMA BesideIs ==
  ASSUME TypeOK, NEW o \in Runs
  PROVE  /\ Beside(run[o]) \in Run /\ SameReadings(Beside(run[o]), run[o])
         /\ Beside(run[o]).quiet \subseteq run[o].quiet
         /\ Beside(run[o]).missed = run[o].missed /\ Beside(run[o]).clear = run[o].clear
         /\ Beside(run[o]).away = run[o].away
         /\ run[o].pc \in {"page", "dialog", "event", "read"} =>
              \A x \in Pairs : x \in Beside(run[o]).quiet => Steady(x)
<1>1. PICK n \in SUBSET Pairs :
        n = {x \in run[o].quiet : run[o].pc \in {"page", "dialog", "event", "read"} => Steady(x)}
  BY RunFields
<1>2. Beside(run[o]) = [run[o] EXCEPT !.quiet = n]
  BY <1>1 DEF Beside
<1>3. run[o] \in Run
  BY DEF TypeOK
<1>4. /\ Beside(run[o]) \in Run /\ Beside(run[o]).quiet = n
      /\ SameReadings(Beside(run[o]), run[o])
      /\ Beside(run[o]).missed = run[o].missed /\ Beside(run[o]).clear = run[o].clear
      /\ Beside(run[o]).away = run[o].away
  BY <1>2, <1>3 DEF Run, SameReadings
<1> QED BY <1>1, <1>4

(* It is logged as sent: what the log has about the others is as it was.    *)
LEMMA RecordKeeps ==
  ASSUME IInv, NEW r \in Runs, Record(r)
  PROVE  IInv'
<1>1. /\ run[r].pc = "record" /\ UNCHANGED <<world, ran, silent, failures>>
      /\ age' = [age EXCEPT ![Mailing(r)] = 0]
      /\ run' = [o \in Runs |->
                   IF o = r THEN [run[r] EXCEPT !.pc = "speaker", !.mail = None]
                   ELSE Beside(run[o])]
  BY DEF Record, At
<1>2. run[r] \in Run /\ Knows(r) /\ TypeOK /\ age \in [Pairs -> Days] /\ run[r].rest \subseteq Speakers
  BY RunFields DEF IInv, TypeOK
<1>3. owes' = owes /\ declined' = declined /\ started' = started /\ day' = day /\ changes' = changes
  BY <1>1 DEF world
<1>4. run[r].event \in Events /\ run[r].mail \in Speakers \ run[r].rest
  BY <1>1, <1>2 DEF Knows, Placed, Reading, PastReading, Mailer
<1>5. \A x \in Pairs : x # <<run[r].event, run[r].mail>> => age'[x] = age[x]
  BY <1>1, <1>2 DEF Mailing
<1>6. PICK q : q = [run[r] EXCEPT !.pc = "speaker", !.mail = None]
  OBVIOUS
<1>7. q \in Run /\ run'[r] = q
  BY <1>1, <1>2, <1>6 DEF Run
<1>8. q.pc = "speaker" /\ q.event = run[r].event /\ q.missed = run[r].missed
  BY <1>2, <1>6 DEF Run
<1>9. ASSUME NEW o \in Runs \ {r}
      PROVE  run'[o] \in Run /\ Aside(o)
  <2>1. run'[o] = Beside(run[o])
    BY <1>1
  <2>2. Spared(o) /\ Placed(o)
    BY DEF IInv, Knows
  <2>3. run[o].pc \in PastReading =>
          \A p \in Speakers :
            p \notin run'[o].missed => age'[<<run[o].event, p>>] = age[<<run[o].event, p>>]
    <3> SUFFICES ASSUME run[o].pc \in PastReading, NEW p \in Speakers, p \notin run'[o].missed
                 PROVE  age'[<<run[o].event, p>>] = age[<<run[o].event, p>>]
      OBVIOUS
    <3>1. run[o].event \in Events
      BY <2>2 DEF Placed, Reading
    <3>2. p \notin run[o].missed
      BY <1>2, <2>1, BesideIs
    <3>3. ~(run[o].event = run[r].event /\ p = run[r].mail)
      BY <1>1, <3>2 DEF IInv, Heard
    <3>4. <<run[o].event, p>> \in Pairs
      BY <3>1 DEF Pairs
    <3>5. <<run[o].event, p>> # <<run[r].event, run[r].mail>>
      BY <3>3
    <3> QED BY <1>5, <3>4, <3>5
  <2>4. Aside(o)
    BY <1>2, <1>3, <2>1, <2>2, <2>3, BesideIs DEF Aside, Spared
  <2> QED BY <1>2, <2>1, <2>4, BesideIs
<1>10. TypeOK'
  <2>1. 0 \in Days
    BY DigestConstants DEF Days
  <2>2. age' \in [Pairs -> Days]
    BY <1>1, <1>2, <2>1
  <2>3. run' \in [Runs -> Run]
    <3>1. \A o \in Runs : run'[o] \in Run
      BY <1>7, <1>9
    <3>2. run' = [o \in Runs |-> run'[o]]
      BY <1>1
    <3> QED BY <3>1, <3>2
  <2> QED BY <1>1, <1>2, <1>3, <2>2, <2>3 DEF TypeOK
<1>11. Knows(r)'
  <2>1. \A p \in run[r].rest : age'[<<run[r].event, p>>] = age[<<run[r].event, p>>]
    BY <1>2, <1>4, <1>5 DEF Pairs
  <2> QED BY <1>1, <1>3, <1>6, <1>7, <2>1, MailMoves DEF Mailer
<1>12. \A o \in Runs \ {r} : run[o].pc = "record" /\ run[o].event = q.event =>
         run[o].mail \in q.missed
  BY <1>1, <1>8, Misses DEF PastReading
<1> QED BY <1>7, <1>8, <1>9, <1>10, <1>11, <1>12, StepKeeps

LEMMA NextEventKeeps ==
  ASSUME IInv, NEW r \in Runs, NextEvent(r)
  PROVE  IInv'
<1>1. /\ run[r].pc = "speaker" /\ run[r].unread # {}
      /\ UNCHANGED <<world, ran, age, silent, failures>>
      /\ Set(r, [run[r] EXCEPT !.pc = "event", !.event = None])
  BY DEF NextEvent, At
<1>2. /\ run[r] \in Run /\ Knows(r) /\ silent' \in [Pairs -> Days] /\ failures' \in 0..MaxFailures
      /\ ran' \subseteq Runs
  BY <1>1 DEF IInv, TypeOK
<1>3. PICK q : q = [run[r] EXCEPT !.pc = "event", !.event = None]
  OBVIOUS
<1>4. q \in Run
  BY <1>2, <1>3 DEF Run
<1>5. q.pc = "event" /\ q.clear = run[r].clear /\ q.away = run[r].away
  BY <1>2, <1>3 DEF Run
<1>6. r \notin ButtonRuns
  BY <1>1, <1>2 DEF Knows, Kept, Reading, PastReading
<1>7. ASSUME run'[r] = q
      PROVE  Knows(r)'
  <2>1. Placed(r)' /\ LogKept(r)' /\ Kept(r)'
    BY <1>5, <1>6, <1>7 DEF Placed, LogKept, Kept, Reading, PastReading, Mailer, Pages
  <2>2. Spared(r)'
    BY <1>1, <1>2, <1>5, <1>7 DEF Knows, Spared, Reading, PastReading, Resting, Pages, world
  <2> QED BY <2>1, <2>2 DEF Knows
<1>8. Set(r, q)
  BY <1>1, <1>3
<1> QED BY <1>1, <1>2, <1>4, <1>5, <1>7, <1>8, GoKeeps DEF PastReading

LEMMA EndsKeep ==
  ASSUME IInv, NEW r \in Runs, Finish(r) \/ Stop(r)
  PROVE  IInv'
<1>1. /\ Set(r, Idle) /\ UNCHANGED <<world, ran, age, silent>>
      /\ failures' = failures \/ (failures < MaxFailures /\ failures' = failures + 1)
  BY DEF Finish, Stop
<1>2. failures' \in 0..MaxFailures
  BY <1>1, DigestConstants DEF IInv, TypeOK
<1> QED BY <1>1, <1>2, EndKeeps
----------------------------------------------------------------------------
(* The world changes, a day passes *)

LEMMA AllAside ==
  ASSUME IInv, TypeOK', \A o \in Runs : Aside(o)
  PROVE  IInv'
<1>1. \A o \in Runs : Knows(o)'
  BY AsideKeeps
<1>2. Heard'
  BY DEF Aside, SameReadings, IInv, Heard
<1> QED BY <1>1, <1>2 DEF IInv

(* A change of the world: what a run has kept to itself loses those about   *)
(* whom it is no longer so.                                                 *)
LEMMA ChangedKeeps ==
  ASSUME IInv, Changed, owes' \subseteq Pairs, declined' \subseteq Pairs, started' \subseteq Events,
         started' = started \/ InFlight = {}
  PROVE  IInv'
<1>1. /\ changes < MaxChanges /\ changes' = changes + 1
      /\ day' = day /\ age' = age /\ silent' = silent /\ ran' = ran /\ failures' = failures
      /\ run' = [o \in Runs |->
                   [Beside(run[o]) EXCEPT !.clear = @ \ owes', !.away = @ \cap declined']]
  BY DEF Changed
<1>2. ASSUME NEW o \in Runs
      PROVE  run'[o] \in Run /\ Aside(o)
  <2>1. PICK n : n = Beside(run[o])
    OBVIOUS
  <2>2. /\ n \in Run /\ SameReadings(n, run[o]) /\ n.quiet \subseteq run[o].quiet
        /\ n.missed = run[o].missed /\ n.clear = run[o].clear /\ n.away = run[o].away
        /\ run[o].pc \in {"page", "dialog", "event", "read"} =>
              \A x \in Pairs : x \in n.quiet => Steady(x)
    BY <2>1, BesideIs DEF IInv
  <2>3. PICK c \in SUBSET Pairs : c = n.clear \ owes'
    BY <2>2 DEF Run
  <2>4. PICK a \in SUBSET Pairs : a = n.away \cap declined'
    BY <2>2 DEF Run
  <2>5. run'[o] = [n EXCEPT !.clear = c, !.away = a]
    BY <1>1, <2>1, <2>3, <2>4
  <2>6. /\ run'[o] \in Run /\ SameReadings(run'[o], n) /\ run'[o].quiet = n.quiet
        /\ run'[o].missed = n.missed /\ run'[o].clear = c /\ run'[o].away = a
    BY <2>2, <2>5 DEF Run, SameReadings
  <2>7. SameReadings(run'[o], run[o])
    BY <2>2, <2>6 DEF SameReadings
  <2>8. run[o].pc \notin Resting => started' = started
    BY DEF InFlight, Resting, Pages
  <2> QED BY <1>1, <2>2, <2>3, <2>4, <2>6, <2>7, <2>8 DEF Aside
<1>3. run' \in [Runs -> Run]
  <2>1. run' = [o \in Runs |-> run'[o]]
    BY <1>1
  <2> QED BY <1>2, <2>1
<1>4. TypeOK'
  <2>1. changes' \in 0..MaxChanges
    <3>1. changes \in 0..MaxChanges /\ MaxChanges \in Nat
      BY DigestConstants DEF IInv, TypeOK
    <3>2. changes < MaxChanges /\ changes' = changes + 1
      BY <1>1
    <3> QED BY <3>1, <3>2
  <2> QED BY <1>1, <1>3, <2>1 DEF IInv, TypeOK
<1> QED BY <1>2, <1>4, AllAside

LEMMA WorldKeeps ==
  ASSUME IInv,
         \/ \E x \in Pairs : Complete(x) \/ Hand(x) \/ Answer(x)
         \/ \E e \in Events : Start(e)
  PROVE  IInv'
<1>1. Changed /\ (started' = started \/ InFlight = {})
  BY DEF Complete, Hand, Answer, Start
<1>2. owes' \subseteq Pairs /\ declined' \subseteq Pairs /\ started' \subseteq Events
  BY DEF IInv, TypeOK, Complete, Hand, Answer, Start
<1> QED BY <1>1, <1>2, ChangedKeeps

LEMMA OlderDays ==
  ASSUME NEW f \in [Pairs -> Days]
  PROVE  Older(f) \in [Pairs -> Days]
<1>1. ASSUME NEW x \in Pairs
      PROVE  (IF f[x] < Week THEN f[x] + 1 ELSE Week) \in Days
  <2>1. f[x] \in 0..Week /\ Week \in Nat
    BY DigestConstants DEF Days
  <2> QED BY <2>1 DEF Days
<1> QED BY <1>1 DEF Older

LEMMA TickKeeps ==
  ASSUME IInv, Tick
  PROVE  IInv'
<1>1. \A o \in Runs : run[o].pc \in Resting
  BY DEF Tick, InFlight, Resting, Pages
<1>2. run' = [o \in Runs |-> Beside(run[o])]
  BY DEF Tick
<1>3. ASSUME NEW o \in Runs
      PROVE  run'[o] \in Run /\ Aside(o)
  <2>1. run'[o] = Beside(run[o])
    BY <1>2
  <2>2. run[o].pc \notin PastReading /\ run[o].pc \in Resting
    BY <1>1 DEF Resting, Pages, PastReading
  <2> QED BY <2>1, <2>2, BesideIs DEF IInv, Aside
<1>4. TypeOK'
  <2>1. age' \in [Pairs -> Days] /\ silent' \in [Pairs -> Days]
    BY OlderDays DEF IInv, TypeOK, Tick
  <2>2. day' \in 0..(Week - 1)
    <3>1. Week \in Nat /\ Week > 0
      BY DigestConstants
    <3> QED BY <3>1 DEF IInv, TypeOK, Tick
  <2>3. run' \in [Runs -> Run]
    BY <1>2, <1>3
  <2> QED BY <2>1, <2>2, <2>3 DEF IInv, TypeOK, Tick
<1> QED BY <1>3, <1>4, AllAside

----------------------------------------------------------------------------
(* The invariant is one *)

LEMMA InitKeeps == Init => IInv
<1> SUFFICES ASSUME Init
             PROVE  IInv
  OBVIOUS
<1>1. \A o \in Runs : run[o].pc = "idle"
  BY DEF Init, Idle
<1>2. TypeOK
  <2>1. Week \in Days /\ 0 \in 0..MaxFailures /\ 0 \in 0..MaxChanges
    BY DigestConstants DEF Days
  <2> QED BY <2>1, IdleRun DEF Init, TypeOK
<1>3. Heard
  BY <1>1 DEF Heard
<1> QED BY <1>1, <1>2, <1>3, IdleKnows DEF IInv

LEMMA NextKeeps == IInv /\ [Next]_vars => IInv'
<1> SUFFICES ASSUME IInv, [Next]_vars
             PROVE  IInv'
  OBVIOUS
<1>1. CASE Tick
  BY <1>1, TickKeeps
<1>2. CASE \/ \E x \in Pairs : Complete(x) \/ Hand(x) \/ Answer(x)
           \/ \E e \in Events : Start(e)
  BY <1>2, WorldKeeps
<1>3. CASE \/ \E r \in CronRuns : Cron(r)
           \/ \E r \in ButtonRuns, e \in Events : PageReadsWork(r, e)
           \/ \E r \in ButtonRuns : PageReadsRecipients(r) \/ Button(r)
  BY <1>3, CronKeeps, PageKeeps, DialogKeeps, ButtonKeeps
<1>4. ASSUME NEW r \in Runs, Step(r)
      PROVE  IInv'
  BY <1>4, DraftsDoneKeeps, ReadAssignmentsKeeps, ReadRecipientsKeeps, DecideKeeps, DeliverKeeps,
     RecordKeeps, UnrecordedKeeps, NextEventKeeps, EndsKeep DEF Step
<1>5. ASSUME NEW r \in Runs, Bounce(r) \/ LoseRow(r) \/ Stop(r)
      PROVE  IInv'
  BY <1>5, UnrecordedKeeps, EndsKeep
<1>6. CASE UNCHANGED vars
  <2>1. /\ day' = day /\ owes' = owes /\ declined' = declined /\ started' = started /\ age' = age
        /\ silent' = silent /\ run' = run /\ ran' = ran /\ failures' = failures
        /\ changes' = changes
    BY <1>6 DEF vars
  <2>2. TypeOK'
    BY <2>1 DEF IInv, TypeOK
  <2>3. \A o \in Runs : Aside(o)
    BY <2>1, AsideSame
  <2> QED BY <2>2, <2>3, AllAside
<1> QED BY <1>1, <1>2, <1>3, <1>4, <1>5, <1>6 DEF Next

LEMMA AlwaysIInv == Spec => []IInv
<1>1. Init => IInv
  BY InitKeeps
<1>2. IInv /\ [Next]_vars => IInv'
  BY NextKeeps
<1> QED BY <1>1, <1>2, PTL DEF Spec

----------------------------------------------------------------------------
(* What holds *)

(* Whatever runs overlap, whatever mail bounces, row is lost or worker      *)
(* stops, every variable keeps its type.                                    *)
THEOREM TypeCorrect == Spec => []TypeOK
<1>1. IInv => TypeOK
  BY DEF IInv
<1> QED BY <1>1, AlwaysIInv, PTL

(* Two digests of an event reach a speaker in less than the silence owed    *)
(* only where another run mailed them after this one had read the log, or   *)
(* with the row yet to be written, or the row of the earlier mail is lost:  *)
(* of everybody else the log is as old as the run read                      *)
(* (decideTaskDigest, lastDigestTimes).                                     *)
THEOREM DigestsAlwaysApart == Spec => []DigestsApart
<1>1. IInv => DigestsApart
  <2> SUFFICES ASSUME IInv, NEW r \in Runs, run[r].pc = "send", run[r].mail \notin run[r].missed,
                      age[Mailing(r)] = silent[Mailing(r)]
               PROVE  silent[Mailing(r)] >= SilenceOf(r)
    BY DEF DigestsApart, At, SilenceOf
  <2> QED BY DEF IInv, Knows, LogKept
<1> QED BY <1>1, AlwaysIInv, PTL

(* Nobody is ever chased who owed nothing, or had declined, all the time    *)
(* since the run began, or whose event has begun: each of the run's two     *)
(* readings is later than its beginning (sendTaskDigests).                  *)
LEMMA NobodyChased == IInv => NobodyChasedInVain
<1> SUFFICES ASSUME IInv, NEW r \in Runs, run[r].pc = "send"
             PROVE  /\ Mailing(r) \notin run[r].clear \cup run[r].away
                    /\ run[r].event \notin started
  BY DEF NobodyChasedInVain, At
<1>1. Spared(r) /\ run[r].open \subseteq Speakers
  BY RunFields DEF IInv, Knows
<1> QED BY <1>1 DEF Spared, Reading, PastReading, Mailer, Mailing

(* However old the dialog is when the button is pressed, it names exactly   *)
(* those the button then mails, but for whom something has changed since    *)
(* its page was read: of everybody else the log, the checklist and the      *)
(* answers tell the run what they told the page (previewTaskDigestCount).   *)
THEOREM PreviewAlwaysKept == Spec => []PreviewIsKept
<1>1. IInv => PreviewIsKept
  <2> SUFFICES ASSUME IInv, NEW r \in ButtonRuns, run[r].pc = "speaker"
               PROVE  \A p \in run[r].rest :
                        <<run[r].event, p>> \in run[r].quiet => (ToMail(r, p) <=> p \in run[r].promised)
    BY DEF PreviewIsKept, At
  <2> QED BY DEF IInv, Knows, Kept, PastReading, Runs
<1> QED BY <1>1, AlwaysIInv, PTL

----------------------------------------------------------------------------
(* Calendar invitations *)

(* The request that mails a speaker has counted no more invitations than    *)
(* there are ...                                                            *)
Mails(q) == q.pc \in {"count", "send", "record"}
Counted ==
  \A s \in Sends :
    /\ Mails(send[s]) => send[s].mail \in Speakers
    /\ send[s].pc \in {"send", "record"} => send[s].seq <= logged[send[s].mail]

(* ... so no calendar is ahead of the log, and one that has caught up with  *)
(* it shows an invitation about to be logged, or one whose row was lost ... *)
Behind ==
  \A p \in Speakers :
    /\ calendar[p].seq <= logged[p]
    /\ p \notin lost /\ calendar[p].place # 0 /\ calendar[p].seq = logged[p] =>
         \E s \in Sends : send[s].pc = "record" /\ send[s].mail = p

(* ... and a request that has been alone has counted them all.              *)
Undisturbed ==
  \A s \in Sends : send[s].alone =>
    /\ send[s].pc # "idle" => \A o \in Sends : send[o].pc # "idle" => o = s
    /\ send[s].pc = "send" => send[s].seq = logged[send[s].mail]
    /\ send[s].pc = "record" /\ send[s].mail \notin lost =>
         calendar[send[s].mail].place = send[s].place

InviteInv == Inviting!TypeOK /\ Counted /\ Behind /\ Undisturbed

LEMMA UnsentSend == Inviting!Unsent \in Inviting!Send /\ Inviting!Unsent.pc = "idle"
  BY DEF Inviting!Unsent, Inviting!Send

LEMMA InviteInit == Inviting!Init => InviteInv
<1> SUFFICES ASSUME Inviting!Init PROVE InviteInv
  OBVIOUS
<1>1. Inviting!Nothing \in Inviting!Entry /\ Inviting!Nothing.seq = 0 /\ Inviting!Nothing.place = 0
  BY DEF Inviting!Nothing, Inviting!Entry
<1>2. Inviting!TypeOK
  BY <1>1, UnsentSend DEF Inviting!Init, Inviting!TypeOK
<1> QED BY <1>1, <1>2, UnsentSend DEF InviteInv, Counted, Mails, Behind, Undisturbed, Inviting!Init

(* A request that neither delivers nor records: nobody's calendar changes   *)
LEMMA InviteMoves ==
  ASSUME InviteInv, NEW s \in Sends, send[s].pc # "idle", NEW q \in Inviting!Send, Inviting!Set(s, q),
         UNCHANGED <<place, roster, refusing, logged, calendar>>,
         send[s].pc = "record" => send[s].mail \in lost', q.pc # "record",
         lost' \subseteq Speakers, lost \subseteq lost', slips' \in Nat, begun' \in Nat,
         Mails(q) => q.mail \in Speakers,
         q.pc = "send" => q.seq = logged[q.mail],
         q.pc # "idle" => q.alone = send[s].alone
  PROVE  InviteInv'
<1>1. /\ send' \in [Sends -> Inviting!Send] /\ send'[s] = q
      /\ \A o \in Sends \ {s} : send'[o] = send[o]
  BY DEF Inviting!Set, InviteInv, Inviting!TypeOK
<1>2. Inviting!TypeOK'
  BY <1>1 DEF InviteInv, Inviting!TypeOK
<1>3. Counted'
  BY <1>1, <1>2 DEF InviteInv, Counted, Mails, Inviting!TypeOK
<1>4. Behind'
  <2> SUFFICES ASSUME NEW p \in Speakers
               PROVE  /\ calendar[p].seq <= logged[p]
                      /\ p \notin lost' /\ calendar[p].place # 0 /\ calendar[p].seq = logged[p] =>
                           \E o \in Sends : send'[o].pc = "record" /\ send'[o].mail = p
    BY DEF Behind
  <2>1. ASSUME NEW o \in Sends, send[o].pc = "record", send[o].mail = p, p \notin lost'
        PROVE  send'[o].pc = "record" /\ send'[o].mail = p
    BY <1>1, <2>1
  <2> QED BY <2>1 DEF InviteInv, Behind
<1>5. Undisturbed'
  <2> SUFFICES ASSUME NEW o \in Sends, send'[o].alone
               PROVE  /\ send'[o].pc # "idle" => \A e \in Sends : send'[e].pc # "idle" => e = o
                      /\ send'[o].pc = "send" => send'[o].seq = logged[send'[o].mail]
                      /\ send'[o].pc = "record" /\ send'[o].mail \notin lost' =>
                           calendar[send'[o].mail].place = send'[o].place
    BY DEF Undisturbed
  <2>1. \A e \in Sends : send'[e].pc # "idle" => send[e].pc # "idle"
    BY <1>1
  <2>2. send'[o].pc # "idle" => send[o].alone
    BY <1>1
  <2>3. CASE o = s
    BY <1>1, <2>1, <2>2, <2>3 DEF InviteInv, Undisturbed
  <2>4. CASE o # s
    BY <1>1, <2>1, <2>2, <2>4 DEF InviteInv, Undisturbed
  <2> QED BY <2>3, <2>4
<1> QED BY <1>2, <1>3, <1>4, <1>5 DEF InviteInv

LEMMA AgendaKeeps ==
  ASSUME InviteInv, UNCHANGED <<logged, calendar, send, lost, slips, begun>>,
         place' \in Nat, roster' \subseteq Speakers, refusing' \subseteq Speakers
  PROVE  InviteInv'
  BY DEF InviteInv, Inviting!TypeOK, Counted, Mails, Behind, Undisturbed

LEMMA SendFields ==
  ASSUME InviteInv, NEW s \in Sends
  PROVE  /\ send[s] \in Inviting!Send
         /\ send[s].people \subseteq Speakers /\ send[s].rest \subseteq Speakers
         /\ send[s].place \in Nat /\ send[s].seq \in Nat
         /\ send[s].mail \in Speakers \cup {None} /\ send[s].alone \in BOOLEAN
         /\ place \in Nat /\ roster \subseteq Speakers /\ refusing \subseteq Speakers
         /\ logged \in [Speakers -> Nat] /\ lost \subseteq Speakers /\ slips \in Nat /\ begun \in Nat
  BY DEF InviteInv, Inviting!TypeOK, Inviting!Send

LEMMA InviteBegins ==
  ASSUME InviteInv, NEW s \in Sends, Inviting!SendCalendarInvite(s)
  PROVE  InviteInv'
<1> DEFINE q == [Inviting!Unsent EXCEPT !.pc = "people", !.place = place, !.people = roster,
                                        !.alone = (Inviting!Sending = {})]
<1>1. send[s].pc = "idle" /\ UNCHANGED <<place, roster, refusing, logged, calendar, lost, slips>>
  BY DEF Inviting!SendCalendarInvite, Inviting!At, Inviting!agenda
<1>2. q \in Inviting!Send /\ q.pc = "people" /\ (q.alone <=> Inviting!Sending = {})
  BY DEF Inviting!Unsent, Inviting!Send, InviteInv, Inviting!TypeOK
<1>3. send' = [o \in Sends |->
        IF o = s THEN q
        ELSE [send[o] EXCEPT !.alone = send[o].alone /\ send[o].pc = "idle"]]
  BY DEF Inviting!SendCalendarInvite, Inviting!At
<1> HIDE DEF q
<1>4. ASSUME NEW o \in Sends, o # s
      PROVE  /\ send'[o] \in Inviting!Send /\ send'[o].pc = send[o].pc
             /\ send'[o].mail = send[o].mail /\ send'[o].seq = send[o].seq
             /\ send'[o].alone => send[o].pc = "idle"
  BY <1>3, <1>4 DEF InviteInv, Inviting!TypeOK, Inviting!Send
<1>5. send'[s] = q /\ send' \in [Sends -> Inviting!Send]
  BY <1>2, <1>3, <1>4
<1>6. Inviting!TypeOK'
  <2>1. begun' \in Nat
    <3>1. begun' = begun + 1
      BY DEF Inviting!SendCalendarInvite
    <3> QED BY <3>1, SendFields
  <2> QED BY <1>1, <1>5, <2>1 DEF InviteInv, Inviting!TypeOK
<1>7. Counted'
  BY <1>1, <1>2, <1>4, <1>5 DEF InviteInv, Counted, Mails
<1>8. Behind'
  <2>1. \A o \in Sends : send[o].pc = "record" =>
          send'[o].pc = "record" /\ send'[o].mail = send[o].mail
    BY <1>1, <1>4
  <2> QED BY <1>1, <2>1 DEF InviteInv, Behind
<1>9. Undisturbed'
  <2>1. Inviting!Sending = {o \in Sends : send[o].pc # "idle"}
    BY DEF Inviting!Sending, Inviting!At
  <2> QED BY <1>1, <1>2, <1>4, <1>5, <2>1 DEF InviteInv, Undisturbed
<1> QED BY <1>6, <1>7, <1>8, <1>9 DEF InviteInv

(* A request that reads whom to invite, and the number of an invitation *)
LEMMA InviteReads ==
  ASSUME InviteInv, NEW s \in Sends,
         Inviting!ReadConfirmations(s) \/ (\E p \in Speakers : Inviting!NextRecipient(s, p))
         \/ Inviting!Count(s)
  PROVE  InviteInv'
<1>1. UNCHANGED <<place, roster, refusing, logged, calendar, lost, slips, begun>>
  BY DEF Inviting!ReadConfirmations, Inviting!NextRecipient, Inviting!Count, Inviting!agenda
<1>2. CASE Inviting!ReadConfirmations(s)
  <2> DEFINE q == IF send[s].people = {} THEN Inviting!Unsent
                  ELSE [send[s] EXCEPT !.pc = "next", !.rest = send[s].people \ refusing]
  <2>1. send[s].pc = "people" /\ Inviting!Set(s, q)
    BY <1>2 DEF Inviting!ReadConfirmations, Inviting!At
  <2>2. /\ q \in Inviting!Send /\ q.pc \in {"idle", "next"}
        /\ q.pc # "idle" => q.alone = send[s].alone
    BY SendFields, UnsentSend DEF Inviting!Send
  <2> HIDE DEF q
  <2> QED BY <1>1, <2>1, <2>2, SendFields, InviteMoves DEF Mails
<1>3. ASSUME NEW p \in Speakers, Inviting!NextRecipient(s, p) PROVE InviteInv'
  <2> DEFINE q == [send[s] EXCEPT !.pc = "count", !.rest = @ \ {p}, !.mail = p]
  <2>1. send[s].pc = "next" /\ Inviting!Set(s, q)
    BY <1>3 DEF Inviting!NextRecipient, Inviting!At
  <2>2. q \in Inviting!Send /\ q.pc = "count" /\ q.mail = p /\ q.alone = send[s].alone
    BY SendFields DEF Inviting!Send
  <2> HIDE DEF q
  <2> QED BY <1>1, <2>1, <2>2, SendFields, InviteMoves DEF Mails
<1>4. CASE Inviting!Count(s)
  <2> DEFINE q == [send[s] EXCEPT !.pc = "send", !.seq = logged[send[s].mail]]
  <2>1. send[s].pc = "count" /\ Inviting!Set(s, q)
    BY <1>4 DEF Inviting!Count, Inviting!At, Inviting!NextSequenceFor
  <2>2. send[s].mail \in Speakers
    BY <2>1 DEF InviteInv, Counted, Mails
  <2>3. /\ q \in Inviting!Send /\ q.pc = "send" /\ q.seq = logged[q.mail]
        /\ q.mail = send[s].mail /\ q.alone = send[s].alone
    BY <2>2, SendFields DEF Inviting!Send
  <2> HIDE DEF q
  <2> QED BY <1>1, <2>1, <2>2, <2>3, SendFields, InviteMoves DEF Mails
<1> QED BY <1>2, <1>3, <1>4

(* A request that ends, or goes on to its next recipient *)
LEMMA InviteEnds ==
  ASSUME InviteInv, NEW s \in Sends,
         Inviting!Bounce(s) \/ Inviting!LoseRow(s) \/ Inviting!Finish(s) \/ Inviting!Stop(s)
  PROVE  InviteInv'
<1> DEFINE next == [send[s] EXCEPT !.pc = "next", !.mail = None]
<1>1. next \in Inviting!Send /\ next.pc = "next" /\ next.alone = send[s].alone
  BY SendFields DEF Inviting!Send
<1>2. /\ send[s].pc # "idle" /\ UNCHANGED <<place, roster, refusing, logged, calendar, begun>>
      /\ Inviting!Set(s, next) \/ Inviting!Set(s, Inviting!Unsent)
      /\ send[s].pc = "record" => lost' = lost \cup {send[s].mail}
      /\ send[s].pc # "record" => lost' = lost
  BY DEF Inviting!Bounce, Inviting!LoseRow, Inviting!Finish, Inviting!Stop, Inviting!At,
         Inviting!Sending, Inviting!agenda
<1>3. slips' \in Nat
  BY SendFields DEF Inviting!Bounce, Inviting!LoseRow, Inviting!Finish, Inviting!Stop, Inviting!Slip
<1>4. lost' \subseteq Speakers /\ lost \subseteq lost' /\ (send[s].pc = "record" => send[s].mail \in lost')
  BY <1>2, SendFields DEF InviteInv, Counted, Mails
<1> HIDE DEF next
<1> QED BY <1>1, <1>2, <1>3, <1>4, SendFields, UnsentSend, InviteMoves DEF Mails

(* The calendar takes what a request that was alone sends, because it has   *)
(* counted more invitations than the calendar has seen.                     *)
LEMMA InviteDelivers ==
  ASSUME InviteInv, NEW s \in Sends, Inviting!Deliver(s)
  PROVE  InviteInv'
<1> DEFINE p == send[s].mail
           q == [send[s] EXCEPT !.pc = "record"]
           e == Inviting!Received(calendar[p], send[s].seq, send[s].place)
<1>1. /\ send[s].pc = "send" /\ Inviting!Set(s, q) /\ calendar' = [calendar EXCEPT ![p] = e]
      /\ UNCHANGED <<place, roster, refusing, logged, lost, slips, begun>>
  BY DEF Inviting!Deliver, Inviting!At, Inviting!agenda
<1>2. p \in Speakers /\ send[s].seq <= logged[p]
  BY <1>1 DEF InviteInv, Counted, Mails
<1>3. calendar \in [Speakers -> Inviting!Entry] /\ calendar[p] \in Inviting!Entry
  BY <1>2 DEF InviteInv, Inviting!TypeOK
<1>4. /\ e \in Inviting!Entry /\ e.seq \in {calendar[p].seq, send[s].seq}
      /\ calendar[p].place = 0 \/ send[s].seq > calendar[p].seq => e.place = send[s].place
  BY <1>3, SendFields DEF Inviting!Received, Inviting!Entry
<1>5. /\ q \in Inviting!Send /\ q.pc = "record" /\ q.mail = p /\ q.seq = send[s].seq
      /\ q.place = send[s].place /\ q.alone = send[s].alone
  BY SendFields DEF Inviting!Send
<1>6. /\ send' \in [Sends -> Inviting!Send] /\ send'[s] = q
      /\ \A o \in Sends \ {s} : send'[o] = send[o]
  BY <1>1, <1>5 DEF Inviting!Set, InviteInv, Inviting!TypeOK
<1>7. /\ calendar' \in [Speakers -> Inviting!Entry] /\ calendar'[p] = e
      /\ \A y \in Speakers \ {p} : calendar'[y] = calendar[y]
  BY <1>1, <1>2, <1>3, <1>4
<1> HIDE DEF p, q, e
<1>8. Inviting!TypeOK'
  BY <1>1, <1>6, <1>7 DEF InviteInv, Inviting!TypeOK
<1>9. Counted'
  BY <1>1, <1>2, <1>5, <1>6 DEF InviteInv, Counted, Mails
<1>10. Behind'
  <2> SUFFICES ASSUME NEW y \in Speakers
               PROVE  /\ calendar'[y].seq <= logged[y]
                      /\ y \notin lost /\ calendar'[y].place # 0 /\ calendar'[y].seq = logged[y] =>
                           \E o \in Sends : send'[o].pc = "record" /\ send'[o].mail = y
    BY <1>1 DEF Behind
  <2>1. CASE y = p
    BY <1>2, <1>4, <1>5, <1>6, <1>7, <2>1 DEF InviteInv, Behind
  <2>2. CASE y # p
    <3>1. \A o \in Sends : send[o].pc = "record" => send'[o].pc = "record" /\ send'[o].mail = send[o].mail
      BY <1>1, <1>6
    <3> QED BY <1>7, <2>2, <3>1 DEF InviteInv, Behind
  <2> QED BY <2>1, <2>2
<1>11. Undisturbed'
  <2>1. \A o \in Sends : send'[o].pc # "idle" <=> send[o].pc # "idle"
    BY <1>1, <1>5, <1>6
  <2>2. ASSUME NEW o \in Sends, o # s, send[o].alone
        PROVE  send[o].pc = "idle"
    BY <1>1, <2>2 DEF InviteInv, Undisturbed
  <2>3. ASSUME send[s].alone, p \notin lost
        PROVE  e.place = send[s].place
    <3>1. \A o \in Sends : send[o].pc # "record"
      BY <1>1, <2>3 DEF InviteInv, Undisturbed
    <3>2. send[s].seq = logged[p]
      BY <1>1, <2>3 DEF InviteInv, Undisturbed, p
    <3>3. calendar[p].place = 0 \/ calendar[p].seq < logged[p]
      <4>1. calendar[p].seq \in Nat /\ logged[p] \in Nat
        BY <1>2, <1>3, SendFields DEF Inviting!Entry
      <4>2. calendar[p].seq <= logged[p]
            /\ (calendar[p].place # 0 => calendar[p].seq # logged[p])
        BY <1>2, <2>3, <3>1 DEF InviteInv, Behind
      <4> QED BY <4>1, <4>2
    <3> QED BY <1>4, <3>2, <3>3
  <2>4. send[s].alone => \A o \in Sends : send[o].pc # "idle" => o = s
    BY <1>1 DEF InviteInv, Undisturbed
  <2>5. ASSUME NEW o \in Sends, send'[o].alone
        PROVE  /\ send'[o].pc # "idle" => \A x \in Sends : send'[x].pc # "idle" => x = o
               /\ send'[o].pc = "send" => send'[o].seq = logged'[send'[o].mail]
               /\ send'[o].pc = "record" /\ send'[o].mail \notin lost' =>
                    calendar'[send'[o].mail].place = send'[o].place
    <3>1. CASE o = s
      BY <1>1, <1>5, <1>6, <1>7, <2>1, <2>3, <2>4, <2>5, <3>1
    <3>2. CASE o # s
      BY <1>6, <2>2, <2>5, <3>2
    <3> QED BY <3>1, <3>2
  <2> QED BY <2>5 DEF Undisturbed
<1> QED BY <1>8, <1>9, <1>10, <1>11 DEF InviteInv

LEMMA InviteRecords ==
  ASSUME InviteInv, NEW s \in Sends, Inviting!Record(s)
  PROVE  InviteInv'
<1> DEFINE p == send[s].mail
           q == [send[s] EXCEPT !.pc = "next", !.mail = None]
<1>1. /\ send[s].pc = "record" /\ Inviting!Set(s, q) /\ logged' = [logged EXCEPT ![p] = @ + 1]
      /\ UNCHANGED <<place, roster, refusing, calendar, lost, slips, begun>>
  BY DEF Inviting!Record, Inviting!At, Inviting!agenda
<1>2. p \in Speakers
  BY <1>1 DEF InviteInv, Counted, Mails
<1>3. q \in Inviting!Send /\ q.pc = "next" /\ q.alone = send[s].alone
  BY SendFields DEF Inviting!Send
<1>4. /\ send' \in [Sends -> Inviting!Send] /\ send'[s] = q
      /\ \A o \in Sends \ {s} : send'[o] = send[o]
  BY <1>1, <1>3 DEF Inviting!Set, InviteInv, Inviting!TypeOK
<1>5. /\ logged' \in [Speakers -> Nat]
      /\ \A y \in Speakers : logged'[y] = IF y = p THEN logged[y] + 1 ELSE logged[y]
  BY <1>1, <1>2, SendFields
<1> HIDE DEF p, q
<1>6. Inviting!TypeOK'
  BY <1>1, <1>4, <1>5 DEF InviteInv, Inviting!TypeOK
<1>7. Counted'
  <2>1. \A o \in Sends : send[o].seq \in Nat
    BY SendFields
  <2>2. \A y \in Speakers : logged[y] \in Nat /\ logged'[y] \in Nat /\ logged[y] <= logged'[y]
    BY <1>5, SendFields
  <2>3. ASSUME NEW o \in Sends, o # s
        PROVE  /\ Mails(send[o]) => send[o].mail \in Speakers
               /\ send[o].pc \in {"send", "record"} => send[o].seq <= logged'[send[o].mail]
    <3>1. send[o].pc \in {"send", "record"} =>
            send[o].mail \in Speakers /\ send[o].seq <= logged[send[o].mail]
      BY DEF InviteInv, Counted, Mails
    <3>2. Mails(send[o]) => send[o].mail \in Speakers
      BY DEF InviteInv, Counted
    <3> QED BY <2>1, <2>2, <3>1, <3>2
  <2> QED BY <1>3, <1>4, <2>3 DEF Counted, Mails
<1>8. Behind'
  <2> SUFFICES ASSUME NEW y \in Speakers
               PROVE  /\ calendar[y].seq <= logged'[y]
                      /\ y \notin lost /\ calendar[y].place # 0 /\ calendar[y].seq = logged'[y] =>
                           \E o \in Sends : send'[o].pc = "record" /\ send'[o].mail = y
    BY <1>1 DEF Behind
  <2>1. calendar[y].seq \in Nat /\ logged[y] \in Nat /\ calendar[y].seq <= logged[y]
    BY DEF InviteInv, Behind, Inviting!TypeOK, Inviting!Entry
  <2>2. CASE y = p
    BY <1>5, <2>1, <2>2
  <2>3. CASE y # p
    <3>1. \A o \in Sends : send[o].pc = "record" /\ send[o].mail = y => send'[o] = send[o]
      BY <1>4, <2>3 DEF p
    <3> QED BY <1>5, <2>1, <2>3, <3>1 DEF InviteInv, Behind
  <2> QED BY <2>2, <2>3
<1>9. Undisturbed'
  <2>1. \A o \in Sends : send'[o].pc # "idle" <=> send[o].pc # "idle"
    BY <1>1, <1>3, <1>4
  <2>2. ASSUME NEW o \in Sends, o # s, send[o].alone
        PROVE  send[o].pc = "idle"
    BY <1>1, <2>2 DEF InviteInv, Undisturbed
  <2> QED BY <1>1, <1>3, <1>4, <2>1, <2>2 DEF InviteInv, Undisturbed
<1> QED BY <1>6, <1>7, <1>8, <1>9 DEF InviteInv

LEMMA InviteNext ==
  ASSUME InviteInv, [Inviting!Next]_Inviting!inviteVars
  PROVE  InviteInv'
<1>1. CASE UNCHANGED Inviting!inviteVars
  BY <1>1, AgendaKeeps, SendFields DEF Inviting!inviteVars, InviteInv, Inviting!TypeOK
<1>2. CASE Inviting!Place
  BY <1>2, AgendaKeeps DEF Inviting!Place, InviteInv, Inviting!TypeOK
<1>3. ASSUME NEW p \in Speakers, Inviting!Recast(p) \/ Inviting!Decline(p) PROVE InviteInv'
  BY <1>3, AgendaKeeps DEF Inviting!Recast, Inviting!Decline, InviteInv, Inviting!TypeOK
<1> QED BY <1>1, <1>2, <1>3, InviteBegins, InviteReads, InviteEnds, InviteDelivers, InviteRecords
  DEF Inviting!Next

(* However often a session is placed and its speakers are invited, and      *)
(* whatever overlapped, bounced or stopped before: an invitation sent while *)
(* no other request was sending any reaches the calendar as an update,      *)
(* unless a row of an earlier one to the same address was lost              *)
(* (nextSequenceFor and sendCalendarInvite in src/domain/comms.ts).         *)
THEOREM UpdatesAlwaysLand == Mail => []UpdatesLand
<1> DEFINE Stays == part = "invitations" => InviteInv
<1>1. Gather => Stays
  BY InviteInit DEF Gather
<1>2. Stays /\ [Work]_all => Stays'
  <2> SUFFICES ASSUME Stays, [Work]_all, part' = "invitations" PROVE InviteInv'
    OBVIOUS
  <2>1. part' = part
    BY DEF Work, all
  <2>2. [Inviting!Next]_Inviting!inviteVars
    BY <2>1 DEF Work, all, Inviting!inviteVars, inviting
  <2> QED BY <2>1, <2>2, InviteNext
<1>3. Stays => UpdatesLand
  BY DEF InviteInv, Undisturbed, UpdatesLand, Inviting!UpdatesLand, Inviting!At
<1> HIDE DEF Stays
<1> QED BY <1>1, <1>2, <1>3, PTL DEF Mail

----------------------------------------------------------------------------
(* The reminder a draft gets *)

(* What a run knows, where the log and the form are so: whom it lists were  *)
(* drafts when it began, it has read of a form about to close only if there *)
(* was one, and if it has been alone it knows what the log says.            *)
KnowsDrafts(q, log, phase) ==
  /\ q.pc # "idle" => q.listed \cap q.ended = {} /\ (q.hopeless => phase # "closing")
  /\ q.pc \in {"log", "draft", "send", "record"} /\ q.phase = "closing" => ~q.hopeless
  /\ q.pc \in {"send", "record"} => q.mail \in Drafts \ q.listed
  /\ q.pc = "send" => q.mail \notin q.ended /\ q.phase = "closing"
  /\ q.alone /\ q.pc \in {"draft", "send", "record"} => q.listed \cap log \subseteq q.known
  /\ q.alone /\ q.pc = "send" => q.mail \notin log

AloneInDrafts ==
  \A j, o \in Jobs : job[j].pc # "idle" /\ job[o].pc # "idle" /\ job[j].alone => o = j

(* Whoever was reminded is in the log, or is excused, or soon in the log.   *)
Remembered ==
  \A d \in Drafts : nudges[d] # 0 =>
    \/ d \in reminded \cup excused
    \/ \E j \in Jobs : job[j].pc = "record" /\ job[j].mail = d

DraftInv ==
  /\ Nudging!TypeOK /\ AloneInDrafts /\ Remembered /\ Nudging!NudgedOnce
  /\ \A j \in Jobs : KnowsDrafts(job[j], reminded, form)

LEMMA RestJob == Nudging!Rest \in Nudging!Job /\ Nudging!Rest.pc = "idle"
  BY DEF Nudging!Rest, Nudging!Job, Nudging!Phases

LEMMA JobFields ==
  ASSUME DraftInv, NEW j \in Jobs
  PROVE  /\ job[j] \in Nudging!Job /\ job[j].listed \subseteq Drafts /\ job[j].known \subseteq Drafts
         /\ job[j].ended \subseteq Drafts /\ job[j].mail \in Drafts \cup {None}
         /\ job[j].phase \in Nudging!Phases /\ job[j].alone \in BOOLEAN /\ job[j].hopeless \in BOOLEAN
         /\ KnowsDrafts(job[j], reminded, form)
         /\ reminded \subseteq Drafts /\ excused \subseteq Drafts /\ form \in Nudging!Phases
  BY DEF DraftInv, Nudging!TypeOK, Nudging!Job

LEMMA DraftInit ==
  ASSUME {MaxFaults, MaxMoves} \subseteq Nat, Nudging!Init
  PROVE  DraftInv
<1>1. \A j \in Jobs : job[j] = Nudging!Rest
  BY DEF Nudging!Init
<1>2. Nudging!TypeOK
  BY RestJob DEF Nudging!Init, Nudging!TypeOK
<1>3. AloneInDrafts /\ \A j \in Jobs : KnowsDrafts(job[j], reminded, form)
  BY <1>1, RestJob DEF AloneInDrafts, KnowsDrafts
<1>4. Remembered /\ Nudging!NudgedOnce
  BY DEF Nudging!Init, Remembered, Nudging!NudgedOnce
<1> QED BY <1>2, <1>3, <1>4 DEF DraftInv

(* A statement of a run *)
LEMMA JobSteps ==
  ASSUME DraftInv, NEW j \in Jobs, job[j].pc # "idle", NEW q \in Nudging!Job, Nudging!Set(j, q),
         UNCHANGED <<draft, form, moves>>, faults' \in 0..MaxFaults,
         reminded \subseteq reminded', reminded' \subseteq Drafts,
         excused \subseteq excused', excused' \subseteq Drafts,
         reminded' # reminded => job[j].pc = "record",
         q.pc # "idle" => q.alone = job[j].alone,
         KnowsDrafts(q, reminded', form),
         nudges' \in [Drafts -> 0..2],
         job[j].pc = "record" => job[j].mail \in reminded' \cup excused',
         \A d \in Drafts : nudges'[d] # nudges[d] =>
           q.pc = "record" /\ q.mail = d /\ (nudges'[d] = 2 => d \in excused')
  PROVE  DraftInv'
<1>1. /\ job' \in [Jobs -> Nudging!Job] /\ job'[j] = q
      /\ \A o \in Jobs \ {j} : job'[o] = job[o]
  BY DEF Nudging!Set, DraftInv, Nudging!TypeOK
<1>2. Nudging!TypeOK'
  BY <1>1 DEF DraftInv, Nudging!TypeOK
<1>3. AloneInDrafts'
  BY <1>1 DEF DraftInv, AloneInDrafts
<1>4. Remembered'
  <2> SUFFICES ASSUME NEW d \in Drafts, nudges'[d] # 0
               PROVE  \/ d \in reminded' \cup excused'
                      \/ \E o \in Jobs : job'[o].pc = "record" /\ job'[o].mail = d
    BY DEF Remembered
  <2>1. CASE nudges'[d] # nudges[d]
    BY <1>1, <2>1
  <2>2. CASE nudges'[d] = nudges[d]
    <3>1. ASSUME NEW o \in Jobs, job[o].pc = "record", job[o].mail = d
          PROVE  d \in reminded' \cup excused' \/ job'[o] = job[o]
      BY <1>1, <3>1
    <3> QED BY <2>2, <3>1 DEF DraftInv, Remembered
  <2> QED BY <2>1, <2>2
<1>5. Nudging!NudgedOnce'
  BY DEF DraftInv, Nudging!NudgedOnce
<1>6. ASSUME NEW o \in Jobs
      PROVE  KnowsDrafts(job[o], reminded, form)'
  <2>1. CASE o = j
    BY <1>1, <2>1 DEF KnowsDrafts
  <2>2. CASE o # j
    <3>1. job'[o] = job[o] /\ KnowsDrafts(job[o], reminded, form)
      BY <1>1, <2>2 DEF DraftInv
    <3>2. job[o].pc # "idle" => ~job[o].alone
      BY <2>2 DEF DraftInv, AloneInDrafts
    <3> QED BY <3>1, <3>2 DEF KnowsDrafts
  <2> QED BY <2>1, <2>2
<1> QED BY <1>2, <1>3, <1>4, <1>5, <1>6 DEF DraftInv

LEMMA SubmitKeeps == ASSUME DraftInv, NEW d \in Drafts, Nudging!Submit(d) PROVE DraftInv'
<1>1. UNCHANGED <<form, reminded, nudges, excused, job, faults, moves>>
      /\ draft' \in [Drafts -> {"draft", "submitted"}]
  BY DEF Nudging!Submit, DraftInv, Nudging!TypeOK
<1> QED BY <1>1 DEF DraftInv, Nudging!TypeOK, AloneInDrafts, Remembered, Nudging!NudgedOnce, KnowsDrafts

LEMMA MoveKeeps ==
  ASSUME DraftInv, NEW phase \in Nudging!Phases, Nudging!Move(phase), MaxMoves \in Nat
  PROVE  DraftInv'
<1>1. /\ form' = phase /\ moves' = moves + 1 /\ moves < MaxMoves
      /\ UNCHANGED <<draft, reminded, nudges, excused, faults>>
      /\ job' = [o \in Jobs |-> [job[o] EXCEPT !.hopeless =
                   @ /\ (job[o].pc = "idle" \/ phase # "closing")]]
  BY DEF Nudging!Move, Nudging!At
<1>2. ASSUME NEW o \in Jobs
      PROVE  /\ job'[o] \in Nudging!Job /\ job'[o].pc = job[o].pc /\ job'[o].listed = job[o].listed
             /\ job'[o].phase = job[o].phase /\ job'[o].known = job[o].known
             /\ job'[o].mail = job[o].mail /\ job'[o].alone = job[o].alone
             /\ job'[o].ended = job[o].ended
             /\ job'[o].hopeless => job[o].hopeless /\ (job[o].pc = "idle" \/ phase # "closing")
  BY <1>1, JobFields DEF Nudging!Job
<1>3. job' \in [Jobs -> Nudging!Job]
  BY <1>1, <1>2
<1>4. Nudging!TypeOK'
  BY <1>1, <1>3 DEF DraftInv, Nudging!TypeOK
<1>5. AloneInDrafts' /\ Remembered' /\ Nudging!NudgedOnce'
  <2>1. AloneInDrafts'
    BY <1>2 DEF DraftInv, AloneInDrafts
  <2>2. Remembered'
    <3> SUFFICES ASSUME NEW d \in Drafts, nudges'[d] # 0, d \notin reminded \cup excused
                 PROVE  \E o \in Jobs : job'[o].pc = "record" /\ job'[o].mail = d
      BY <1>1 DEF Remembered
    <3>1. PICK o \in Jobs : job[o].pc = "record" /\ job[o].mail = d
      BY <1>1 DEF DraftInv, Remembered
    <3> QED BY <1>2, <3>1
  <2>3. Nudging!NudgedOnce'
    BY <1>1 DEF DraftInv, Nudging!NudgedOnce
  <2> QED BY <2>1, <2>2, <2>3
<1>6. \A o \in Jobs : KnowsDrafts(job[o], reminded, form)'
  BY <1>1, <1>2 DEF DraftInv, KnowsDrafts
<1> QED BY <1>4, <1>5, <1>6 DEF DraftInv

LEMMA JobBegins == ASSUME DraftInv, NEW j \in Jobs, Nudging!Begin(j) PROVE DraftInv'
<1> DEFINE q == [Nudging!Rest EXCEPT !.pc = "form", !.listed = Nudging!ListDrafts,
                                     !.alone = (Nudging!Running = {}),
                                     !.ended = {d \in Drafts : draft[d] # "draft"},
                                     !.hopeless = (form # "closing")]
<1>1. /\ job[j].pc = "idle" /\ UNCHANGED <<draft, form, reminded, nudges, excused, faults, moves>>
      /\ job' = [o \in Jobs |-> IF o = j THEN q
                                ELSE [job[o] EXCEPT !.alone = @ /\ job[o].pc = "idle"]]
  BY DEF Nudging!Begin, Nudging!At
<1>2. /\ q \in Nudging!Job /\ q.pc = "form" /\ q.listed \cap q.ended = {}
      /\ q.alone => Nudging!Running = {}
      /\ q.hopeless => form # "closing"
  BY DEF Nudging!Rest, Nudging!Job, Nudging!Phases, Nudging!ListDrafts
<1> HIDE DEF q
<1>3. ASSUME NEW o \in Jobs, o # j
      PROVE  /\ job'[o] \in Nudging!Job /\ job'[o].pc = job[o].pc /\ job'[o].listed = job[o].listed
             /\ job'[o].phase = job[o].phase /\ job'[o].known = job[o].known
             /\ job'[o].mail = job[o].mail /\ job'[o].hopeless = job[o].hopeless
             /\ job'[o].ended = job[o].ended
             /\ job'[o].alone => job[o].alone /\ job[o].pc = "idle"
  BY <1>1, <1>3, JobFields DEF Nudging!Job
<1>4. job'[j] = q /\ job' \in [Jobs -> Nudging!Job]
  BY <1>1, <1>2, <1>3
<1>5. Nudging!TypeOK'
  BY <1>1, <1>4 DEF DraftInv, Nudging!TypeOK
<1>6. AloneInDrafts'
  <2>1. Nudging!Running = {o \in Jobs : job[o].pc # "idle"}
    BY DEF Nudging!Running, Nudging!At
  <2> QED BY <1>2, <1>3, <1>4, <2>1 DEF AloneInDrafts
<1>7. Remembered' /\ Nudging!NudgedOnce'
  <2>1. \A o \in Jobs : job[o].pc = "record" => job'[o].pc = "record" /\ job'[o].mail = job[o].mail
    BY <1>1, <1>3
  <2> QED BY <1>1, <2>1 DEF DraftInv, Remembered, Nudging!NudgedOnce
<1>8. ASSUME NEW o \in Jobs
      PROVE  KnowsDrafts(job[o], reminded, form)'
  <2>1. CASE o = j
    BY <1>1, <1>2, <1>4, <2>1 DEF KnowsDrafts
  <2>2. CASE o # j
    <3>1. KnowsDrafts(job[o], reminded, form) /\ reminded' = reminded /\ form' = form
      BY <1>1, JobFields
    <3> QED BY <1>3, <2>2, <3>1 DEF KnowsDrafts
  <2> QED BY <2>1, <2>2
<1> QED BY <1>5, <1>6, <1>7, <1>8 DEF DraftInv

LEMMA JobReads ==
  ASSUME DraftInv, NEW j \in Jobs,
         \/ Nudging!ReadForm(j) \/ Nudging!ReadLog(j) \/ Nudging!Finish(j)
         \/ \E d \in Drafts : Nudging!Decide(j, d)
  PROVE  DraftInv'
<1>1. UNCHANGED <<draft, form, reminded, nudges, excused, faults, moves>>
  BY DEF Nudging!ReadForm, Nudging!ReadLog, Nudging!Finish, Nudging!Decide
<1>2. faults' \in 0..MaxFaults /\ nudges' \in [Drafts -> 0..2]
  BY <1>1 DEF DraftInv, Nudging!TypeOK
<1>3. CASE Nudging!ReadForm(j)
  <2> DEFINE q == [job[j] EXCEPT !.pc = "log", !.phase = form]
  <2>1. job[j].pc = "form" /\ Nudging!Set(j, q)
    BY <1>3 DEF Nudging!ReadForm, Nudging!At
  <2>2. /\ q \in Nudging!Job /\ q.pc = "log" /\ q.phase = form /\ q.listed = job[j].listed
        /\ q.alone = job[j].alone /\ q.ended = job[j].ended /\ q.hopeless = job[j].hopeless
    BY JobFields DEF Nudging!Job
  <2> HIDE DEF q
  <2>3. KnowsDrafts(q, reminded, form)
    BY <2>1, <2>2, JobFields DEF KnowsDrafts
  <2> QED BY <1>1, <1>2, <2>1, <2>2, <2>3, JobFields, JobSteps
<1>4. CASE Nudging!ReadLog(j)
  <2> DEFINE q == [job[j] EXCEPT !.pc = "draft", !.known = reminded \cap job[j].listed]
  <2>1. job[j].pc = "log" /\ Nudging!Set(j, q)
    BY <1>4 DEF Nudging!ReadLog, Nudging!At, Nudging!Reminded
  <2>2. /\ q \in Nudging!Job /\ q.pc = "draft" /\ q.phase = job[j].phase /\ q.listed = job[j].listed
        /\ q.alone = job[j].alone /\ q.ended = job[j].ended /\ q.hopeless = job[j].hopeless
        /\ q.known = reminded \cap job[j].listed
    BY JobFields DEF Nudging!Job
  <2> HIDE DEF q
  <2>3. KnowsDrafts(q, reminded, form)
    BY <2>1, <2>2, JobFields DEF KnowsDrafts
  <2> QED BY <1>1, <1>2, <2>1, <2>2, <2>3, JobFields, JobSteps
<1>5. CASE Nudging!Finish(j)
  <2>1. job[j].pc = "draft" /\ Nudging!Set(j, Nudging!Rest)
    BY <1>5 DEF Nudging!Finish, Nudging!At
  <2>2. KnowsDrafts(Nudging!Rest, reminded, form)
    BY RestJob DEF KnowsDrafts
  <2> QED BY <1>1, <1>2, <2>1, <2>2, RestJob, JobFields, JobSteps
<1>6. ASSUME NEW d \in Drafts, Nudging!Decide(j, d) PROVE DraftInv'
  <2> DEFINE due == [job[j] EXCEPT !.pc = "send", !.listed = @ \ {d}, !.mail = d]
             not == [job[j] EXCEPT !.listed = @ \ {d}]
             q == IF Nudging!DueReminder(job[j], d) THEN due ELSE not
  <2>1. job[j].pc = "draft" /\ d \in job[j].listed /\ Nudging!Set(j, q)
    BY <1>6 DEF Nudging!Decide, Nudging!At
  <2>2. /\ q \in Nudging!Job /\ q.phase = job[j].phase /\ q.listed = job[j].listed \ {d}
        /\ q.alone = job[j].alone /\ q.ended = job[j].ended /\ q.hopeless = job[j].hopeless
        /\ q.known = job[j].known
        /\ \/ q.pc = "draft"
           \/ q.pc = "send" /\ q.mail = d /\ q.phase = "closing" /\ d \notin q.known
    BY <2>1, JobFields DEF Nudging!Job, Nudging!DueReminder
  <2> HIDE DEF q
  <2>3. KnowsDrafts(q, reminded, form)
    BY <2>1, <2>2, JobFields DEF KnowsDrafts
  <2> QED BY <1>1, <1>2, <2>1, <2>2, <2>3, JobFields, JobSteps
<1> QED BY <1>3, <1>4, <1>5, <1>6

(* Nobody a run mails while alone was mailed before, unless that is excused *)
LEMMA JobDelivers == ASSUME DraftInv, NEW j \in Jobs, Nudging!Deliver(j) PROVE DraftInv'
<1> DEFINE q == [job[j] EXCEPT !.pc = "record"]
           d == job[j].mail
<1>1. /\ job[j].pc = "send" /\ Nudging!Set(j, q) /\ UNCHANGED <<draft, form, reminded, faults, moves>>
      /\ nudges' = [nudges EXCEPT ![d] = IF @ < 2 THEN @ + 1 ELSE @]
      /\ excused' = IF ~job[j].alone THEN excused \cup {d} ELSE excused
  BY DEF Nudging!Deliver, Nudging!At, Nudging!Excuse
<1>2. d \in Drafts /\ nudges \in [Drafts -> 0..2] /\ faults' \in 0..MaxFaults
  BY <1>1, JobFields DEF KnowsDrafts, DraftInv, Nudging!TypeOK
<1>3. /\ q \in Nudging!Job /\ q.pc = "record" /\ q.phase = job[j].phase /\ q.listed = job[j].listed
      /\ q.alone = job[j].alone /\ q.ended = job[j].ended /\ q.hopeless = job[j].hopeless
      /\ q.known = job[j].known /\ q.mail = d
  BY JobFields DEF Nudging!Job
<1>4. KnowsDrafts(q, reminded, form)
  BY <1>1, <1>3, JobFields DEF KnowsDrafts
<1> HIDE DEF q, d
<1>5. nudges[d] # 0 => d \in excused'
  <2>1. CASE job[j].alone
    <3>1. d \notin reminded
      BY <1>1, <2>1, JobFields DEF KnowsDrafts, d
    <3>2. \A o \in Jobs : job[o].pc # "record"
      BY <1>1, <2>1 DEF DraftInv, AloneInDrafts
    <3> QED BY <1>1, <1>2, <3>1, <3>2 DEF DraftInv, Remembered
  <2>2. CASE ~job[j].alone
    BY <1>1, <2>2
  <2> QED BY <2>1, <2>2, JobFields
<1>6. /\ nudges' \in [Drafts -> 0..2]
      /\ \A x \in Drafts : nudges'[x] # nudges[x] => x = d
      /\ nudges'[d] = 2 => nudges[d] # 0
  BY <1>1, <1>2
<1>7. excused \subseteq excused' /\ excused' \subseteq Drafts
  BY <1>1, <1>2, JobFields
<1> QED BY <1>1, <1>2, <1>3, <1>4, <1>5, <1>6, <1>7, JobFields, JobSteps

LEMMA JobEnds ==
  ASSUME DraftInv, NEW j \in Jobs, MaxFaults \in Nat,
         Nudging!Bounce(j) \/ Nudging!Record(j) \/ Nudging!LoseRow(j) \/ Nudging!Stop(j)
  PROVE  DraftInv'
<1> DEFINE next == [job[j] EXCEPT !.pc = "draft", !.mail = None]
           d == job[j].mail
<1>1. /\ job[j].pc # "idle" /\ UNCHANGED <<draft, form, nudges, moves>>
      /\ \/ Nudging!Set(j, next) /\ job[j].pc \in {"send", "record"}
         \/ Nudging!Set(j, Nudging!Rest)
      /\ reminded' \in {reminded, reminded \cup {d}} /\ excused' \in {excused, excused \cup {d}}
      /\ job[j].pc = "record" => d \in reminded' \cup excused'
      /\ job[j].pc # "record" => reminded' = reminded /\ excused' = excused
  BY DEF Nudging!Bounce, Nudging!Record, Nudging!LoseRow, Nudging!Stop, Nudging!At,
         Nudging!Excuse, Nudging!Running
<1>2. faults' \in 0..MaxFaults /\ nudges' \in [Drafts -> 0..2]
  <2>1. faults \in 0..MaxFaults /\ nudges \in [Drafts -> 0..2]
    BY DEF DraftInv, Nudging!TypeOK
  <2>2. faults' = faults \/ (faults < MaxFaults /\ faults' = faults + 1)
    <3>1. CASE Nudging!Bounce(j)
      BY <3>1 DEF Nudging!Bounce, Nudging!Fault
    <3>2. CASE Nudging!LoseRow(j)
      BY <3>2 DEF Nudging!LoseRow, Nudging!Fault
    <3>3. CASE Nudging!Stop(j)
      BY <3>3 DEF Nudging!Stop, Nudging!Fault
    <3>4. CASE Nudging!Record(j)
      BY <3>4 DEF Nudging!Record, Nudging!Fault
    <3> QED BY <3>1, <3>2, <3>3, <3>4
  <2> QED BY <1>1, <2>1, <2>2
<1>3. job[j].pc = "record" => d \in Drafts
  BY JobFields DEF KnowsDrafts
<1>4. /\ reminded \subseteq reminded' /\ reminded' \subseteq Drafts
      /\ excused \subseteq excused' /\ excused' \subseteq Drafts
  BY <1>1, <1>3, JobFields
<1>5. /\ next \in Nudging!Job /\ next.pc = "draft" /\ next.phase = job[j].phase
      /\ next.listed = job[j].listed /\ next.alone = job[j].alone /\ next.ended = job[j].ended
      /\ next.hopeless = job[j].hopeless /\ next.known = job[j].known
  BY JobFields DEF Nudging!Job
<1> HIDE DEF next, d
<1>6. CASE Nudging!Set(j, next) /\ job[j].pc \in {"send", "record"}
  <2>1. d \notin job[j].listed
    BY <1>6, JobFields DEF KnowsDrafts, d
  <2>2. KnowsDrafts(next, reminded', form)
    BY <1>1, <1>5, <1>6, <2>1, JobFields DEF KnowsDrafts
  <2> QED BY <1>1, <1>2, <1>4, <1>5, <1>6, <2>2, JobSteps DEF d
<1>7. CASE Nudging!Set(j, Nudging!Rest)
  <2>1. KnowsDrafts(Nudging!Rest, reminded', form)
    BY RestJob DEF KnowsDrafts
  <2> QED BY <1>1, <1>2, <1>4, <1>7, <2>1, RestJob, JobSteps DEF d
<1> QED BY <1>1, <1>6, <1>7

LEMMA DraftNext ==
  ASSUME {MaxFaults, MaxMoves} \subseteq Nat, DraftInv, [Nudging!Next]_Nudging!draftVars
  PROVE  DraftInv'
<1>1. CASE UNCHANGED Nudging!draftVars
  BY <1>1 DEF Nudging!draftVars, DraftInv, Nudging!TypeOK, AloneInDrafts, Remembered,
              Nudging!NudgedOnce, KnowsDrafts
<1> QED BY <1>1, SubmitKeeps, MoveKeeps, JobBegins, JobReads, JobDelivers, JobEnds DEF Nudging!Next

(* Any number of runs, drafts, failures and moves of the form's window: no  *)
(* digest chases whom it must not, a draft's speaker is reminded once       *)
(* unless runs overlapped or the row of the reminder was lost, nobody who   *)
(* had submitted before a run began is told to finish by it, and no         *)
(* deadline is announced of a form that was at no time of the run about to  *)
(* close (sendTaskDigests and remindAboutDrafts in src/domain/comms.ts).    *)
THEOREM NobodyEverMailedInVain ==
  ASSUME {MaxFaults, MaxMoves} \subseteq Nat
  PROVE  Mail => []NobodyMailedInVain
<1> DEFINE Stays == (part = "digests" => IInv) /\ (part = "drafts" => DraftInv)
<1>1. Gather => Stays
  BY InitKeeps, DraftInit DEF Gather
<1>2. Stays /\ [Work]_all => Stays'
  <2> SUFFICES ASSUME Stays, [Work]_all PROVE Stays'
    OBVIOUS
  <2>1. part' = part
    BY DEF Work, all
  <2>2. CASE part = "digests"
    <3>1. [Next]_vars
      BY <2>2 DEF Work, all
    <3> QED BY <2>1, <2>2, <3>1, NextKeeps
  <2>3. CASE part = "drafts"
    <3>1. [Nudging!Next]_Nudging!draftVars
      BY <2>3 DEF Work, all, Nudging!draftVars, nudging
    <3> QED BY <2>1, <2>3, <3>1, DraftNext
  <2> QED BY <2>1, <2>2, <2>3
<1>3. ASSUME IInv PROVE NobodyChasedInVain
  BY <1>3, NobodyChased
<1>4. ASSUME DraftInv
      PROVE  Nudging!NudgedOnce /\ Nudging!SubmittersAreSpared /\ Nudging!DeadlinesAreReal
  BY <1>4 DEF DraftInv, KnowsDrafts, Nudging!SubmittersAreSpared, Nudging!DeadlinesAreReal, Nudging!At
<1>5. Stays => NobodyMailedInVain
  BY <1>3, <1>4 DEF NobodyMailedInVain
<1> HIDE DEF Stays
<1> QED BY <1>1, <1>2, <1>5, PTL DEF Mail

----------------------------------------------------------------------------
(* The wording *)

(* Without two edits under way at once there is one row at most, which is   *)
(* what a writer has found, and the wording saved last.                     *)
OneWording ==
  /\ Len(rows) <= 1 /\ Writing!Resolve = latest
  /\ \A e, o \in Editors : edit[e].pc = "write" /\ edit[o].pc = "write" => e = o
  /\ \A e \in Editors : edit[e].pc = "write" => edit[e].found = Writing!Found(e)

(* What an edit is about to write, and what a send has read or sent, was    *)
(* let through.                                                             *)
Unchecked(q) == channel = "submission_confirmation" /\ q.own
EditFits(q) ==
  /\ q \in Writing!Edit
  /\ q.pc # "idle" /\ ~q.reset => q.text # 0 /\ Writing!Passes
  /\ q.pc = "write" /\ q.reset => q.found # 0
NoticeFits(q) ==
  /\ q \in Writing!Send /\ q.text = q.meant
  /\ q.text # 0 /\ ~Unchecked(q) => Writing!Passes
  /\ q.pc = "read" /\ q.own /\ ~Unchecked(q) => Writing!Passes
  /\ channel \in Writing!Composers => q.pc = "idle" \/ (q.own /\ (q.pc = "sent" => q.text # 0))

RowsFit(all_) ==
  all_ \in Seq(Writing!Row) /\ \A i \in DOMAIN all_ : all_[i].id # 0 /\ all_[i].text # 0

WordingInv ==
  /\ channel \in Writing!Templates \cup Writing!Composers
  /\ typed \in Nat /\ latest \in Nat /\ overlapped \in BOOLEAN
  /\ RowsFit(rows) /\ (rows # <<>> => Writing!Passes)
  /\ edit = [e \in Editors |-> edit[e]] /\ \A e \in Editors : EditFits(edit[e])
  /\ notice = [s \in Notices |-> notice[s]] /\ \A s \in Notices : NoticeFits(notice[s])
  /\ ~overlapped => OneWording

(* Every field a channel offers its send path fills in, and every field     *)
(* its built-in copy names outside a section of its own it always does.     *)
LEMMA OfferedAreGiven ==
  ASSUME channel \in Writing!Templates \cup Writing!Composers
  PROVE  /\ Writing!Offered(channel) \subseteq Writing!Given(channel)
         /\ channel \in Writing!Templates =>
              Writing!BuiltIn(channel) \subseteq Writing!Given(channel) \ Writing!MayLack(channel)
<1> USE DEF Writing!Given, Writing!MayLack, Writing!Decisions, Writing!DraftChannels, Writing!Composers
<1>1. CASE channel \in Writing!Decisions
  <2>1. Writing!Offered(channel) \subseteq Writing!Given(channel)
    <3>1. CASE channel = "submission_accepted"
      BY <3>1 DEF Writing!Offered, Writing!DecisionGives
    <3>2. CASE channel \in {"submission_waitlisted", "submission_declined"}
      BY <3>2 DEF Writing!Offered, Writing!DecisionGives
    <3> QED BY <1>1, <3>1, <3>2
  <2>2. /\ Writing!BuiltIn(channel) = {"submissionTitle"} /\ "submissionTitle" \in Writing!Given(channel)
        /\ "submissionTitle" \notin Writing!MayLack(channel)
    BY <1>1 DEF Writing!BuiltIn, Writing!DecisionGives, Writing!SessionFields
  <2> QED BY <2>1, <2>2
<1>2. CASE channel \in Writing!DraftChannels
  BY <1>2 DEF Writing!Offered, Writing!BuiltIn, Writing!DraftFields, Writing!DraftGives
<1>3. CASE channel = "submission_confirmation"
  BY <1>3 DEF Writing!Offered, Writing!BuiltIn, Writing!ConfirmationGives
<1>4. CASE channel = "change_request"
  BY <1>4 DEF Writing!Offered, Writing!BuiltIn, Writing!ChangeRequestGives
<1>5. CASE channel = "task_assigned"
  BY <1>5 DEF Writing!Offered, Writing!BuiltIn, Writing!AssignmentGives
<1>6. CASE channel = "task_digest"
  BY <1>6 DEF Writing!Offered, Writing!BuiltIn, Writing!DigestGives
<1>7. CASE channel = "round_reminder"
  BY <1>7 DEF Writing!Offered, Writing!BuiltIn, Writing!RoundGives
<1>8. CASE channel = "calendar_invite"
  BY <1>8 DEF Writing!Offered, Writing!BuiltIn, Writing!SessionFields
<1>9. CASE channel = "portal_invite"
  BY <1>9 DEF Writing!Offered, Writing!BuiltIn, Writing!PortalGives
<1>10. CASE channel = "manual"
  BY <1>10 DEF Writing!Offered, Writing!ManualGives, Writing!Templates
<1>11. CASE channel = "directory"
  BY <1>11 DEF Writing!Offered, Writing!DirectoryGives, Writing!Templates
<1> QED BY <1>1, <1>2, <1>3, <1>4, <1>5, <1>6, <1>7, <1>8, <1>9, <1>10, <1>11 DEF Writing!Templates

LEMMA WordingSaid ==
  ASSUME WordingInv
  PROVE  Writing!NothingLeftBlank /\ Writing!WordingTakesHold
<1>1. ASSUME NEW s \in Notices, notice[s].pc = "sent", NEW lacks \in SUBSET Writing!MayLack(channel)
      PROVE  /\ notice[s].text = 0 => Writing!Blank(s, lacks) = {}
             /\ ~Unchecked(notice[s]) => Writing!Blank(s, lacks) \subseteq lacks
  <2>1. NoticeFits(notice[s]) /\ channel \in Writing!Templates \cup Writing!Composers
    BY DEF WordingInv
  <2>2. CASE notice[s].text = 0
    BY <1>1, <2>1, <2>2, OfferedAreGiven DEF NoticeFits, Writing!Blank, Writing!Uses
  <2>3. CASE notice[s].text # 0
    BY <2>1, <2>3, OfferedAreGiven DEF NoticeFits, Writing!Blank, Writing!Uses, Writing!Passes
  <2> QED BY <2>2, <2>3
<1>2. ~overlapped => Writing!Resolve = latest
  BY DEF WordingInv, OneWording
<1>3. \A s \in Notices : notice[s].text = notice[s].meant
  BY DEF WordingInv, NoticeFits
<1> QED BY <1>1, <1>2, <1>3 DEF Writing!NothingLeftBlank, Writing!WordingTakesHold, Unchecked

LEMMA WordingInit == Writing!Init => WordingInv
<1> SUFFICES ASSUME Writing!Init PROVE WordingInv
  OBVIOUS
<1>1. EditFits(Writing!Resting) /\ Writing!Resting.pc = "idle"
  BY DEF EditFits, Writing!Resting, Writing!Edit
<1>2. NoticeFits(Writing!Unsent)
  BY DEF NoticeFits, Unchecked, Writing!Unsent, Writing!Send
<1>3. RowsFit(rows) /\ Len(rows) = 0
  BY DEF Writing!Init, RowsFit
<1>4. OneWording
  BY <1>1, <1>3 DEF Writing!Init, OneWording, Writing!Resolve
<1> QED BY <1>1, <1>2, <1>3, <1>4 DEF Writing!Init, WordingInv

(* The fields of an edit, one at a time *)
LEMMA EditIs ==
  ASSUME NEW q \in Writing!Edit
  PROVE  /\ q.pc \in {"idle", "find", "write"} /\ q.reset \in BOOLEAN /\ q.text \in Nat /\ q.found \in Nat
         /\ q = [pc |-> q.pc, reset |-> q.reset, text |-> q.text, found |-> q.found]
  BY DEF Writing!Edit

LEMMA SetEditIs ==
  ASSUME WordingInv, NEW e \in Editors, NEW q, EditFits(q), Writing!SetEdit(e, q)
  PROVE  /\ edit' = [o \in Editors |-> edit'[o]] /\ edit'[e] = q
         /\ \A o \in Editors \ {e} : edit'[o] = edit[o]
         /\ \A o \in Editors : EditFits(edit'[o])
  BY DEF WordingInv, Writing!SetEdit

(* What stays so while the channel and its field do *)
LEMMA PassesStays ==
  ASSUME UNCHANGED <<channel, field>>
  PROVE  /\ Writing!Passes' <=> Writing!Passes
         /\ \A q : EditFits(q)' <=> EditFits(q)
         /\ \A q : NoticeFits(q)' <=> NoticeFits(q)
  BY DEF Writing!Passes, EditFits, NoticeFits, Unchecked

LEMMA RestingIs ==
  /\ Writing!Resting \in Writing!Edit /\ Writing!Resting.pc = "idle" /\ Writing!Resting.reset = FALSE
  /\ EditFits(Writing!Resting)
  BY DEF Writing!Resting, Writing!Edit, EditFits

LEMMA EditBegins ==
  ASSUME WordingInv, NEW e \in Editors, Writing!Save(e) \/ Writing!Reset(e)
  PROVE  WordingInv'
<1>1. PICK q : /\ Writing!SetEdit(e, q) /\ EditFits(q) /\ q.pc = "find"
  <2>1. CASE Writing!Save(e)
    <3> DEFINE q == [Writing!Resting EXCEPT !.pc = "find", !.text = typed + 1]
    <3>1. typed + 1 \in Nat \ {0} /\ Writing!Passes /\ Writing!SetEdit(e, q)
      BY <2>1 DEF Writing!Save, WordingInv
    <3>2. q \in Writing!Edit /\ q.pc = "find" /\ q.text = typed + 1 /\ ~q.reset
      BY <3>1, RestingIs DEF Writing!Edit
    <3> HIDE DEF q
    <3> QED BY <3>1, <3>2 DEF EditFits
  <2>2. CASE Writing!Reset(e)
    <3> DEFINE q == [Writing!Resting EXCEPT !.pc = "find", !.reset = TRUE]
    <3>1. Writing!SetEdit(e, q)
      BY <2>2 DEF Writing!Reset
    <3>2. q \in Writing!Edit /\ q.pc = "find" /\ q.reset
      BY RestingIs DEF Writing!Edit
    <3> HIDE DEF q
    <3> QED BY <3>1, <3>2 DEF EditFits
  <2> QED BY <2>1, <2>2
<1>2. UNCHANGED <<channel, field, rows, notice, latest, overlapped>> /\ typed' = typed + 1
  BY DEF Writing!Save, Writing!Reset, Writing!about
<1>3. OneWording => OneWording'
  BY <1>1, <1>2, SetEditIs DEF OneWording, Writing!Resolve, Writing!Found
<1> QED BY <1>1, <1>2, <1>3, SetEditIs, PassesStays DEF WordingInv

LEMMA EditFinds ==
  ASSUME WordingInv, NEW e \in Editors, Writing!FindOverride(e)
  PROVE  WordingInv'
<1>1. /\ EditFits(edit[e]) /\ edit[e].pc = "find"
      /\ UNCHANGED <<channel, field, rows, notice, latest, typed>>
      /\ overlapped' = (overlapped \/ \E o \in Editors \ {e} : edit[o].pc = "write")
  BY DEF Writing!FindOverride, Writing!At, WordingInv, Writing!about
<1>2. Writing!Found(e) \in Nat
  <2>1. rows # <<>> => Head(rows) \in Writing!Row
    BY DEF WordingInv, RowsFit
  <2> QED BY <2>1 DEF Writing!Found, Writing!Row
<1>3. PICK q : /\ Writing!SetEdit(e, q) /\ EditFits(q)
               /\ q.pc = "write" => q.found = Writing!Found(e)
  <2>1. CASE edit[e].reset /\ Writing!Found(e) = 0
    <3>1. EditFits(Writing!Resting) /\ Writing!Resting.pc = "idle"
      BY RestingIs
    <3> QED BY <2>1, <3>1 DEF Writing!FindOverride
  <2>2. CASE ~(edit[e].reset /\ Writing!Found(e) = 0)
    <3> DEFINE q == [edit[e] EXCEPT !.pc = "write", !.found = Writing!Found(e)]
    <3>1. Writing!SetEdit(e, q)
      BY <2>2 DEF Writing!FindOverride
    <3>2. /\ q \in Writing!Edit /\ q.pc = "write" /\ q.found = Writing!Found(e)
          /\ q.reset = edit[e].reset /\ q.text = edit[e].text
      BY <1>1, <1>2 DEF EditFits, Writing!Edit
    <3> HIDE DEF q
    <3> QED BY <1>1, <2>2, <3>1, <3>2 DEF EditFits
  <2> QED BY <2>1, <2>2
<1>4. overlapped' \in BOOLEAN
  BY <1>1 DEF WordingInv
<1>5. ~overlapped' => OneWording'
  <2> SUFFICES ASSUME ~overlapped' PROVE OneWording'
    OBVIOUS
  <2>1. OneWording /\ \A o \in Editors \ {e} : edit[o].pc # "write"
    BY <1>1 DEF WordingInv
  <2> QED BY <1>1, <1>3, <2>1, SetEditIs DEF OneWording, Writing!Resolve, Writing!Found
<1> QED BY <1>1, <1>3, <1>4, <1>5, SetEditIs, PassesStays DEF WordingInv

(* A write: what the rows are after it, and, of one editor alone, that they *)
(* are what it has written.                                                 *)
LEMMA EditEnds ==
  ASSUME WordingInv, NEW e \in Editors, edit[e].pc = "write", Writing!SetEdit(e, Writing!Resting),
         UNCHANGED <<channel, field, notice, overlapped, typed>>,
         RowsFit(rows'), rows' # <<>> => Writing!Passes, latest' \in Nat,
         OneWording => Len(rows') <= 1 /\ Writing!Resolve' = latest'
  PROVE  WordingInv'
<1>1. EditFits(Writing!Resting) /\ Writing!Resting.pc = "idle"
  BY DEF EditFits, Writing!Resting, Writing!Edit
<1>2. OneWording => OneWording'
  <2> SUFFICES ASSUME OneWording PROVE OneWording'
    OBVIOUS
  <2>1. \A o \in Editors : edit'[o].pc # "write"
    BY <1>1, SetEditIs DEF OneWording
  <2> QED BY <2>1 DEF OneWording
<1> QED BY <1>1, <1>2, SetEditIs, PassesStays DEF WordingInv

LEMMA EditCreates ==
  ASSUME WordingInv, NEW e \in Editors, Writing!Create(e)
  PROVE  WordingInv'
<1>1. /\ edit[e].pc = "write" /\ edit[e].found = 0 /\ Writing!SetEdit(e, Writing!Resting)
      /\ rows' = Append(rows, [id |-> edit[e].text, text |-> edit[e].text]) /\ latest' = edit[e].text
      /\ UNCHANGED <<channel, field, notice, overlapped, typed>>
  BY DEF Writing!Create, Writing!At, Writing!about
<1>2. edit[e].text \in Nat \ {0} /\ Writing!Passes
  BY <1>1, EditIs DEF WordingInv, EditFits
<1>3. PICK row \in Writing!Row : row = [id |-> edit[e].text, text |-> edit[e].text]
  BY <1>2 DEF Writing!Row
<1>4. row.text = edit[e].text /\ row.id = edit[e].text
  BY <1>3
<1>5. /\ rows \in Seq(Writing!Row) /\ rows' \in Seq(Writing!Row) /\ Len(rows') = Len(rows) + 1
      /\ \A i \in 1..Len(rows) : rows'[i] = rows[i] /\ rows[i].id # 0 /\ rows[i].text # 0
      /\ rows'[Len(rows) + 1] = row /\ rows' # <<>>
  BY <1>1, <1>3 DEF WordingInv, RowsFit
<1>6. RowsFit(rows')
  BY <1>2, <1>4, <1>5 DEF RowsFit
<1>7. Writing!Resolve' = edit[e].text
  BY <1>4, <1>5 DEF Writing!Resolve, Writing!Last
<1>8. OneWording => Len(rows') <= 1
  <2> SUFFICES ASSUME OneWording PROVE Len(rows) = 0
    BY <1>5
  <2>1. rows # <<>> => Head(rows).id # 0
    BY <1>5
  <2> QED BY <1>1, <1>5, <2>1 DEF OneWording, Writing!Found
<1> QED BY <1>1, <1>2, <1>6, <1>7, <1>8, EditEnds

LEMMA EditUpdates ==
  ASSUME WordingInv, NEW e \in Editors, Writing!Update(e)
  PROVE  WordingInv'
<1> DEFINE q == edit[e]
<1>1. /\ q.pc = "write" /\ q.found # 0 /\ ~q.reset /\ Writing!SetEdit(e, Writing!Resting)
      /\ rows' = [i \in DOMAIN rows |->
                   IF rows[i].id = q.found THEN [rows[i] EXCEPT !.text = q.text] ELSE rows[i]]
      /\ latest' = IF Writing!There(q.found) THEN q.text ELSE latest
      /\ UNCHANGED <<channel, field, notice, overlapped, typed>>
  BY DEF Writing!Update, Writing!At, Writing!about
<1>2. q.text \in Nat \ {0} /\ Writing!Passes
  BY <1>1, EditIs DEF WordingInv, EditFits
<1>3. /\ rows \in Seq(Writing!Row) /\ DOMAIN rows = 1..Len(rows) /\ Len(rows) \in Nat
      /\ \A i \in 1..Len(rows) : rows[i] \in Writing!Row /\ rows[i].id # 0 /\ rows[i].text # 0
  BY DEF WordingInv, RowsFit
<1>4. PICK text \in Nat \ {0} : text = q.text
  BY <1>2
<1>5. ASSUME NEW row \in Writing!Row
      PROVE  /\ [row EXCEPT !.text = text] \in Writing!Row
             /\ [row EXCEPT !.text = text].id = row.id /\ [row EXCEPT !.text = text].text = text
  BY <1>4 DEF Writing!Row
<1>6. /\ rows' \in Seq(Writing!Row) /\ Len(rows') = Len(rows)
      /\ \A i \in 1..Len(rows) :
           /\ rows'[i].id = rows[i].id
           /\ rows'[i].text = IF rows[i].id = q.found THEN text ELSE rows[i].text
  <2>1. /\ DOMAIN rows' = 1..Len(rows)
        /\ \A i \in 1..Len(rows) :
             rows'[i] = IF rows[i].id = q.found THEN [rows[i] EXCEPT !.text = text] ELSE rows[i]
    BY <1>1, <1>3, <1>4
  <2>2. ASSUME NEW i \in 1..Len(rows)
        PROVE  /\ rows'[i] \in Writing!Row /\ rows'[i].id = rows[i].id
               /\ rows'[i].text = IF rows[i].id = q.found THEN text ELSE rows[i].text
    <3>1. PICK row \in Writing!Row : row = rows[i]
      BY <1>3
    <3>2. rows'[i] = IF row.id = q.found THEN [row EXCEPT !.text = text] ELSE row
      BY <2>1, <3>1
    <3> HIDE DEF q
    <3>3. CASE row.id = q.found
      BY <1>5, <3>1, <3>2, <3>3
    <3>4. CASE row.id # q.found
      BY <3>1, <3>2, <3>4
    <3> QED BY <3>3, <3>4
  <2>3. rows' = [i \in 1..Len(rows) |-> rows'[i]]
    BY <1>1, <1>3
  <2> QED BY <1>3, <2>1, <2>2, <2>3
<1>7. RowsFit(rows')
  BY <1>3, <1>4, <1>6 DEF RowsFit
<1>8. OneWording => Len(rows') <= 1 /\ Writing!Resolve' = latest'
  <2> SUFFICES ASSUME OneWording PROVE Len(rows') <= 1 /\ Writing!Resolve' = latest'
    OBVIOUS
  <2>1. Len(rows) <= 1 /\ q.found = Writing!Found(e)
    BY <1>1 DEF OneWording
  <2>2. rows # <<>> /\ Len(rows) = 1 /\ rows[1].id = q.found
    BY <1>1, <1>3, <2>1 DEF Writing!Found
  <2>3. /\ Writing!There(q.found) /\ rows'[1].text = text /\ Len(rows') = 1 /\ rows' # <<>>
    BY <1>3, <1>6, <2>2 DEF Writing!There
  <2> QED BY <1>1, <1>4, <2>3 DEF Writing!Resolve, Writing!Last
<1>9. latest' \in Nat
  BY <1>1, <1>2 DEF WordingInv
<1> QED BY <1>1, <1>2, <1>7, <1>8, <1>9, EditEnds

LEMMA EditDeletes ==
  ASSUME WordingInv, NEW e \in Editors, Writing!Delete(e)
  PROVE  WordingInv'
<1> DEFINE q == edit[e]
           there == \E i \in DOMAIN rows : rows[i].id = q.found
<1>1. /\ q.pc = "write" /\ q.reset /\ Writing!SetEdit(e, Writing!Resting) /\ latest' = 0
      /\ IF there THEN \E i \in DOMAIN rows : rows[i].id = q.found /\ rows' = Writing!RemoveAt(rows, i)
         ELSE rows' = rows
      /\ UNCHANGED <<channel, field, notice, overlapped, typed>>
  BY DEF Writing!Delete, Writing!There, Writing!At, Writing!about
<1>2. /\ rows \in Seq(Writing!Row) /\ DOMAIN rows = 1..Len(rows) /\ Len(rows) \in Nat
      /\ \A i \in 1..Len(rows) : rows[i].id # 0 /\ rows[i].text # 0
      /\ rows # <<>> => Writing!Passes
  BY DEF WordingInv, RowsFit
<1>3. ASSUME there
      PROVE  /\ rows' \in Seq(Writing!Row) /\ Len(rows') = Len(rows) - 1 /\ rows # <<>>
             /\ \A j \in 1..Len(rows') : rows'[j].id # 0 /\ rows'[j].text # 0
  <2>1. PICK i \in 1..Len(rows) : rows' = SubSeq(rows, 1, i - 1) \o SubSeq(rows, i + 1, Len(rows))
    BY <1>1, <1>2, <1>3 DEF Writing!RemoveAt
  <2>2. /\ SubSeq(rows, 1, i - 1) \in Seq(Writing!Row) /\ Len(SubSeq(rows, 1, i - 1)) = i - 1
        /\ \A j \in 1..(i - 1) : SubSeq(rows, 1, i - 1)[j] = rows[j]
    <3>1. \A j \in 1..(i - 1) : rows[j] \in Writing!Row
      BY <1>2
    <3>2. 1 \in Int /\ i - 1 \in Int
      BY <1>2
    <3> QED BY <1>2, <3>1, <3>2, SubSeqProperties
  <2>3. /\ SubSeq(rows, i + 1, Len(rows)) \in Seq(Writing!Row)
        /\ Len(SubSeq(rows, i + 1, Len(rows))) = Len(rows) - i
        /\ \A j \in 1..(Len(rows) - i) : SubSeq(rows, i + 1, Len(rows))[j] = rows[i + j]
    <3>1. \A j \in (i + 1)..Len(rows) : rows[j] \in Writing!Row
      BY <1>2
    <3>2. i + 1 \in Int /\ Len(rows) \in Int /\ Len(rows) - (i + 1) + 1 = Len(rows) - i
      BY <1>2
    <3> HIDE DEF there
    <3>3. \A j \in 1..(Len(rows) - i) : j \in Int /\ i + 1 + j - 1 = i + j
      BY <1>2
    <3>4. /\ SubSeq(rows, i + 1, Len(rows)) \in Seq(Writing!Row)
          /\ Len(SubSeq(rows, i + 1, Len(rows))) = IF i + 1 <= Len(rows) THEN Len(rows) - (i + 1) + 1 ELSE 0
          /\ \A j \in 1..(Len(rows) - (i + 1) + 1) : SubSeq(rows, i + 1, Len(rows))[j] = rows[i + 1 + j - 1]
      BY <3>1, <3>2, SubSeqProperties
    <3>5. Len(SubSeq(rows, i + 1, Len(rows))) = Len(rows) - i
      <4>1. CASE i + 1 <= Len(rows)
        BY <3>2, <3>4, <4>1
      <4>2. CASE ~(i + 1 <= Len(rows))
        <5>1. i \in Nat /\ i <= Len(rows) /\ Len(rows) \in Nat
          BY <1>2
        <5>2. Len(rows) = i
          BY <4>2, <5>1
        <5> QED BY <3>4, <4>2, <5>2
      <4> QED BY <4>1, <4>2
    <3>6. ASSUME NEW j \in 1..(Len(rows) - i)
          PROVE  SubSeq(rows, i + 1, Len(rows))[j] = rows[i + j]
      BY <3>2, <3>3, <3>4, <3>6
    <3> QED BY <3>4, <3>5, <3>6
  <2>4. PICK a, b : a = SubSeq(rows, 1, i - 1) /\ b = SubSeq(rows, i + 1, Len(rows))
    OBVIOUS
  <2>5. /\ a \in Seq(Writing!Row) /\ b \in Seq(Writing!Row) /\ rows' = a \o b
        /\ Len(a) = i - 1 /\ Len(b) = Len(rows) - i
        /\ \A j \in 1..(i - 1) : a[j] = rows[j]
        /\ \A j \in 1..(Len(rows) - i) : b[j] = rows[i + j]
    BY <2>1, <2>2, <2>3, <2>4
  <2>6. /\ rows' \in Seq(Writing!Row) /\ Len(rows') = i - 1 + (Len(rows) - i)
        /\ \A j \in 1..(i - 1 + (Len(rows) - i)) : rows'[j] = IF j <= i - 1 THEN a[j] ELSE b[j - (i - 1)]
    <3>1. /\ a \o b \in Seq(Writing!Row) /\ Len(a \o b) = Len(a) + Len(b)
          /\ \A j \in 1..(Len(a) + Len(b)) :
               (a \o b)[j] = IF j <= Len(a) THEN a[j] ELSE b[j - Len(a)]
      BY <2>5, ConcatProperties
    <3> QED BY <2>5, <3>1
  <2>7. Len(rows') = Len(rows) - 1
    BY <1>2, <2>6
  <2>8. ASSUME NEW j \in 1..Len(rows') PROVE rows'[j].id # 0 /\ rows'[j].text # 0
    <3>1. CASE j <= i - 1
      BY <1>2, <2>5, <2>6, <2>7, <2>8, <3>1
    <3>2. CASE ~(j <= i - 1)
      <4>1. /\ j - (i - 1) \in 1..(Len(rows) - i) /\ i + (j - (i - 1)) = j + 1
            /\ j + 1 \in 1..Len(rows)
        BY <1>2, <2>7, <2>8, <3>2
      <4>2. rows'[j] = rows[j + 1]
        BY <1>2, <2>5, <2>6, <2>7, <2>8, <3>2, <4>1
      <4> QED BY <1>2, <4>1, <4>2
    <3> QED BY <3>1, <3>2
  <2>9. rows # <<>>
    BY <1>2
  <2> QED BY <2>6, <2>7, <2>8, <2>9
<1>4. RowsFit(rows') /\ (rows' # <<>> => Writing!Passes)
  <2>1. CASE there
    <3>1. PICK s : s = rows'
      OBVIOUS
    <3>2. s \in Seq(Writing!Row) /\ \A j \in 1..Len(s) : s[j].id # 0 /\ s[j].text # 0
      BY <1>3, <2>1, <3>1
    <3>3. RowsFit(s)
      BY <3>2 DEF RowsFit
    <3>4. Writing!Passes
      BY <1>2, <1>3, <2>1
    <3> QED BY <3>1, <3>3, <3>4
  <2>2. CASE ~there
    BY <1>1, <1>2, <2>2 DEF RowsFit
  <2> QED BY <2>1, <2>2
<1>5. OneWording => Len(rows') <= 1 /\ Writing!Resolve' = latest'
  <2> SUFFICES ASSUME OneWording PROVE Len(rows') <= 1 /\ Writing!Resolve' = latest'
    OBVIOUS
  <2>1. Len(rows) <= 1 /\ q.found = Writing!Found(e) /\ q.found # 0
    BY <1>1 DEF OneWording, WordingInv, EditFits
  <2>2. rows # <<>> /\ Len(rows) = 1 /\ rows[1].id = q.found
    BY <1>2, <2>1 DEF Writing!Found
  <2>3. rows' = <<>>
    BY <1>2, <1>3, <2>2
  <2> QED BY <1>1, <2>3 DEF Writing!Resolve
<1> QED BY <1>1, <1>4, <1>5, EditEnds

LEMMA NoticeMoves ==
  ASSUME WordingInv, NEW s \in Notices, NEW q, NoticeFits(q), notice' = [notice EXCEPT ![s] = q],
         UNCHANGED <<channel, field, rows, edit, latest, overlapped, typed>>
  PROVE  WordingInv'
<1>1. /\ notice' = [o \in Notices |-> notice'[o]]
      /\ \A o \in Notices : NoticeFits(notice'[o])
  BY DEF WordingInv
<1>2. OneWording => OneWording'
  BY DEF OneWording, Writing!Resolve, Writing!Found
<1> QED BY <1>1, <1>2, PassesStays DEF WordingInv

LEMMA NoticeBegins ==
  ASSUME WordingInv, NEW s \in Notices, NEW own \in BOOLEAN, Writing!Begin(s, own)
  PROVE  WordingInv'
<1> DEFINE q == [Writing!Unsent EXCEPT !.pc = "read", !.own = own]
<1>1. /\ notice' = [notice EXCEPT ![s] = q]
      /\ channel \in Writing!Composers => own /\ Writing!Passes
      /\ own => channel \in Writing!Composers \cup {"submission_confirmation"}
      /\ UNCHANGED <<channel, field, rows, edit, latest, overlapped, typed>>
  BY DEF Writing!Begin, Writing!about
<1>2. Writing!Unsent \in Writing!Send /\ Writing!Unsent.text = 0 /\ Writing!Unsent.meant = 0
  BY DEF Writing!Unsent, Writing!Send
<1>3. q \in Writing!Send /\ q.pc = "read" /\ q.own = own /\ q.text = 0 /\ q.meant = 0
  BY <1>2 DEF Writing!Send
<1> HIDE DEF q
<1>4. NoticeFits(q)
  BY <1>1, <1>3 DEF NoticeFits, Unchecked
<1> QED BY <1>1, <1>4, NoticeMoves

LEMMA NoticeSent ==
  ASSUME WordingInv, NEW s \in Notices,
         Writing!EventTemplateOverrides(s) \/ Writing!OverridesUnreadable(s)
  PROVE  WordingInv'
<1>1. /\ notice[s].pc = "read" /\ NoticeFits(notice[s])
      /\ UNCHANGED <<channel, field, rows, edit, latest, overlapped, typed>>
  BY DEF WordingInv, Writing!EventTemplateOverrides, Writing!OverridesUnreadable, Writing!about
<1>2. PICK q \in Writing!Send : q = notice[s]
  BY <1>1 DEF NoticeFits
<1>3. ASSUME NEW text \in Nat, NEW meant \in Nat,
             notice' = [notice EXCEPT ![s].pc = "sent", ![s].text = text, ![s].meant = meant],
             text = meant, text # 0 /\ ~Unchecked(q) => Writing!Passes,
             channel \in Writing!Composers => text # 0
      PROVE  WordingInv'
  <2> DEFINE p == [q EXCEPT !.pc = "sent", !.text = text, !.meant = meant]
  <2>1. p.pc = "sent" /\ p.own = q.own /\ p.text = text /\ p.meant = meant /\ p \in Writing!Send
    BY DEF Writing!Send
  <2>2. notice' = [notice EXCEPT ![s] = p]
    BY <1>2, <1>3 DEF WordingInv
  <2> HIDE DEF p
  <2>3. NoticeFits(p)
    BY <1>1, <1>2, <1>3, <2>1 DEF NoticeFits, Unchecked
  <2> QED BY <1>1, <2>2, <2>3, NoticeMoves
<1>4. CASE Writing!OverridesUnreadable(s)
  <2>1. channel \notin Writing!Composers
    BY <1>1, <1>4 DEF Writing!OverridesUnreadable, NoticeFits
  <2> QED BY <1>3, <1>4, <2>1 DEF Writing!OverridesUnreadable
<1>5. CASE Writing!EventTemplateOverrides(s)
  <2>1. PICK text : /\ text = IF q.own THEN 1 ELSE Writing!Resolve
                    /\ notice' = [notice EXCEPT ![s].pc = "sent", ![s].text = text,
                                    ![s].meant = IF q.own \/ overlapped THEN text ELSE latest]
    BY <1>2, <1>5 DEF Writing!EventTemplateOverrides
  <2>2. Writing!Resolve \in Nat /\ (Writing!Resolve # 0 => Writing!Passes)
    <3>1. CASE rows = <<>>
      BY <3>1 DEF Writing!Resolve
    <3>2. CASE rows # <<>>
      <4>1. rows[Len(rows)] \in Writing!Row /\ Writing!Passes
        BY <3>2 DEF WordingInv, RowsFit
      <4> QED BY <3>2, <4>1 DEF Writing!Resolve, Writing!Last, Writing!Row
    <3> QED BY <3>1, <3>2
  <2>3. (q.own /\ ~Unchecked(q) => Writing!Passes) /\ (channel \in Writing!Composers => q.own)
    BY <1>1, <1>2 DEF NoticeFits, Unchecked
  <2>4. ~overlapped => Writing!Resolve = latest
    BY DEF WordingInv, OneWording
  <2>5. /\ text \in Nat /\ (text # 0 /\ ~Unchecked(q) => Writing!Passes)
        /\ channel \in Writing!Composers => text # 0
        /\ text = IF q.own \/ overlapped THEN text ELSE latest
    BY <2>1, <2>2, <2>3, <2>4
  <2> QED BY <1>3, <2>1, <2>5
<1> QED BY <1>4, <1>5

LEMMA WordingNext == ASSUME WordingInv, [Writing!Next]_Writing!wordingVars PROVE WordingInv'
<1>1. CASE UNCHANGED Writing!wordingVars
  <2>1. UNCHANGED <<channel, field, rows, edit, notice, latest, overlapped, typed>>
    BY <1>1 DEF Writing!wordingVars
  <2>2. OneWording => OneWording'
    BY <2>1 DEF OneWording, Writing!Resolve, Writing!Found
  <2> QED BY <2>1, <2>2, PassesStays DEF WordingInv
<1> QED BY <1>1, EditBegins, EditFinds, EditCreates, EditUpdates, EditDeletes, NoticeBegins, NoticeSent
        DEF Writing!Next

(* Any number of editors, sends and wordings: whatever a message has no     *)
(* value for, the built-in copy of no template goes out with a hole, and    *)
(* copy the check let through has one only there; and unless two edits were *)
(* under way at once the next mail says what was saved last, or the         *)
(* built-in copy after a reset (checkTemplateDraft, saveTemplateOverride,   *)
(* resetTemplateOverride and resolveCommsTemplate).                         *)
THEOREM WordingAlwaysHolds == Mail => []WordingHolds
<1> DEFINE Stays == part = "wording" => WordingInv
<1>1. Gather => Stays
  BY WordingInit DEF Gather
<1>2. Stays /\ [Work]_all => Stays'
  <2> SUFFICES ASSUME Stays, [Work]_all, part' = "wording" PROVE WordingInv'
    OBVIOUS
  <2>1. part = "wording"
    BY DEF Work, all
  <2>2. [Writing!Next]_Writing!wordingVars
    BY <2>1 DEF Work, all, Writing!wordingVars, writing
  <2> QED BY <2>1, <2>2, WordingNext
<1>3. Stays => WordingHolds
  BY WordingSaid DEF WordingHolds
<1> HIDE DEF Stays
<1> QED BY <1>1, <1>2, <1>3, PTL DEF Mail
=============================================================================
