---------------------------- MODULE OrderMailProofs ----------------------------
(***************************************************************************)
(* Theorems about the mail of the order core, for any number of web        *)
(* workers, Celery processes, accounts and orders: nobody gets a message   *)
(* twice, everyone who asked for the mail of an ended task has it, and a   *)
(* message about an offer can be built and lists that offer.               *)
(***************************************************************************)
EXTENDS OrderMail, OrdersProofs

-----------------------------------------------------------------------------
(* What the tasks say of the offers *)

\* The handler that still has to insert the items of an offer.
Finishing(r, f) ==
    /\ req[r].pc = "offerItems"
    /\ req[r].target = f.id /\ req[r].order = f.order

Unfinished == \A f \in offers : ~f.complete =>
    \/ "abort" \in marks[f.order]
    \/ \E r \in Requests : Finishing(r, f)

\* The offer a task speaks of has been written when the task is queued.
Lists(o, status, version) ==
    status \in OfferCodes /\ Spared(o, {"overlap", "abort", "deleted"})
      => version \in Versions(o)

Listed == \A i \in DOMAIN tasks :
    Lists(tasks[i].order, tasks[i].status, tasks[i].fv)

CoreInv == TypeInv /\ HistoryInv /\ AllConsistent /\ Unfinished /\ Listed

-----------------------------------------------------------------------------
(* What the Celery processes have done *)

Working(w) == job[w].phase # "idle"

\* A task that is run is run by one process, and only once.
Jobs ==
    /\ \A w \in Celery : ~Working(w) => job[w].todo = {}
    /\ \A w \in Celery : Working(w) =>
         job[w].task \in DOMAIN fate /\ fate[job[w].task] = "run"
    /\ \A w, v \in Celery :
         Working(w) /\ Working(v) /\ job[w].task = job[v].task => w = v

Sent ==
    /\ \A m \in DOMAIN mails : m.task \in DOMAIN fate /\ mails[m] = 1
    /\ \A m, n \in DOMAIN mails :
         m.task = n.task /\ m.letter.to = n.letter.to => m = n

\* The letters a process has yet to send go to the accounts of its loop, one
\* each, and to none that this task has mailed.
Loop(w) == IF job[w].phase = "team" THEN Team ELSE Staff

Queued(w) ==
    /\ \A l \in job[w].todo : l.to \in Loop(w)
    /\ \A k, l \in job[w].todo : k.to = l.to => k = l
    /\ Working(w) => \A m \in DOMAIN mails : m.task = job[w].task =>
         /\ job[w].phase = "team" => m.letter.to \in Team
         /\ \A l \in job[w].todo : l.to # m.letter.to

\* Account u has its message of task i, if it wants one.
Mailed(i, u) == \E m \in DOMAIN mails : m.task = i /\ m.letter.to = u
Content(i, u) == Wants(u, tasks[i].status) => Mailed(i, u)
Waiting(w, u) == \E l \in job[w].todo : l.to = u

Served ==
    \A u \in Accounts \ resaved :
      /\ \A i \in DOMAIN fate : fate[i] = "done" => Content(i, u)
      /\ \A w \in Celery : Working(w) /\ (u \in Team \/ job[w].phase = "staff") =>
           Content(job[w].task, u) \/ Waiting(w, u)

MailInv ==
    /\ MailTypeOK /\ Jobs /\ Sent /\ Served
    /\ \A w \in Celery : Queued(w)


-----------------------------------------------------------------------------
(* The core *)

\* How table Offer changes: only a deletion takes a row away, and an offer
\* keeps its keys and its version.
LEMMA OffersKept ==
    ASSUME TypeInv, NEW r \in Requests, Does(r), ~DoDelete(r),
           NEW f \in offers
    PROVE  \E g \in offers' : g.order = f.order /\ g.version = f.version
<1>1. CASE KeepsOffers
  BY <1>1 DEF KeepsOffers
<1>2. CASE DoDecide(r) \/ DoOfferItems(r)
  BY <1>2 DEF DoDecide, DoOfferItems, OfferChanges
<1>3. CASE DoOffer(r)
  BY <1>3 DEF DoOffer
<1> QED
  BY <1>1, <1>2, <1>3, OthersStay

\* The slot that is to insert an offer's items does that next, or stops.
LEMMA FinishingStays ==
    ASSUME TypeInv, NEW r \in Requests, Does(r), NEW f \in offers,
           NEW s \in Requests, Finishing(s, f)
    PROVE  \/ Finishing(s, f)'
           \/ s = r /\ (DoOfferItems(r) \/ DoAbort(r))
<1>1. CASE s # r
  BY <1>1, OthersStay DEF Others, Finishing
<1>2. CASE s = r
  <2>1. req[r].pc = "offerItems"
    BY <1>2 DEF Finishing
  <2> QED
    BY <1>2, <2>1 DEF Does, DoClick, DoCreate, DoLoad, DoDelete, DoDrop, DoSave,
       DoItem, DoAnnounce, DoMail, DoDecide, DoOffer, Taken
<1> QED
  BY <1>1, <1>2

LEMMA UnfinishedStep ==
    ASSUME TypeInv, Structure, Unfinished, NEW r \in Requests, Does(r)
    PROVE  Unfinished'
<1>t. /\ offers \subseteq Offer /\ \A f \in offers : f.order \in Ids
      /\ req[r] \in Request
  BY DEF TypeInv, TypeOK, Offer
<1>k. \A f, g \in offers : f.id = g.id => f = g
  BY DEF Structure, Keys
<1>m. \A o \in Ids : marks[o] \subseteq marks'[o]
  BY MarksGrow
\* An offer that was there and is still without items.
<1>1. ASSUME NEW f \in offers, ~f.complete,
             ~DoOfferItems(r) \/ f.id # req[r].target
      PROVE  "abort" \in marks'[f.order] \/ \E s \in Requests : Finishing(s, f)'
  <2>1. CASE "abort" \in marks[f.order]
    BY <1>m, <1>t, <2>1
  <2>2. CASE \E s \in Requests : Finishing(s, f)
    <3>1. PICK s \in Requests : Finishing(s, f)
      BY <2>2
    <3>2. CASE s = r /\ DoOfferItems(r)
      BY <1>1, <3>1, <3>2 DEF Finishing
    <3>3. CASE s = r /\ DoAbort(r)
      BY <3>1, <3>3 DEF Finishing, DoAbort
    <3> QED
      BY <3>1, <3>2, <3>3, FinishingStays
  <2> QED
    BY <1>1, <2>1, <2>2 DEF Unfinished
<1>2. CASE (KeepsOffers \/ DoDelete(r)) /\ ~DoOfferItems(r)
  <2>1. offers' \subseteq offers
    BY <1>2 DEF KeepsOffers, DoDelete
  <2> QED
    BY <1>1, <1>2, <2>1 DEF Unfinished
<1>3. CASE DoDecide(r)
  <2>1. PICK f, g : OfferChanges(r, f, g) /\ g.complete = f.complete
    BY <1>3 DEF DoDecide
  <2>2. ~DoOfferItems(r)
    BY <1>3 DEF DoDecide, DoOfferItems
  <2>3. ASSUME NEW h \in offers', ~h.complete
        PROVE  "abort" \in marks'[h.order] \/ \E s \in Requests : Finishing(s, h)'
    <3>1. CASE h \in offers
      BY <1>1, <2>2, <2>3, <3>1
    <3>2. CASE h = g
      <4>1. f \in offers /\ ~f.complete /\ f.id = g.id /\ f.order = g.order
        BY <2>1, <2>3, <3>2 DEF OfferChanges
      <4>2. "abort" \in marks'[f.order] \/ \E s \in Requests : Finishing(s, f)'
        BY <1>1, <2>2, <4>1
      <4> QED
        BY <3>2, <4>1, <4>2 DEF Finishing
    <3> QED
      BY <2>1, <3>1, <3>2 DEF OfferChanges
  <2> QED
    BY <2>3 DEF Unfinished
<1>4. CASE DoOfferItems(r)
  <2>1. PICK f, g : OfferChanges(r, f, g) /\ g.complete
    BY <1>4 DEF DoOfferItems
  <2>2. \A h \in offers' : ~h.complete => h \in offers /\ h.id # req[r].target
    BY <1>k, <2>1 DEF OfferChanges
  <2> QED
    BY <1>1, <2>2 DEF Unfinished
<1>5. CASE DoOffer(r)
  <2>1. PICK g \in Offer : /\ offers' = offers \cup {g}
                           /\ g.id = nextOffer /\ g.order = req[r].order
    BY <1>5 DEF DoOffer
  <2>2. Finishing(r, g)'
    BY <1>5, <2>1 DEF DoOffer, Finishing, SameRequest
  <2>3. ~DoOfferItems(r)
    BY <1>5 DEF DoOffer, DoOfferItems
  <2> QED
    BY <1>1, <2>1, <2>2, <2>3 DEF Unfinished
<1> QED
  BY <1>2, <1>3, <1>4, <1>5, OthersStay


\* Handlers only append tasks.
LEMMA TasksAppended ==
    ASSUME TypeInv, NEW r \in Requests, Does(r)
    PROVE  /\ Len(tasks) <= Len(tasks')
           /\ \A i \in 1 .. Len(tasks) : tasks'[i] = tasks[i]
           /\ Len(tasks') > Len(tasks) =>
                /\ DoMail(r) /\ Len(tasks') = Len(tasks) + 1
                /\ tasks'[Len(tasks')].order = req[r].order
                /\ tasks'[Len(tasks')].status = req[r].row.status
                /\ tasks'[Len(tasks')].fv = req[r].row.fv
<1>t. tasks \in Seq(Task) /\ Len(tasks) \in Nat
  BY DEF TypeInv, TypeOK
<1>1. CASE UNCHANGED tasks
  BY <1>t, <1>1
<1>2. CASE DoMail(r)
  <2>1. PICK t : /\ tasks' = Append(tasks, t)
                 /\ t.order = req[r].order /\ t.status = req[r].row.status
                 /\ t.fv = req[r].row.fv
    BY <1>2 DEF DoMail
  <2>2. /\ Len(tasks') = Len(tasks) + 1 /\ tasks'[Len(tasks) + 1] = t
        /\ \A i \in 1 .. Len(tasks) : tasks'[i] = tasks[i]
    BY <1>t, <2>1
  <2> QED
    BY <1>t, <1>2, <2>1, <2>2
<1> QED
  BY <1>1, <1>2, OthersStay

\* When a handler queues a task about an offer, the order has that offer.
LEMMA MailLists ==
    ASSUME CoreInv, NEW r \in Requests, DoMail(r),
           Spared(req[r].order, {"overlap", "abort"}),
           req[r].row.status \in OfferCodes
    PROVE  req[r].row.fv \in Versions(req[r].order)
<1> DEFINE o == req[r].order
           row == req[r].row
<1>t. row \in Row /\ row.fv \in Nat /\ req[r] \in Request
  BY DEF CoreInv, TypeInv, TypeOK, Request, Row
<1>b. BusyOn(r, o) /\ o \in Ids
  BY DEF DoMail, BusyOn, Active, CoreInv, TypeInv, WellFormed
<1>o. Spared(o, {"overlap"})
  BY DEF Spared
<1>l. o \in live
  BY <1>b, <1>o DEF CoreInv, HistoryInv, Undisturbed, Quiet
<1>n. Numbered(o) /\ Decided(o)
  BY <1>l DEF CoreInv, HistoryInv
<1>r. Reached(o, row.fv)
  BY <1>b, <1>n DEF Numbered, DoMail
<1>v. row.fv >= 1 => row.fv \in Versions(o)
  BY <1>r, <1>t DEF Reached
<1>1. CASE Making(r)
  BY <1>1, <1>b, <1>n, <1>v DEF Numbered
<1>2. CASE row.status = "OFR"
  BY <1>2, <1>t, <1>v DEF CoreInv, AllConsistent, Consistent
<1>3. CASE row.status \in Decisions
  <2>1. OffersOf(o) # {}
    BY <1>3, <1>b, <1>n DEF Decided, Has, DoMail
  <2>2. Versions(o) # {}
    BY <2>1 DEF Versions
  <2> QED
    BY <1>r, <1>t, <1>v, <2>2 DEF Reached
<1> QED
  BY <1>1, <1>2, <1>3 DEF OfferCodes, Decisions

LEMMA ListedStep ==
    ASSUME CoreInv, NEW r \in Requests, Does(r)
    PROVE  Listed'
<1>i. TypeInv
  BY DEF CoreInv
<1>t. /\ tasks \in Seq(Task) /\ Len(tasks) \in Nat
      /\ \A i \in 1 .. Len(tasks) : tasks[i].order \in Ids
      /\ DOMAIN tasks = 1 .. Len(tasks)
  <2>1. tasks \in Seq(Task)
    BY <1>i DEF TypeInv, TypeOK
  <2>2. \A t \in Task : t.order \in Ids
    BY DEF Task
  <2> QED
    BY <2>1, <2>2, LenProperties, ElementOfSeq
<1>d. DOMAIN tasks' = 1 .. Len(tasks') /\ Len(tasks') \in Nat
  <2>1. CASE UNCHANGED tasks
    BY <1>t, <2>1
  <2>2. CASE DoMail(r)
    BY <1>t, <2>2 DEF DoMail
  <2> QED
    BY <2>1, <2>2, OthersStay
<1>a. Active(r) => req[r].order \in Ids
  BY <1>i DEF TypeInv, WellFormed
<1>m. \A o \in Ids : \A h : Spared(o, h)' => Spared(o, h)
  BY <1>i, MarksGrow
<1>v. ASSUME NEW o \in Ids, Spared(o, {"overlap", "abort", "deleted"})'
      PROVE  Versions(o) \subseteq Versions(o)'
  <2>1. CASE DoDelete(r)
    <3>1. req[r].order # o
      BY <1>v, <2>1 DEF DoDelete, Spared
    <3>2. OffersOf(o)' = OffersOf(o)
      BY <2>1, <3>1 DEF DoDelete, OffersOf
    <3> QED
      BY <3>2 DEF Versions
  <2>2. CASE ~DoDelete(r)
    BY <1>i, <2>2, OffersKept DEF Versions, OffersOf
  <2> QED
    BY <2>1, <2>2
<1>1. ASSUME NEW o \in Ids, NEW status, NEW version, Lists(o, status, version)
      PROVE  Lists(o, status, version)'
  BY <1>1, <1>m, <1>v DEF Lists
<1>2. ASSUME DoMail(r), NEW o, NEW status, NEW version, o = req[r].order,
             status = req[r].row.status, version = req[r].row.fv
      PROVE  o \in Ids /\ Lists(o, status, version)
  <2>1. o \in Ids
    BY <1>2, <1>a DEF DoMail, Active
  <2>2. Spared(o, {"overlap", "abort", "deleted"}) => Spared(o, {"overlap", "abort"})
    BY DEF Spared
  <2> QED
    BY <1>2, <2>1, <2>2, MailLists DEF Lists
<1> SUFFICES ASSUME NEW i \in 1 .. Len(tasks')
             PROVE  Lists(tasks[i].order, tasks[i].status, tasks[i].fv)'
  BY <1>d DEF Listed
<1>c. PICK o, status, version :
        o = tasks'[i].order /\ status = tasks'[i].status /\ version = tasks'[i].fv
  OBVIOUS
<1>3. o \in Ids /\ Lists(o, status, version)
  <2>a. /\ \A j \in 1 .. Len(tasks) : tasks'[j] = tasks[j]
        /\ Len(tasks') > Len(tasks) =>
             /\ DoMail(r) /\ Len(tasks') = Len(tasks) + 1
             /\ tasks'[Len(tasks')].order = req[r].order
             /\ tasks'[Len(tasks')].status = req[r].row.status
             /\ tasks'[Len(tasks')].fv = req[r].row.fv
    BY <1>i, TasksAppended
  <2>1. CASE i \in 1 .. Len(tasks)
    BY <1>c, <1>t, <2>1, <2>a DEF CoreInv, Listed
  <2>2. CASE i \notin 1 .. Len(tasks)
    <3>i. /\ i \in Nat /\ i > Len(tasks) /\ i <= Len(tasks')
          /\ Len(tasks) \in Nat /\ Len(tasks') \in Nat
      BY <1>t, <1>d, <2>2
    <3>1. DoMail(r) /\ i = Len(tasks') /\ Len(tasks') > Len(tasks)
      BY <2>a, <3>i
    <3>2. /\ o = req[r].order /\ status = req[r].row.status
          /\ version = req[r].row.fv
      BY <1>c, <2>a, <3>1
    <3> QED
      BY <1>2, <3>1, <3>2
  <2> QED
    BY <2>1, <2>2
<1>4. Lists(o, status, version)'
  BY <1>1, <1>3
<1> QED
  BY <1>c, <1>4 DEF Lists, Spared, Versions, OffersOf


LEMMA CoreInvariant == Spec => []CoreInv
<1>1. Init => Unfinished /\ Listed
  BY DEF Init, Unfinished, Listed
<1>2. CoreInv /\ [Next]_vars => (Unfinished /\ Listed)'
  <2> SUFFICES ASSUME CoreInv, [Next]_vars PROVE (Unfinished /\ Listed)'
    OBVIOUS
  <2>1. CASE Next
    <3>1. PICK r \in Requests : Does(r)
      BY <2>1, StepDoes DEF CoreInv
    <3> QED
      BY <3>1, UnfinishedStep, ListedStep DEF CoreInv, HistoryInv
  <2>2. CASE UNCHANGED vars
    BY <2>2 DEF vars, CoreInv, Unfinished, Finishing, Listed, Lists, Spared,
       Versions, OffersOf
  <2> QED
    BY <2>1, <2>2
<1> QED
  BY <1>1, <1>2, HistoryInvariant, ConsistentInvariant, PTL DEF Spec, CoreInv

\* What the requests do to what the mail reads.
LEMMA CoreChanges ==
    ASSUME CoreInv, [Next]_vars
    PROVE  /\ Len(tasks) <= Len(tasks')
           /\ \A i \in 1 .. Len(tasks) : tasks'[i] = tasks[i]
           /\ \A o \in Ids : marks[o] \subseteq marks'[o]
<1>1. CASE Next
  <2>1. PICK r \in Requests : Does(r)
    BY <1>1, StepDoes DEF CoreInv
  <2> QED
    BY <2>1, TasksAppended, MarksGrow DEF CoreInv
<1>2. CASE UNCHANGED vars
  <2>1. tasks \in Seq(Task)
    BY DEF CoreInv, TypeInv, TypeOK
  <2>2. Len(tasks) \in Nat
    BY <2>1, LenProperties
  <2> QED
    BY <1>2, <2>2 DEF vars
<1> QED
  BY <1>1, <1>2

-----------------------------------------------------------------------------
(* Recipients and messages *)

\* One letter for each account of a loop that wants the mail.
LEMMA LettersOf ==
    ASSUME NEW users \in SUBSET Accounts, NEW s
    PROVE  /\ Letters(users, s) \subseteq Letter
           /\ \A l \in Letters(users, s) : l.to \in users
           /\ \A k, l \in Letters(users, s) : k.to = l.to => k = l
           /\ \A u \in users : Wants(u, s) => \E l \in Letters(users, s) : l.to = u
<1>1. \A u \in Accounts : Template(u, s) \in {"approval", "confirm"}
  BY DEF Template
<1> HIDE DEF Template
<1>2. \A l \in Letters(users, s) : \E u \in users :
        l = [to |-> u, template |-> Template(u, s)]
  BY DEF Letters
<1>3. ASSUME NEW u \in users, Wants(u, s)
      PROVE  \E l \in Letters(users, s) : l.to = u
  <2>1. [to |-> u, template |-> Template(u, s)] \in Letters(users, s)
    BY <1>3 DEF Letters
  <2> QED
    BY <2>1
<1>4. Letters(users, s) \subseteq Letter
  BY <1>1, <1>2 DEF Letter
<1> QED
  BY <1>2, <1>3, <1>4

\* A message sent that was not sent before.
LEMMA BagAdds ==
    ASSUME NEW B, IsABag(B), NEW m, m \notin DOMAIN B,
           NEW C, C = B (+) SetToBag({m})
    PROVE  /\ IsABag(C) /\ DOMAIN C = DOMAIN B \cup {m}
           /\ \A n \in DOMAIN B : C[n] = B[n]
           /\ C[m] = 1
<1>1. C = [e \in DOMAIN B \cup {m} |-> (IF e \in DOMAIN B THEN B[e] ELSE 0)
                                     + (IF e \in {m} THEN 1 ELSE 0)]
  BY DEF SetToBag, (+)
<1>2. \A n \in DOMAIN B : B[n] \in Nat /\ B[n] > 0
  BY DEF IsABag
<1>3. DOMAIN C = DOMAIN B \cup {m}
  BY <1>1
<1>4. \A n \in DOMAIN B : C[n] = B[n]
  BY <1>1, <1>2
<1>5. C[m] = 1
  BY <1>1
<1>6. \A n \in DOMAIN C : C[n] \in {k \in Nat : k > 0}
  BY <1>2, <1>3, <1>4, <1>5
<1>7. C = [e \in DOMAIN C |-> C[e]]
  BY <1>1
<1>8. IsABag(C)
  BY <1>6, <1>7 DEF IsABag
<1> QED
  BY <1>3, <1>4, <1>5, <1>8

LEMMA OneMore ==
    ASSUME NEW n \in Nat
    PROVE  n + 1 \notin 1 .. n /\ 1 .. (n + 1) = (1 .. n) \cup {n + 1}
  OBVIOUS

-----------------------------------------------------------------------------
(* What a Celery process does, value by value *)

OtherJobs(w) == \A v \in Celery \ {w} : job'[v] = job[v]

DidTake(w) ==
    /\ OtherJobs(w) /\ UNCHANGED <<prefs, mails, resaved>>
    /\ ~Working(w) /\ Len(fate) + 1 \in DOMAIN tasks
    /\ fate' = Append(fate, "run")
    /\ job'[w].phase = "team" /\ job'[w].task = Len(fate) + 1
    /\ job'[w].todo = Letters(Team, tasks[Len(fate) + 1].status)

\* A task ends, done or not.
DidEnd(w) ==
    /\ OtherJobs(w) /\ UNCHANGED <<prefs, mails, resaved>>
    /\ Working(w) /\ job'[w] = Idle
    /\ \A i \in DOMAIN fate \ {job[w].task} : fate'[i] = fate[i]
    /\ fate'[job[w].task] = "done" => job[w].phase = "staff" /\ job[w].todo = {}
    /\ fate'[job[w].task] = "raised" =>
         /\ PdfRaises(Current(w))
         /\ ~\E r \in Requests : At(r, "offerItems")
                                 /\ req[r].order = Current(w).order

DidDeliver(w) == \E l \in job[w].todo, m \in Message :
    /\ OtherJobs(w) /\ UNCHANGED <<prefs, fate, resaved>>
    /\ Working(w)
    /\ job'[w].phase = job[w].phase /\ job'[w].task = job[w].task
    /\ job'[w].todo = job[w].todo \ {l}
    /\ m.task = job[w].task /\ m.letter = l
    /\ m.lists = Versions(Current(w).order)
    /\ mails' = mails (+) SetToBag({m})

DidTurn(w) ==
    /\ OtherJobs(w) /\ UNCHANGED <<prefs, fate, mails, resaved>>
    /\ job[w].phase = "team" /\ job[w].todo = {}
    /\ job'[w].phase = "staff" /\ job'[w].task = job[w].task
    /\ job'[w].todo = Letters(Staff, Current(w).status)

Did(w) == DidTake(w) \/ DidEnd(w) \/ DidDeliver(w) \/ DidTurn(w)

LEMMA JobTypes ==
    ASSUME MailTypeOK, CoreInv
    PROVE  /\ job \in [Celery -> Job] /\ \A w \in Celery : job[w] \in Job
           /\ fate \in Seq(Fates) /\ Len(fate) \in Nat /\ DOMAIN fate = 1 .. Len(fate)
           /\ Len(fate) <= Len(tasks)
           /\ Len(tasks) \in Nat /\ DOMAIN tasks = 1 .. Len(tasks)
           /\ \A i \in 1 .. Len(tasks) : tasks[i].order \in Ids
<1>1. fate \in Seq(Fates) /\ Len(fate) <= Len(tasks) /\ job \in [Celery -> Job]
  BY DEF MailTypeOK
<1>2. tasks \in Seq(Task) /\ \A t \in Task : t.order \in Ids
  BY DEF CoreInv, TypeInv, TypeOK, Task
<1> QED
  BY <1>1, <1>2, LenProperties, ElementOfSeq

LEMMA EndDid ==
    ASSUME MailTypeOK, CoreInv, Jobs, NEW w \in Celery, Working(w), NEW how, End(w, how),
           how \in Fates,
           how = "done" => job[w].phase = "staff" /\ job[w].todo = {},
           how = "raised" =>
             /\ PdfRaises(Current(w))
             /\ ~\E r \in Requests : At(r, "offerItems")
                                     /\ req[r].order = Current(w).order
    PROVE  DidEnd(w) /\ fate' \in Seq(Fates) /\ Len(fate') = Len(fate)
<1>1. job[w].task \in 1 .. Len(fate) /\ fate \in Seq(Fates)
  BY JobTypes DEF Jobs
<1>2. /\ fate' = [fate EXCEPT ![job[w].task] = how]
      /\ job' = [job EXCEPT ![w] = Idle] /\ UNCHANGED <<prefs, mails, resaved>>
  BY DEF End
<1>3. /\ fate' \in Seq(Fates) /\ Len(fate') = Len(fate)
      /\ fate'[job[w].task] = how
      /\ \A i \in DOMAIN fate \ {job[w].task} : fate'[i] = fate[i]
  BY <1>1, <1>2, ExceptSeq, LenProperties
<1>4. OtherJobs(w) /\ job'[w] = Idle
  BY <1>2, JobTypes DEF OtherJobs
<1> QED
  BY <1>2, <1>3, <1>4 DEF DidEnd

LEMMA ProcessDid ==
    ASSUME MailTypeOK, CoreInv, Jobs, NEW w \in Celery,
           CeleryStep(w) \/ Lose(w)
    PROVE  /\ Did(w)
           /\ DidTake(w) \/ fate' = fate \/ (fate' \in Seq(Fates) /\ Len(fate') = Len(fate))
<1>t. /\ job \in [Celery -> Job] /\ job[w] \in Job /\ job[w].task \in Nat
      /\ job[w].todo \subseteq Letter
  BY JobTypes DEF Job
<1>1. CASE Take(w)
  <2>1. Len(fate) + 1 \in DOMAIN tasks
    BY <1>1, JobTypes DEF Take
  <2>2. DidTake(w)
    BY <1>1, <1>t, <2>1 DEF Take, DidTake, OtherJobs, Working
  <2> QED
    BY <2>2 DEF Did
<1>2. CASE Deliver(w)
  <2>1. PICK l \in job[w].todo :
          /\ mails' = mails (+) SetToBag({
                  [task |-> job[w].task, letter |-> l,
                   lists |-> {f.version : f \in OffersOf(Current(w).order)}]})
          /\ job' = [job EXCEPT ![w].todo = @ \ {l}]
          /\ UNCHANGED <<prefs, fate, resaved>>
    BY <1>2 DEF Deliver
  <2> DEFINE m == [task |-> job[w].task, letter |-> l,
                   lists |-> Versions(Current(w).order)]
  <2>2. mails' = mails (+) SetToBag({m})
    BY <2>1 DEF Versions
  <2>3. Versions(Current(w).order) \subseteq Nat
    BY DEF Versions, OffersOf, CoreInv, TypeInv, TypeOK, Offer
  <2>4. m \in Message /\ m.task = job[w].task /\ m.letter = l
        /\ m.lists = Versions(Current(w).order)
    BY <1>t, <2>3 DEF Message
  <2>5. /\ job'[w].phase = job[w].phase /\ job'[w].task = job[w].task
        /\ job'[w].todo = job[w].todo \ {l}
    BY <1>t, <2>1 DEF Job
  <2>6. Working(w) /\ OtherJobs(w)
    BY <1>t, <2>1 DEF Jobs, OtherJobs, Working
  <2> HIDE DEF m
  <2>7. DidDeliver(w)
    BY <2>1, <2>2, <2>4, <2>5, <2>6 DEF DidDeliver
  <2> QED
    BY <2>1, <2>7 DEF Did
<1>3. CASE Raise(w)
  <2>1. Working(w) /\ PdfRaises(Current(w))
    BY <1>3 DEF Raise, Jobs
  <2>2. PICK how \in {"crossed", "raised"} :
          /\ End(w, how)
          /\ how = "raised" => ~\E r \in Requests : At(r, "offerItems")
                                   /\ req[r].order = Current(w).order
    BY <1>3 DEF Raise
  <2>3. DidEnd(w) /\ fate' \in Seq(Fates) /\ Len(fate') = Len(fate)
    BY <2>1, <2>2, EndDid DEF Fates
  <2> QED
    BY <2>3 DEF Did
<1>4. CASE TurnToStaff(w)
  <2>1. DidTurn(w)
    BY <1>4, <1>t DEF TurnToStaff, DidTurn, OtherJobs, Job
  <2> QED
    BY <2>1, <1>4 DEF Did, TurnToStaff
<1>5. CASE Finish(w) \/ Lose(w)
  <2>1. /\ Working(w)
        /\ \E how \in {"done", "lost"} :
             End(w, how) /\ (how = "done" => job[w].phase = "staff" /\ job[w].todo = {})
    BY <1>5 DEF Finish, Lose, Working
  <2>2. DidEnd(w) /\ fate' \in Seq(Fates) /\ Len(fate') = Len(fate)
    BY <2>1, EndDid DEF Fates
  <2> QED
    BY <2>2 DEF Did
<1> QED
  BY <1>1, <1>2, <1>3, <1>4, <1>5 DEF CeleryStep


-----------------------------------------------------------------------------
(* The invariant of the mail *)


\* A web request, or nobody, changes the core; the mail stays.
LEMMA MailKeeps ==
    ASSUME CoreInv, MailInv, OfferMailed, [Next]_vars, UNCHANGED mailVars
    PROVE  MailInv' /\ OfferMailed'
<1>u. /\ prefs' = prefs /\ fate' = fate /\ job' = job /\ mails' = mails
      /\ resaved' = resaved
  BY DEF mailVars
<1>t. /\ MailTypeOK /\ Jobs /\ Sent /\ Served /\ \A w \in Celery : Queued(w)
  BY DEF MailInv
<1>c. /\ Len(tasks) \in Nat /\ Len(tasks) <= Len(tasks')
      /\ \A i \in 1 .. Len(tasks) : tasks'[i] = tasks[i]
      /\ \A o \in Ids : marks[o] \subseteq marks'[o]
      /\ DOMAIN fate \subseteq 1 .. Len(tasks)
      /\ Len(fate) <= Len(tasks) /\ Len(fate) \in Nat
      /\ \A i \in 1 .. Len(tasks) : tasks[i].order \in Ids
  BY <1>t, JobTypes, CoreChanges
<1>n. Len(tasks') \in Nat
  <2>1. tasks' \in Seq(Task)
    BY NextType DEF CoreInv, TypeInv, TypeOK
  <2> QED
    BY <2>1, LenProperties
<1>1. MailTypeOK'
  BY <1>u, <1>t, <1>c, <1>n DEF MailTypeOK
<1>2. Jobs' /\ Sent' /\ \A w \in Celery : Queued(w)'
  BY <1>u, <1>t DEF Jobs, Sent, Queued, Working, Loop
<1>3. \A i \in DOMAIN fate : \A u : Content(i, u)' <=> Content(i, u)
  BY <1>u, <1>c DEF Content, Wants, Mailed
<1>4. Served'
  BY <1>u, <1>t, <1>3 DEF Served, Waiting, Working, Jobs
<1>5. PdfBuilt'
  BY <1>u, <1>c DEF OfferMailed, PdfBuilt
<1>6. OfferListed'
  <2>1. \A m \in DOMAIN mails : m.task \in 1 .. Len(tasks)
    BY <1>t, <1>c DEF Sent
  <2>2. \A m \in DOMAIN mails : tasks'[m.task] = tasks[m.task]
            /\ marks[tasks[m.task].order] \subseteq marks'[tasks[m.task].order]
    BY <2>1, <1>c
  <2> QED
    BY <1>u, <2>2 DEF OfferMailed, OfferListed, BagToSet, Spared
<1> QED
  BY <1>1, <1>2, <1>4, <1>5, <1>6 DEF MailInv, OfferMailed

\* An account changes its preferences.
LEMMA PrefsKeep ==
    ASSUME CoreInv, MailInv, OfferMailed, NEW u \in Accounts, SavePrefs(u),
           UNCHANGED vars
    PROVE  MailInv' /\ OfferMailed'
<1>u. /\ fate' = fate /\ job' = job /\ mails' = mails /\ tasks' = tasks
      /\ marks' = marks /\ resaved' = resaved \cup {u}
      /\ \E p \in PrefSets : prefs' = [prefs EXCEPT ![u] = p]
  BY DEF SavePrefs, vars
<1>t. /\ MailTypeOK /\ Jobs /\ Sent /\ Served /\ \A w \in Celery : Queued(w)
  BY DEF MailInv
<1>p. \A v \in Accounts \ {u} : prefs'[v] = prefs[v]
  BY <1>u, <1>t DEF MailTypeOK
<1>1. MailTypeOK'
  BY <1>u, <1>t, PrefSetsAssumption DEF MailTypeOK
<1>2. Jobs' /\ Sent' /\ \A w \in Celery : Queued(w)'
  BY <1>u, <1>t DEF Jobs, Sent, Queued, Working, Loop
<1>3. \A v \in Accounts \ {u} : \A i : Content(i, v)' <=> Content(i, v)
  BY <1>u, <1>p DEF Content, Wants, Mailed
<1>4. Served'
  BY <1>u, <1>t, <1>3 DEF Served, Waiting, Working
<1>5. OfferMailed'
  BY <1>u DEF OfferMailed, PdfBuilt, OfferListed, BagToSet, Spared
<1> QED
  BY <1>1, <1>2, <1>4, <1>5 DEF MailInv


\* What each step of a process leaves of the tasks taken, and of the messages.
LEMMA FateGrows ==
    ASSUME CoreInv, MailInv, NEW w \in Celery, Did(w),
           DidTake(w) \/ fate' = fate \/ (fate' \in Seq(Fates) /\ Len(fate') = Len(fate))
    PROVE  /\ fate' \in Seq(Fates) /\ DOMAIN fate \subseteq DOMAIN fate'
           /\ Len(fate') <= Len(tasks)
           /\ DidTake(w) => /\ Len(fate) + 1 \notin DOMAIN fate
                            /\ DOMAIN fate' = DOMAIN fate \cup {Len(fate) + 1}
                            /\ fate'[Len(fate) + 1] = "run"
                            /\ \A i \in DOMAIN fate : fate'[i] = fate[i]
           /\ ~DidTake(w) => DOMAIN fate' = DOMAIN fate
           /\ DidDeliver(w) \/ DidTurn(w) => fate' = fate
<1>t. /\ fate \in Seq(Fates) /\ Len(fate) \in Nat /\ DOMAIN fate = 1 .. Len(fate)
      /\ Len(fate) <= Len(tasks)
      /\ Len(tasks) \in Nat /\ DOMAIN tasks = 1 .. Len(tasks)
  BY JobTypes DEF MailInv
<1>1. CASE DidTake(w)
  <2>1. fate' = Append(fate, "run") /\ Len(fate) + 1 <= Len(tasks)
    <3>1. fate' = Append(fate, "run") /\ Len(fate) + 1 \in 1 .. Len(tasks)
      BY <1>1, JobTypes DEF DidTake, MailInv
    <3>2. Len(fate) \in Nat /\ Len(tasks) \in Nat
      BY JobTypes DEF MailInv
    <3> QED
      BY <3>1, <3>2
  <2>2. /\ fate' \in Seq(Fates) /\ Len(fate') = Len(fate) + 1
        /\ \A i \in 1 .. Len(fate) : fate'[i] = fate[i]
        /\ fate'[Len(fate) + 1] = "run"
    <3>1. "run" \in Fates /\ fate \in Seq(Fates)
      BY <1>t DEF Fates
    <3> QED
      BY <2>1, <3>1, AppendProperties
  <2>3. DOMAIN fate' = 1 .. (Len(fate) + 1)
    BY <2>2, LenProperties
  <2>4. ~DidDeliver(w) /\ ~DidTurn(w)
    BY <1>1 DEF DidTake, DidDeliver, DidTurn, Working
  <2>5. DOMAIN fate = 1 .. Len(fate) /\ Len(fate) \in Nat
    BY <1>t
  <2>6. /\ Len(fate) + 1 \notin DOMAIN fate
        /\ DOMAIN fate' = DOMAIN fate \cup {Len(fate) + 1}
    BY <2>3, <2>5, OneMore
  <2> QED
    BY <1>1, <2>1, <2>2, <2>4, <2>5, <2>6
<1>2. CASE ~DidTake(w)
  <2>1. fate' \in Seq(Fates) /\ Len(fate') = Len(fate)
    BY <1>2, <1>t
  <2>2. DOMAIN fate' = 1 .. Len(fate)
    BY <2>1, LenProperties
  <2>3. DidDeliver(w) \/ DidTurn(w) => fate' = fate
    BY DEF DidDeliver, DidTurn
  <2> QED
    BY <1>2, <1>t, <2>1, <2>2, <2>3
<1> QED
  BY <1>1, <1>2

LEMMA MailsGrow ==
    ASSUME CoreInv, MailInv, NEW w \in Celery, Did(w)
    PROVE  \/ mails' = mails
           \/ \E m \in Message, l \in job[w].todo :
                /\ DidDeliver(w)
                /\ m.task = job[w].task /\ m.letter = l
                /\ m.lists = Versions(Current(w).order)
                /\ job'[w].todo = job[w].todo \ {l}
                /\ DOMAIN mails' = DOMAIN mails \cup {m}
                /\ \A n \in DOMAIN mails : mails'[n] = mails[n]
                /\ mails'[m] = 1 /\ IsABag(mails')
<1>1. CASE DidDeliver(w)
  <2>1. PICK l \in job[w].todo, m \in Message :
          /\ Working(w) /\ m.task = job[w].task /\ m.letter = l
          /\ m.lists = Versions(Current(w).order)
          /\ job'[w].todo = job[w].todo \ {l}
          /\ mails' = mails (+) SetToBag({m})
    BY <1>1 DEF DidDeliver
  <2>2. m \notin DOMAIN mails
    BY <2>1 DEF MailInv, Queued
  <2>3. IsABag(mails)
    BY DEF MailInv, MailTypeOK
  <2>b. mails' = mails (+) SetToBag({m})
    BY <2>1
  <2>4. /\ IsABag(mails') /\ DOMAIN mails' = DOMAIN mails \cup {m}
        /\ \A n \in DOMAIN mails : mails'[n] = mails[n]
        /\ mails'[m] = 1
    <3>1. PICK B, C : B = mails /\ C = mails'
      OBVIOUS
    <3>2. IsABag(B) /\ m \notin DOMAIN B /\ C = B (+) SetToBag({m})
      BY <2>b, <2>2, <2>3, <3>1
    <3>3. /\ IsABag(C) /\ DOMAIN C = DOMAIN B \cup {m}
          /\ \A n \in DOMAIN B : C[n] = B[n]
          /\ C[m] = 1
      BY <3>2, BagAdds
    <3> QED
      BY <3>1, <3>3
  <2> QED
    BY <1>1, <2>1, <2>4
<1>2. CASE ~DidDeliver(w)
  BY <1>2 DEF Did, DidTake, DidEnd, DidTurn
<1> QED
  BY <1>1, <1>2

LEMMA JobsStep ==
    ASSUME CoreInv, MailInv, NEW w \in Celery, Did(w),
           DidTake(w) \/ fate' = fate \/ (fate' \in Seq(Fates) /\ Len(fate') = Len(fate))
    PROVE  Jobs'
<1>t. /\ \A v \in Celery : ~Working(v) => job[v].todo = {}
      /\ \A v \in Celery : Working(v) =>
           job[v].task \in DOMAIN fate /\ fate[job[v].task] = "run"
      /\ \A v, u \in Celery :
           Working(v) /\ Working(u) /\ job[v].task = job[u].task => v = u
  BY DEF MailInv, Jobs
<1>o. \A v \in Celery \ {w} : job'[v] = job[v] /\ (Working(v)' <=> Working(v))
  BY DEF Did, DidTake, DidEnd, DidDeliver, DidTurn, OtherJobs, Working
<1>f. DOMAIN fate \subseteq DOMAIN fate'
  BY FateGrows
<1>1. CASE DidTake(w)
  <2>1. /\ Working(w)' /\ job'[w].task = Len(fate) + 1
        /\ Len(fate) + 1 \in DOMAIN fate' /\ fate'[Len(fate) + 1] = "run"
        /\ Len(fate) + 1 \notin DOMAIN fate
        /\ \A i \in DOMAIN fate : fate'[i] = fate[i]
    BY <1>1, FateGrows DEF DidTake, Working
  <2> QED
    BY <1>t, <1>o, <1>f, <2>1 DEF Jobs
<1>2. CASE DidEnd(w)
  <2>1. /\ ~Working(w)' /\ job'[w].todo = {} /\ Working(w)
        /\ \A i \in DOMAIN fate \ {job[w].task} : fate'[i] = fate[i]
    BY <1>2 DEF DidEnd, Working, Idle
  <2> QED
    BY <1>t, <1>o, <1>f, <2>1 DEF Jobs
<1>3. CASE DidDeliver(w) \/ DidTurn(w)
  <2>1. /\ Working(w)' /\ Working(w) /\ job'[w].task = job[w].task
    BY <1>3 DEF DidDeliver, DidTurn, Working
  <2>2. fate' = fate
    BY <1>3, FateGrows
  <2> QED
    BY <1>t, <1>o, <2>1, <2>2 DEF Jobs
<1> QED
  BY <1>1, <1>2, <1>3 DEF Did

LEMMA SentStep ==
    ASSUME CoreInv, MailInv, NEW w \in Celery, Did(w),
           DidTake(w) \/ fate' = fate \/ (fate' \in Seq(Fates) /\ Len(fate') = Len(fate))
    PROVE  Sent' /\ IsABag(mails') /\ DOMAIN mails' \subseteq Message
<1>t. /\ IsABag(mails) /\ DOMAIN mails \subseteq Message
      /\ \A m \in DOMAIN mails : m.task \in DOMAIN fate /\ mails[m] = 1
      /\ \A m, n \in DOMAIN mails :
           m.task = n.task /\ m.letter.to = n.letter.to => m = n
  BY DEF MailInv, MailTypeOK, Sent
<1>f. DOMAIN fate \subseteq DOMAIN fate'
  BY FateGrows
<1>1. CASE mails' = mails
  BY <1>t, <1>f, <1>1 DEF Sent
<1>2. ASSUME NEW m \in Message, NEW l \in job[w].todo, DidDeliver(w),
             m.task = job[w].task, m.letter = l,
             DOMAIN mails' = DOMAIN mails \cup {m},
             \A n \in DOMAIN mails : mails'[n] = mails[n],
             mails'[m] = 1, IsABag(mails')
      PROVE  Sent' /\ IsABag(mails') /\ DOMAIN mails' \subseteq Message
  <2>1. Working(w) /\ job[w].task \in DOMAIN fate
    BY <1>2 DEF DidDeliver, MailInv, Jobs
  <2>2. \A n \in DOMAIN mails : n.task = m.task => n.letter.to # m.letter.to
    BY <1>2, <2>1 DEF MailInv, Queued
  <2>3. Sent'
    BY <1>2, <1>t, <1>f, <2>1, <2>2 DEF Sent
  <2> QED
    BY <1>2, <1>t, <2>3
<1> QED
  BY <1>1, <1>2, MailsGrow


LEMMA QueuedStep ==
    ASSUME CoreInv, MailInv, NEW w \in Celery, Did(w), NEW v \in Celery
    PROVE  Queued(v)'
<1>t. /\ \A l \in job[v].todo : l.to \in Loop(v)
      /\ \A k, l \in job[v].todo : k.to = l.to => k = l
      /\ Working(v) => \A m \in DOMAIN mails : m.task = job[v].task =>
           /\ job[v].phase = "team" => m.letter.to \in Team
           /\ \A l \in job[v].todo : l.to # m.letter.to
      /\ ~Working(v) => job[v].todo = {}
  BY DEF MailInv, Queued, Jobs
<1>u. Team \in SUBSET Accounts /\ Staff \in SUBSET Accounts
  BY DEF Accounts
<1>1. CASE v # w
  <2>1. job'[v] = job[v] /\ (Working(v)' <=> Working(v))
    BY <1>1 DEF Did, DidTake, DidEnd, DidDeliver, DidTurn, OtherJobs, Working
  <2>2. CASE mails' = mails
    BY <1>t, <2>1, <2>2 DEF Queued, Loop
  <2>3. ASSUME NEW m, DidDeliver(w), m.task = job[w].task,
               DOMAIN mails' = DOMAIN mails \cup {m}
        PROVE  Queued(v)'
    <3>1. Working(v) => m.task # job[v].task
      BY <1>1, <2>3 DEF DidDeliver, MailInv, Jobs
    <3> QED
      BY <1>t, <2>1, <2>3, <3>1 DEF Queued, Loop
  <2> QED
    BY <2>2, <2>3, MailsGrow
<1>2. CASE v = w
  <2>1. CASE DidTake(w)
    <3>1. /\ job'[v].phase = "team" /\ mails' = mails
          /\ job'[v].task = Len(fate) + 1
          /\ \A l \in job'[v].todo : l.to \in Team
          /\ \A k, l \in job'[v].todo : k.to = l.to => k = l
      BY <1>2, <1>u, <2>1, LettersOf DEF DidTake
    <3>2. \A m \in DOMAIN mails : m.task # Len(fate) + 1
      <4>1. DOMAIN fate = 1 .. Len(fate) /\ Len(fate) \in Nat
        BY JobTypes DEF MailInv
      <4> QED
        BY <4>1, OneMore DEF MailInv, Sent
    <3> QED
      BY <3>1, <3>2 DEF Queued, Loop, Working
  <2>2. CASE DidEnd(w)
    <3>1. job'[v].todo = {} /\ ~Working(v)'
      BY <1>2, <2>2 DEF DidEnd, Idle, Working
    <3> QED
      BY <3>1 DEF Queued
  <2>3. CASE DidDeliver(w)
    <3>1. PICK m \in Message, l \in job[w].todo :
            /\ m.task = job[w].task /\ m.letter = l
            /\ job'[w].todo = job[w].todo \ {l}
            /\ DOMAIN mails' = DOMAIN mails \cup {m}
      <4>1. mails' # mails
        <5>1. PICK m \in Message, l \in job[w].todo :
                /\ Working(w) /\ m.task = job[w].task /\ m.letter = l
                /\ mails' = mails (+) SetToBag({m})
          BY <2>3 DEF DidDeliver
        <5>2. m \in DOMAIN mails'
          BY <5>1 DEF (+), SetToBag
        <5>3. m \notin DOMAIN mails
          BY <1>t, <1>2, <5>1
        <5> QED
          BY <5>2, <5>3
      <4> QED
        BY <4>1, MailsGrow
    <3>2. /\ job'[w].phase = job[w].phase /\ job'[w].task = job[w].task
          /\ Working(w) /\ (Working(w)' <=> Working(w))
      BY <2>3 DEF DidDeliver, Working
    <3>3. Loop(w)' = Loop(w)
      BY <3>2 DEF Loop
    <3>4. job[w].phase = "team" => Loop(w) = Team
      BY DEF Loop
    <3>5. \A k \in job'[w].todo : k \in job[w].todo /\ k.to # m.letter.to
      BY <1>2, <1>t, <3>1
    <3>6. ASSUME NEW n \in DOMAIN mails', n.task = job'[w].task
          PROVE  /\ job'[w].phase = "team" => n.letter.to \in Team
                 /\ \A k \in job'[w].todo : k.to # n.letter.to
      <4>1. CASE n = m
        BY <1>2, <1>t, <3>1, <3>2, <3>4, <3>5, <4>1
      <4>2. CASE n \in DOMAIN mails
        BY <1>2, <1>t, <3>2, <3>5, <3>6, <4>2
      <4> QED
        BY <3>1, <3>6, <4>1, <4>2
    <3> QED
      BY <1>2, <1>t, <3>3, <3>5, <3>6 DEF Queued
  <2>4. CASE DidTurn(w)
    <3>1. /\ job'[v].phase = "staff" /\ mails' = mails
          /\ job'[v].task = job[v].task /\ Working(v) /\ job[v].phase = "team"
          /\ \A l \in job'[v].todo : l.to \in Staff
          /\ \A k, l \in job'[v].todo : k.to = l.to => k = l
      BY <1>2, <1>u, <2>4, LettersOf DEF DidTurn, Working
    <3>2. \A m \in DOMAIN mails : m.task = job[v].task => m.letter.to \in Team
      BY <1>t, <3>1
    <3> QED
      BY <3>1, <3>2, AccountsAssumption DEF Queued, Loop
  <2> QED
    BY <2>1, <2>2, <2>3, <2>4 DEF Did
<1> QED
  BY <1>1, <1>2


LEMMA ServedStep ==
    ASSUME CoreInv, MailInv, NEW w \in Celery, Did(w), UNCHANGED vars,
           DidTake(w) \/ fate' = fate \/ (fate' \in Seq(Fates) /\ Len(fate') = Len(fate))
    PROVE  Served'
<1>u. Team \in SUBSET Accounts /\ Staff \in SUBSET Accounts /\ Accounts = Team \cup Staff
  BY DEF Accounts
<1>k. prefs' = prefs /\ resaved' = resaved /\ tasks' = tasks
  BY DEF Did, DidTake, DidEnd, DidDeliver, DidTurn, vars
<1>m. \A i, u : Mailed(i, u) => Mailed(i, u)'
  BY MailsGrow DEF Mailed
<1>c. \A i, u : Content(i, u) => Content(i, u)'
  BY <1>k, <1>m DEF Content, Wants
<1> SUFFICES ASSUME NEW u \in Accounts \ resaved
             PROVE  /\ \A i \in DOMAIN fate' : fate'[i] = "done" => Content(i, u)'
                    /\ \A v \in Celery :
                         Working(v)' /\ (u \in Team \/ job'[v].phase = "staff") =>
                           Content(job[v].task, u)' \/ Waiting(v, u)'
  BY <1>k DEF Served
<1>s. /\ \A i \in DOMAIN fate : fate[i] = "done" => Content(i, u)
      /\ \A v \in Celery : Working(v) /\ (u \in Team \/ job[v].phase = "staff") =>
           Content(job[v].task, u) \/ Waiting(v, u)
  BY DEF MailInv, Served
<1>1. ASSUME NEW i \in DOMAIN fate', fate'[i] = "done"
      PROVE  Content(i, u)'
  <2>1. CASE i \in DOMAIN fate /\ fate[i] = "done"
    BY <1>c, <1>s, <2>1
  <2>2. CASE DidEnd(w) /\ i = job[w].task
    <3>1. /\ job[w].phase = "staff" /\ job[w].todo = {} /\ Working(w)
      BY <1>1, <2>2 DEF DidEnd
    <3>2. Content(i, u)
      BY <1>s, <2>2, <3>1 DEF Waiting
    <3> QED
      BY <1>c, <3>2
  <2>3. CASE DidEnd(w) /\ i # job[w].task
    <3>1. DOMAIN fate' = DOMAIN fate
      BY <2>3, FateGrows DEF DidEnd, DidTake
    <3>2. fate'[i] = fate[i]
      BY <1>1, <2>3, <3>1 DEF DidEnd
    <3> QED
      BY <1>1, <2>1, <3>1, <3>2
  <2>4. CASE DidTake(w)
    <3>1. i \in DOMAIN fate /\ fate[i] = fate'[i]
      BY <1>1, <2>4, FateGrows
    <3> QED
      BY <1>1, <2>1, <3>1
  <2>5. CASE DidDeliver(w) \/ DidTurn(w)
    BY <1>1, <2>1, <2>5, FateGrows
  <2> QED
    BY <2>2, <2>3, <2>4, <2>5 DEF Did
<1>2. ASSUME NEW v \in Celery, Working(v)', u \in Team \/ job'[v].phase = "staff"
      PROVE  Content(job[v].task, u)' \/ Waiting(v, u)'
  <2> DEFINE i == job'[v].task
  <2>i. Content(i, u) => Content(job[v].task, u)'
    <3>1. PICK n : n = i
      OBVIOUS
    <3>2. Content(n, u) => Content(n, u)'
      BY <1>c
    <3> QED
      BY <3>1, <3>2 DEF Content, Wants, Mailed
  <2>w. ASSUME NEW users \in {Team, Staff}, u \in users,
               job'[v].todo = Letters(users, tasks[i].status)
        PROVE  Content(job[v].task, u)' \/ Waiting(v, u)'
    <3>1. CASE Wants(u, tasks[i].status)
      BY <1>u, <2>w, <3>1, LettersOf DEF Waiting
    <3>2. CASE ~Wants(u, tasks[i].status)
      BY <1>k, <2>i, <3>2 DEF Content
    <3> QED
      BY <3>1, <3>2
  <2> HIDE DEF i
  <2>1. CASE v # w
    <3>1. job'[v] = job[v] /\ Working(v)
      BY <1>2, <2>1 DEF Did, DidTake, DidEnd, DidDeliver, DidTurn, OtherJobs, Working
    <3>2. Content(i, u) \/ Waiting(v, u)
      BY <1>2, <1>s, <3>1 DEF i
    <3> QED
      BY <2>i, <3>1, <3>2 DEF Waiting
  <2>2. CASE v = w /\ DidTake(w)
    BY <1>2, <1>u, <2>2, <2>w DEF DidTake, i
  <2>3. CASE v = w /\ DidDeliver(w)
    <3>1. PICK l \in job[w].todo, m \in Message :
            /\ m.task = job[w].task /\ m.letter = l
            /\ job'[w].todo = job[w].todo \ {l}
            /\ mails' = mails (+) SetToBag({m})
      BY <2>3 DEF DidDeliver
    <3>2. /\ job'[w].phase = job[w].phase /\ job'[w].task = job[w].task /\ Working(w)
      BY <2>3 DEF DidDeliver
    <3>3. Content(i, u) \/ Waiting(w, u)
      BY <1>2, <1>s, <2>3, <3>2 DEF i
    <3>4. CASE l.to = u
      <4>1. m \in DOMAIN mails'
        BY <3>1 DEF (+), SetToBag
      <4>2. m.task = i /\ m.letter.to = u
        BY <2>3, <3>1, <3>2, <3>4 DEF i
      <4> QED
        BY <4>1, <4>2 DEF Content, Mailed, i
    <3>5. CASE l.to # u /\ Waiting(w, u)
      BY <2>3, <3>1, <3>5 DEF Waiting
    <3> QED
      BY <2>i, <3>3, <3>4, <3>5
  <2>4. CASE v = w /\ DidTurn(w)
    <3>1. /\ job[w].phase = "team" /\ job[w].todo = {} /\ Working(w)
          /\ job'[w].task = job[w].task
      BY <2>4 DEF DidTurn, Working
    <3>2. CASE u \in Team
      BY <1>s, <2>4, <2>i, <3>1, <3>2 DEF Waiting, i
    <3>3. CASE u \in Staff
      BY <2>4, <2>w, <3>3 DEF DidTurn, Current, i
    <3> QED
      BY <1>u, <3>2, <3>3
  <2>5. CASE v = w /\ DidEnd(w)
    BY <1>2, <2>5 DEF DidEnd, Idle, Working
  <2> QED
    BY <2>1, <2>2, <2>3, <2>4, <2>5 DEF Did
<1> QED
  BY <1>1, <1>2


LEMMA JobsTyped ==
    ASSUME MailTypeOK, CoreInv, NEW w \in Celery, CeleryStep(w) \/ Lose(w)
    PROVE  job' \in [Celery -> Job]
<1>t. /\ job \in [Celery -> Job] /\ job[w] \in Job /\ Len(fate) + 1 \in Nat
  BY JobTypes
<1>u. Team \in SUBSET Accounts /\ Staff \in SUBSET Accounts
  BY DEF Accounts
<1>l. \A s : Letters(Team, s) \subseteq Letter /\ Letters(Staff, s) \subseteq Letter
  BY <1>u, LettersOf
<1>1. CASE Take(w)
  <2>1. [phase |-> "team", task |-> Len(fate) + 1,
         todo |-> Letters(Team, tasks[Len(fate) + 1].status)] \in Job
    BY <1>t, <1>l DEF Job
  <2> QED
    BY <1>1, <1>t, <2>1 DEF Take
<1>2. CASE Deliver(w)
  BY <1>2, <1>t DEF Deliver, Job
<1>3. CASE TurnToStaff(w)
  BY <1>3, <1>t, <1>l DEF TurnToStaff, Job
<1>4. CASE \E how : End(w, how)
  BY <1>4, <1>t DEF End, Idle, Job
<1> QED
  BY <1>1, <1>2, <1>3, <1>4 DEF CeleryStep, Raise, Finish, Lose

\* The attachments: a task that fails has met an offer given up half way, and
\* each message lists the offer its task speaks of.
LEMMA OfferMailedStep ==
    ASSUME CoreInv, MailInv, OfferMailed, NEW w \in Celery, Did(w), UNCHANGED vars,
           DidTake(w) \/ fate' = fate \/ (fate' \in Seq(Fates) /\ Len(fate') = Len(fate))
    PROVE  OfferMailed'
<1>k. /\ tasks' = tasks /\ marks' = marks
  BY DEF vars
<1>j. MailTypeOK /\ Jobs /\ Sent
  BY DEF MailInv
<1>w. Working(w) => job[w].task \in 1 .. Len(tasks)
  BY <1>j, JobTypes DEF Jobs
<1>1. ASSUME NEW i \in DOMAIN fate', fate'[i] = "raised"
      PROVE  ~tasks[i].ref \/ ~tasks[i].addr \/ "abort" \in marks[tasks[i].order]
  <2>1. CASE i \in DOMAIN fate /\ fate[i] = "raised"
    BY <2>1 DEF OfferMailed, PdfBuilt
  <2>2. CASE DidEnd(w) /\ i = job[w].task
    <3>1. /\ PdfRaises(tasks[i]) /\ Working(w)
          /\ ~\E r \in Requests : At(r, "offerItems") /\ req[r].order = tasks[i].order
      BY <1>1, <2>2 DEF DidEnd, Current
    <3>2. CASE \E f \in OffersOf(tasks[i].order) : ~f.complete
      <4>1. PICK f \in offers : f.order = tasks[i].order /\ ~f.complete
        BY <3>2 DEF OffersOf
      <4> QED
        BY <3>1, <4>1 DEF CoreInv, Unfinished, Finishing, At
    <3> QED
      BY <3>1, <3>2 DEF PdfRaises
  <2>3. CASE DidEnd(w) /\ i # job[w].task
    <3>1. DOMAIN fate' = DOMAIN fate
      BY <2>3, FateGrows DEF DidEnd, DidTake
    <3>2. fate'[i] = fate[i]
      BY <1>1, <2>3, <3>1 DEF DidEnd
    <3> QED
      BY <1>1, <2>1, <3>1, <3>2
  <2>4. CASE DidTake(w)
    <3>1. i \in DOMAIN fate /\ fate[i] = fate'[i]
      BY <1>1, <2>4, FateGrows
    <3> QED
      BY <1>1, <2>1, <3>1
  <2>5. CASE DidDeliver(w) \/ DidTurn(w)
    BY <1>1, <2>1, <2>5, FateGrows
  <2> QED
    BY <2>2, <2>3, <2>4, <2>5 DEF Did
<1>2. PdfBuilt'
  BY <1>1, <1>k DEF PdfBuilt
<1>3. CASE mails' = mails
  BY <1>2, <1>3, <1>k DEF OfferMailed, OfferListed, BagToSet, Spared
<1>4. ASSUME NEW m \in Message, DidDeliver(w), m.task = job[w].task,
             m.lists = Versions(Current(w).order),
             DOMAIN mails' = DOMAIN mails \cup {m}
      PROVE  OfferMailed'
  <2>1. job[w].task \in DOMAIN tasks
    BY <1>4, <1>j, <1>w, JobTypes DEF DidDeliver
  <2>2. Lists(tasks[m.task].order, tasks[m.task].status, tasks[m.task].fv)
    BY <1>4, <2>1 DEF CoreInv, Listed
  <2>3. \A n \in DOMAIN mails' :
          tasks[n.task].status \in OfferCodes
          /\ Spared(tasks[n.task].order, {"overlap", "abort", "deleted"})
            => tasks[n.task].fv \in n.lists
    BY <1>4, <2>2 DEF OfferMailed, OfferListed, BagToSet, Lists, Current
  <2>4. OfferListed'
    BY <1>k, <2>3 DEF OfferListed, BagToSet, Spared
  <2> QED
    BY <1>2, <2>4 DEF OfferMailed
<1> QED
  BY <1>3, <1>4, MailsGrow

LEMMA MailStep ==
    ASSUME CoreInv, MailInv, OfferMailed, NEW w \in Celery,
           CeleryStep(w) \/ Lose(w), UNCHANGED vars
    PROVE  MailInv' /\ OfferMailed'
<1>j. MailTypeOK /\ Jobs
  BY DEF MailInv
<1>d. /\ Did(w)
      /\ DidTake(w) \/ fate' = fate \/ (fate' \in Seq(Fates) /\ Len(fate') = Len(fate))
  BY <1>j, ProcessDid
<1>1. MailTypeOK'
  <2>1. prefs' = prefs /\ resaved' = resaved /\ tasks' = tasks
    BY <1>d DEF Did, DidTake, DidEnd, DidDeliver, DidTurn, vars
  <2>2. fate' \in Seq(Fates) /\ Len(fate') <= Len(tasks)
    BY <1>d, FateGrows
  <2>3. IsABag(mails') /\ DOMAIN mails' \subseteq Message
    BY <1>d, SentStep
  <2>4. job' \in [Celery -> Job]
    BY <1>j, JobsTyped
  <2> QED
    BY <1>j, <2>1, <2>2, <2>3, <2>4 DEF MailTypeOK
<1>2. Jobs' /\ Sent' /\ Served'
  BY <1>d, JobsStep, SentStep, ServedStep
<1>3. \A v \in Celery : Queued(v)'
  BY <1>d, QueuedStep
<1>4. OfferMailed'
  BY <1>d, OfferMailedStep
<1> QED
  BY <1>1, <1>2, <1>3, <1>4 DEF MailInv

LEMMA MailInvariant == MailSpec => [](CoreInv /\ MailInv /\ OfferMailed)
<1>1. MailInit => Init /\ MailInv /\ OfferMailed
  <2> SUFFICES ASSUME MailInit PROVE MailInv /\ OfferMailed
    BY DEF MailInit
  <2>1. /\ fate = <<>> /\ mails = [e \in {} |-> 1] /\ resaved = {} /\ tasks = <<>>
        /\ \A w \in Celery : job[w] = Idle
        /\ job = [w \in Celery |-> Idle] /\ prefs \in [Accounts -> PrefSets]
    BY DEF MailInit, EmptyBag, SetToBag, Init
  <2>2. MailTypeOK
    <3>1. Idle \in Job
      BY DEF Idle, Job
    <3>2. IsABag(mails) /\ DOMAIN mails = {}
      BY <2>1 DEF IsABag
    <3>3. prefs \in [Accounts -> SUBSET Preferences]
      BY <2>1, PrefSetsAssumption
    <3> QED
      BY <2>1, <3>1, <3>2, <3>3 DEF MailTypeOK
  <2>3. Jobs /\ Sent /\ Served /\ \A w \in Celery : Queued(w)
    BY <2>1 DEF Jobs, Sent, Served, Queued, Working, Idle
  <2>4. OfferMailed
    BY <2>1 DEF OfferMailed, PdfBuilt, OfferListed, BagToSet
  <2> QED
    BY <2>2, <2>3, <2>4 DEF MailInv
<1>2. [MailNext]_allVars => [Next]_vars
  BY DEF MailNext, allVars
<1>3. MailSpec => []CoreInv
  BY <1>1, <1>2, CoreInvariant, PTL DEF MailSpec, Spec
<1>4. CoreInv /\ MailInv /\ OfferMailed /\ [MailNext]_allVars
        => MailInv' /\ OfferMailed'
  <2> SUFFICES ASSUME CoreInv, MailInv, OfferMailed, [MailNext]_allVars
               PROVE  MailInv' /\ OfferMailed'
    OBVIOUS
  <2>1. CASE [Next]_vars /\ UNCHANGED mailVars
    BY <2>1, MailKeeps
  <2>2. CASE UNCHANGED vars /\ \E w \in Celery : CeleryStep(w) \/ Lose(w)
    BY <2>2, MailStep
  <2>3. CASE UNCHANGED vars /\ \E u \in Accounts : SavePrefs(u)
    BY <2>3, PrefsKeep
  <2> QED
    BY <2>1, <2>2, <2>3 DEF MailNext, allVars
<1> QED
  BY <1>1, <1>3, <1>4, PTL DEF MailSpec

\* The variables of the Celery workers keep their types, with any number of
\* processes and accounts (MailTypeOK): no process takes a task that is not in
\* the queue, and the messages stay messages of tasks.
THEOREM MailTypeCorrect == MailSpec => []MailTypeOK
<1>1. MailInv => MailTypeOK
  BY DEF MailInv
<1> QED
  BY <1>1, MailInvariant, PTL

\* mail_item is acknowledged before it runs and never retried, and goes through
\* the team before the Optiz users: no account gets two messages of one task,
\* and a task that ended has mailed everyone who asked for it (MailedExactly),
\* whatever processes are killed and whoever changes preferences meanwhile.
THEOREM MailsExact == MailSpec => []MailedExactly
<1>1. MailInv => MailedExactly
  BY DEF MailInv, Sent, Served, Content, Mailed, MailedExactly, AtMostOnce,
     EndedMailedAll, BagToSet
<1> QED
  BY <1>1, MailInvariant, PTL

\* A task is queued before the order is saved and its PDF is built from what the
\* database holds when it runs: still the PDF of an order that no request left
\* half done can be built, and it lists the offer the task speaks of
\* (OfferMailed).
THEOREM OffersMailed == MailSpec => []OfferMailed
  BY MailInvariant, PTL
=============================================================================
