------------------------------- MODULE Orders -------------------------------
(***************************************************************************)
(* The order core of WeASe: the Order, ReqItem and Offer tables and the    *)
(* REST handlers of orders/views.py and orders/serializers.py that change  *)
(* them.  A slot r \in Requests holds one HTTP request from the click that *)
(* sends it to its answer.  Its content is fixed by the page the user      *)
(* looks at when it is sent, so a slow request and a click on a stale page *)
(* are the same behaviour.  Every database statement commits on its own    *)
(* (Django autocommit, no ATOMIC_REQUESTS), and Model.save writes all the  *)
(* columns of a row that was read earlier: one action per statement.       *)
(***************************************************************************)
EXTENDS OrderRows, WebWorkers, Sequences

CONSTANTS
    Requests,      \* slots for HTTP requests in flight
    Kinds,         \* the kinds of request the users send
    MaxOrders,     \* bound on the orders created
    MaxRequests    \* bound on the requests sent

AllKinds == {"new", "add", "edit", "submit", "status", "decide", "address",
             "reference", "comment", "offer", "blank", "delete", "delitem"}

ASSUME KindsAssumption == Kinds \subseteq AllKinds
ASSUME BoundsAssumption == MaxOrders \in Nat /\ MaxRequests \in Nat

VARIABLES
    live,        \* ids of the rows of table Order
    orders,      \* the columns of each Order row
    items,       \* ids of the ReqItem rows of each order
    offers,      \* the Offer rows
    logs,        \* eventlog rows about orders, oldest first
    tasks,       \* mail_item tasks handed to Celery, oldest first
    req,         \* the request in each slot
    nextOrder, nextItem, nextOffer,   \* the sequences behind the ids
    sent,        \* number of requests sent
    marks        \* what has happened to each order (history only)

db    == <<live, orders, items, offers, nextOrder, nextItem, nextOffer>>
vars  == <<live, orders, items, offers, logs, tasks, req,
           nextOrder, nextItem, nextOffer, sent, marks>>

-----------------------------------------------------------------------------
(* Requests *)

Ids   == 1 .. MaxOrders
NoId  == 0

Offer == [id : Nat, order : Ids, version : Nat,
          approval : {"WAP"} \cup Decisions, complete : BOOLEAN]

\* The row a handler holds in memory when it reaches its save, as a function
\* of the row it loaded.
Effect(q, row) ==
    CASE q.kind = "submit"    -> SubmittedRow(row, q.user)
      [] q.kind = "status"    -> StaffStatusRow(row, q.code)
      [] q.kind = "decide"    -> DecidedRow(row, q.code, q.user)
      [] q.kind = "address"   -> [row EXCEPT !.addr = TRUE]
      [] q.kind = "reference" -> [row EXCEPT !.ref = TRUE]
      [] q.kind = "offer"     -> OfferedRow(row)
      [] q.kind = "edit"      -> [row EXCEPT !.draft = q.flag]
      [] OTHER                -> row

PCs == {"free", "sent", "saveNew", "saveDraft", "item", "announce", "mail",
        "decide", "save", "offerRow", "offerItems"}

Request == [pc : PCs, kind : AllKinds, user : Customers \cup {Nobody},
            order : Ids \cup {NoId}, target : Nat,
            code : Codes, flag : BOOLEAN, row : Row]

Free == [pc |-> "free", kind |-> "new", user |-> Nobody, order |-> NoId,
         target |-> NoId, code |-> "WRQ", flag |-> FALSE, row |-> CreatedRow]

Active(r)    == req[r].pc \notin {"free", "sent"}
BusyOn(r, o) == Active(r) /\ req[r].order = o
Quiet(o)     == \A r \in Requests : ~BusyOn(r, o)
OffersOf(o)  == {f \in offers : f.order = o}

\* offerApvl takes the last element of offer_order, which the API lists with
\* the newest offer first (Offer.Meta.ordering).
ListedLast(f) == \A g \in OffersOf(f.order) : f.id <= g.id

\* The columns of a pickled row that mail_item reads.
Task == [order : Ids, status : Codes, fv : Nat, addr : BOOLEAN, ref : BOOLEAN]

\* The not_action of the log entries.
Actions == {"request item created", "request item updated",
            "request submitted", "request created", "request updated",
            "order delivery address", "comment added", "offer created",
            "order status updated"}

Marks == {"blank", "overlap", "abort", "redraft", "deleted"}

TypeOK ==
    /\ live \subseteq Ids
    /\ orders \in [Ids -> Row]
    /\ items \in [Ids -> SUBSET Nat]
    /\ offers \subseteq Offer
    /\ logs \in Seq([order : Ids, action : Actions, status : Codes,
                     version : Nat \cup {Null}])
    /\ tasks \in Seq(Task)
    /\ req \in [Requests -> Request]
    /\ {nextOrder, nextItem, nextOffer} \subseteq Nat \ {0}
    /\ sent \in 0 .. MaxRequests
    /\ marks \in [Ids -> SUBSET Marks]

Init ==
    /\ live = {}
    /\ orders = [o \in Ids |-> CreatedRow]
    /\ items = [o \in Ids |-> {}]
    /\ offers = {}
    /\ logs = <<>>
    /\ tasks = <<>>
    /\ req = [r \in Requests |-> Free]
    /\ nextOrder = 1 /\ nextItem = 1 /\ nextOffer = 1
    /\ sent = 0
    /\ marks = [o \in Ids |-> {}]

-----------------------------------------------------------------------------
(* The client: what each page lets its user send *)

Send(r, q) ==
    /\ req[r].pc = "free"
    /\ q.kind \in Kinds
    /\ sent < MaxRequests
    /\ req' = [req EXCEPT ![r] = q]
    /\ sent' = sent + 1
    /\ UNCHANGED <<db, logs, tasks, marks>>

Click(kind, u, o) == [Free EXCEPT !.pc = "sent", !.kind = kind,
                                  !.user = u, !.order = o]

\* A page that shows a request still with the company.
Editable(o) == o \in live /\ orders[o].status \in {"WRQ", "APN"}

\* The user is kept where a handler stores it in a column modelled here or
\* tests its access level.
RoomForOrder == nextOrder <= MaxOrders

SendNew(r) ==
    /\ RoomForOrder
    /\ Send(r, [Click("new", Nobody, NoId) EXCEPT !.flag = TRUE])

SendAdd(r) == \E o \in live :
    /\ Editable(o)
    /\ Send(r, [Click("add", Nobody, o) EXCEPT !.flag = orders[o].draft])

SendEdit(r) == \E o \in live : \E i \in items[o] :
    /\ Editable(o)
    /\ Send(r, [Click("edit", Nobody, o) EXCEPT !.flag = orders[o].draft,
                                                !.target = i])

SendRemove(r) == \E o \in live : \E i \in items[o] :
    /\ Editable(o)
    /\ Send(r, [Click("delitem", Nobody, o) EXCEPT !.target = i])

SendDelete(r) == \E o \in live :
    /\ Editable(o) /\ ~orders[o].offer
    /\ Send(r, Click("delete", Nobody, o))

SendSubmit(r) == \E u \in Customers, o \in live :
    /\ Editable(o) /\ orders[o].addr
    /\ Send(r, Click("submit", u, o))

SendAddress(r) == \E o \in live :
    /\ Editable(o)
    /\ Send(r, Click("address", Nobody, o))

SendReference(r) == \E o \in live :
    /\ Editable(o)
    /\ Send(r, Click("reference", Nobody, o))

SendComment(r) == \E o \in live : Send(r, Click("comment", Nobody, o))

SendStatus(r) == \E o \in live, s \in StaffCodes :
    /\ s \in {"INP", "COM", "INV"} =>
          orders[o].status \notin {"WRQ", "APN", "PEN", "OFR", "REF"}
    /\ Send(r, [Click("status", Nobody, o) EXCEPT !.code = s])

SendDecide(r) == \E u \in Customers, f \in offers, s \in Decisions :
    /\ f.order \in live /\ orders[f.order].status = "OFR" /\ ListedLast(f)
    /\ Send(r, [Click("decide", u, f.order) EXCEPT !.code = s,
                                                   !.target = f.id])

\* Mutant: the page also offers the form on a request still with the company.
SendOfferEarly(r) == \E o \in live :
    /\ orders[o].status \in {"APN", "PEN", "REF"}
    /\ Send(r, Click("offer", Nobody, o))

SendOffer(r) == \E o \in live :
    /\ orders[o].status \in {"PEN", "REF"}
    /\ Send(r, Click("offer", Nobody, o))

SendBlank(r) == \E ref \in BOOLEAN :
    /\ RoomForOrder
    /\ Send(r, [Click("blank", Nobody, NoId) EXCEPT !.flag = ref])

ClientNext(r) ==
    \/ SendNew(r) \/ SendAdd(r) \/ SendEdit(r) \/ SendRemove(r)
    \/ SendDelete(r) \/ SendSubmit(r) \/ SendAddress(r) \/ SendReference(r)
    \/ SendComment(r) \/ SendStatus(r) \/ SendDecide(r) \/ SendOffer(r)
    \/ SendBlank(r)

-----------------------------------------------------------------------------
(* The web worker takes a request *)

Receives(r, kinds) ==
    /\ req[r].pc = "sent" /\ req[r].kind \in kinds
    /\ OneWorker => \A q \in Requests : ~Active(q)

Marked(o, hazards) == [marks EXCEPT ![o] = @ \cup hazards]

\* Another handler is at work on the same order.
Overlap(o) == IF Quiet(o) THEN {} ELSE {"overlap"}

\* Order.objects.create: a request with add = false, or a blank offer.
CreateOrder(r, kind, created, held, pc) ==
    /\ Receives(r, {kind})
    /\ RoomForOrder
    /\ live' = live \cup {nextOrder}
    /\ orders' = [orders EXCEPT ![nextOrder] = created]
    /\ req' = [req EXCEPT ![r].pc = pc, ![r].order = nextOrder, ![r].row = held]
    /\ nextOrder' = nextOrder + 1
    /\ UNCHANGED <<items, offers, logs, tasks, nextItem, nextOffer, sent>>

ReceiveNew(r) ==
    /\ CreateOrder(r, "new", CreatedRow, RequestRow(CreatedRow), "saveNew")
    /\ UNCHANGED marks

ReceiveBlank(r) ==
    /\ CreateOrder(r, "blank", BlankCreatedRow,
                   OfferedRow(BlankRow(BlankCreatedRow, req[r].flag)), "save")
    /\ marks' = Marked(nextOrder, {"blank"})

\* The requests that work on a row they read first.
OnRow == {"add", "edit", "submit", "status", "decide", "address",
          "reference", "comment", "offer"}

\* None + 1 raises TypeError: order_version is null until the first save.
NullVersionRaises(q, row) ==
    /\ row.ov = Null
    /\ \/ q.kind = "submit" /\ q.user \in Managers
       \/ q.kind = "offer" /\ row.fv >= 1

\* Mutant: a missing order is not noticed.
FoundAnyway(q) ==
    /\ q.kind \in {"edit", "delitem"} => q.target \in items[q.order]
    /\ ~NullVersionRaises(q, orders[q.order])

\* get_object and Order.objects.get raise on a missing row; in each case the
\* handler has written nothing and the client gets an error.
Found(q) ==
    /\ q.order \in live
    /\ q.kind \in {"edit", "delitem"} => q.target \in items[q.order]
    /\ ~NullVersionRaises(q, orders[q.order])

\* Mutant: a status set by Optiz is saved without log or mail.
FirstStepSilent(q, row) ==
    CASE q.kind = "add"                              -> "saveNew"
      [] q.kind = "edit"                             -> "saveDraft"
      [] q.kind \in {"submit", "address", "comment"} -> "announce"
      [] OTHER                                       -> "save"

\* The first statement after the row is in memory.
FirstStep(q, row) ==
    CASE q.kind = "add"                             -> "saveNew"
      [] q.kind = "edit"                            -> "saveDraft"
      [] q.kind \in {"reference", "offer"}          -> "save"
      [] q.kind \in {"submit", "address", "comment"} -> "announce"
      [] OTHER -> IF q.code = row.status THEN "save"
                  ELSE IF ~row.draft THEN "announce"
                  ELSE IF q.kind = "decide" THEN "decide" ELSE "save"

\* Mutant: the handler builds an Order with the id instead of reading the row.
LoadDefaults(r) ==
    LET q == req[r] IN
    /\ Receives(r, OnRow)
    /\ Found(q)
    /\ req' = [req EXCEPT ![r].pc = FirstStep(q, orders[q.order]),
                          ![r].row = Effect(q, CreatedRow)]
    /\ marks' = Marked(q.order, Overlap(q.order))
    /\ UNCHANGED <<db, logs, tasks, sent>>

\* Order.objects.get / get_object, and the assignments made in memory.
Load(r) ==
    LET q == req[r] IN
    /\ Receives(r, OnRow)
    /\ Found(q)
    /\ req' = [req EXCEPT ![r].pc = FirstStep(q, orders[q.order]),
                          ![r].row = Effect(q, orders[q.order])]
    /\ marks' = Marked(q.order, Overlap(q.order))
    /\ UNCHANGED <<db, logs, tasks, sent>>

\* DELETE on an order: Django removes the row and, by cascade, its request
\* items and offers in one transaction.
DeleteOrder(r) ==
    LET o == req[r].order IN
    /\ Receives(r, {"delete"})
    /\ Found(req[r])
    /\ live' = live \ {o}
    /\ orders' = [orders EXCEPT ![o] = CreatedRow]
    /\ items' = [items EXCEPT ![o] = {}]
    /\ offers' = offers \ OffersOf(o)
    /\ req' = [req EXCEPT ![r] = Free]
    /\ marks' = Marked(o, {"deleted"} \cup Overlap(o))
    /\ UNCHANGED <<logs, tasks, nextOrder, nextItem, nextOffer, sent>>

\* DELETE on a request item.
RemoveItem(r) ==
    LET o == req[r].order IN
    /\ Receives(r, {"delitem"})
    /\ Found(req[r])
    /\ items' = [items EXCEPT ![o] = @ \ {req[r].target}]
    /\ req' = [req EXCEPT ![r] = Free]
    /\ marks' = Marked(o, Overlap(o))
    /\ UNCHANGED <<live, orders, offers, logs, tasks, nextOrder, nextItem,
                   nextOffer, sent>>

Refuse(r) ==
    /\ Receives(r, OnRow \cup {"delete", "delitem"})
    /\ ~Found(req[r])
    /\ req' = [req EXCEPT ![r] = Free]
    /\ UNCHANGED <<db, logs, tasks, sent, marks>>

-----------------------------------------------------------------------------
(* The statements of the handlers *)

At(r, pc) == req[r].pc = pc

Goto(r, pc) == req' = [req EXCEPT ![r] = IF pc = "free" THEN Free
                                         ELSE [@ EXCEPT !.pc = pc]]

\* order.save(): every column of the row in memory, inserted again when the
\* row has been deleted meanwhile.
SaveRow(r) ==
    LET q == req[r] IN
    /\ live' = live \cup {q.order}
    /\ orders' = [orders EXCEPT ![q.order] = q.row]
    /\ marks' = Marked(q.order,
                       IF q.kind \in {"add", "edit"}
                          /\ q.row.draft # orders[q.order].draft
                       THEN {"redraft"} ELSE {})

\* ReqItemViewSet.perform_create: order.save() before serializer.save(), then
\* the draft flag of the page is put in the row.
SaveNew(r) ==
    /\ At(r, "saveNew")
    /\ SaveRow(r)
    /\ req' = [req EXCEPT ![r].pc = "saveDraft",
                          ![r].row.draft = req[r].flag]
    /\ UNCHANGED <<items, offers, logs, tasks, nextOrder, nextItem, nextOffer,
                   sent>>

\* ReqItemSerializer.create and update: order.save() with that flag.
SaveDraft(r) ==
    /\ At(r, "saveDraft")
    /\ SaveRow(r)
    /\ Goto(r, "item")
    /\ UNCHANGED <<items, offers, logs, tasks, nextOrder, nextItem, nextOffer,
                   sent>>

\* ReqItem.objects.create with its products, or the save of an edited item
\* (inserted again if it was removed); the foreign key needs the order.
SaveItem(r) ==
    LET q == req[r] IN
    /\ At(r, "item")
    /\ q.order \in live
    /\ IF q.kind = "edit"
         THEN /\ items' = [items EXCEPT ![q.order] = @ \cup {q.target}]
              /\ UNCHANGED nextItem
         ELSE /\ items' = [items EXCEPT ![q.order] = @ \cup {nextItem}]
              /\ nextItem' = nextItem + 1
    /\ Goto(r, "announce")
    /\ UNCHANGED <<live, orders, offers, logs, tasks, nextOrder, nextOffer,
                   sent, marks>>

\* What the log entry of a request says.
Announcement(q) ==
    CASE q.kind \in {"new", "add"} -> "request item created"
      [] q.kind = "edit"           -> "request item updated"
      [] q.kind = "submit"         ->
            IF q.user \in Managers THEN "request submitted"
            ELSE IF q.row.comp = "APN" THEN "request updated"
            ELSE "request created"
      [] q.kind = "address"        -> "order delivery address"
      [] q.kind = "comment"        -> "comment added"
      [] q.kind \in {"offer", "blank"} -> "offer created"
      [] OTHER                     -> "order status updated"

AfterAnnounce(q) ==
    CASE q.kind \in {"new", "add", "edit"}   -> "free"
      [] q.kind \in {"address", "comment"}   -> "save"
      [] OTHER                               -> "mail"

\* log(...): a Log row, published to the subscribed clients as it is saved.
\* 'offer created' puts the offer's version where the others put the order's.
Announce(r) ==
    LET q == req[r] IN
    /\ At(r, "announce")
    /\ logs' = Append(logs, [order |-> q.order, action |-> Announcement(q),
                             status |-> q.row.status,
                             version |-> IF q.kind \in {"offer", "blank"}
                                         THEN q.row.fv ELSE q.row.ov])
    /\ Goto(r, AfterAnnounce(q))
    /\ UNCHANGED <<db, tasks, sent, marks>>

\* Mutant: the decision is not written on the offer.
AfterMailNoOffer(q) ==
    IF q.kind \in {"offer", "blank"} THEN "free" ELSE "save"

AfterMail(q) ==
    CASE q.kind \in {"offer", "blank"} -> "free"
      [] q.kind = "decide"             -> "decide"
      [] OTHER                         -> "save"

\* mail_item.delay(user, instance): the task carries the row as it is in
\* memory at the call; the columns assigned after it are not read by the task.
Mail(r) ==
    LET q == req[r] IN
    /\ At(r, "mail")
    /\ tasks' = Append(tasks, [order |-> q.order, status |-> q.row.status,
                               fv |-> q.row.fv, addr |-> q.row.addr,
                               ref |-> q.row.ref])
    /\ Goto(r, AfterMail(q))
    /\ UNCHANGED <<db, logs, sent, marks>>

\* Offer.objects.get and offer.save(): no column of an offer but the approval
\* changes after its creation, so the pair is one step.
Decide(r) ==
    LET q == req[r] IN
    /\ At(r, "decide")
    /\ \E f \in offers :
         /\ f.id = q.target
         /\ offers' = (offers \ {f}) \cup {[f EXCEPT !.approval = q.code]}
    /\ Goto(r, "save")
    /\ UNCHANGED <<live, orders, items, logs, tasks, nextOrder, nextItem,
                   nextOffer, sent, marks>>

\* Mutant: an offer is announced before it is written.
SaveAnnounces(r) ==
    /\ At(r, "save")
    /\ SaveRow(r)
    /\ Goto(r, IF req[r].kind \in {"offer", "blank"} THEN "announce" ELSE "free")
    /\ UNCHANGED <<items, offers, logs, tasks, nextOrder, nextItem, nextOffer,
                   sent>>

\* The save that ends OrderSerializer.update and starts an offer.
Save(r) ==
    /\ At(r, "save")
    /\ SaveRow(r)
    /\ Goto(r, IF req[r].kind \in {"offer", "blank"} THEN "offerRow" ELSE "free")
    /\ UNCHANGED <<items, offers, logs, tasks, nextOrder, nextItem, nextOffer,
                   sent>>

\* Mutant: the offer is announced before its items are written.
CreateOfferOnly(r) ==
    LET q == req[r] IN
    /\ At(r, "offerRow")
    /\ q.order \in live
    /\ offers' = offers \cup {[id |-> nextOffer, order |-> q.order,
                               version |-> q.row.fv, approval |-> "WAP",
                               complete |-> FALSE]}
    /\ nextOffer' = nextOffer + 1
    /\ req' = [req EXCEPT ![r].pc = "announce", ![r].target = nextOffer]
    /\ UNCHANGED <<live, orders, items, logs, tasks, nextOrder, nextItem, sent,
                   marks>>

\* Offer.objects.create: the foreign key needs the order.
CreateOffer(r) ==
    LET q == req[r] IN
    /\ At(r, "offerRow")
    /\ q.order \in live
    /\ offers' = offers \cup {[id |-> nextOffer, order |-> q.order,
                               version |-> q.row.fv, approval |-> "WAP",
                               complete |-> FALSE]}
    /\ nextOffer' = nextOffer + 1
    /\ req' = [req EXCEPT ![r].pc = "offerItems", ![r].target = nextOffer]
    /\ UNCHANGED <<live, orders, items, logs, tasks, nextOrder, nextItem, sent,
                   marks>>

\* The OfferItem rows: the foreign key needs the offer.
CreateOfferItems(r) ==
    LET q == req[r] IN
    /\ At(r, "offerItems")
    /\ \E f \in offers :
         /\ f.id = q.target
         /\ offers' = (offers \ {f}) \cup {[f EXCEPT !.complete = TRUE]}
    /\ Goto(r, "announce")
    /\ UNCHANGED <<live, orders, items, logs, tasks, nextOrder, nextItem,
                   nextOffer, sent, marks>>

\* An exception between two statements (a foreign key that no longer holds,
\* a missing offer or address, Redis out of reach for the log's publication
\* or the task) or a killed worker: what is written stays written.
Abort(r) ==
    /\ Active(r)
    /\ req' = [req EXCEPT ![r] = Free]
    /\ marks' = Marked(req[r].order, {"abort"})
    /\ UNCHANGED <<db, logs, tasks, sent>>

ServerNext(r) ==
    \/ ReceiveNew(r) \/ ReceiveBlank(r) \/ Load(r) \/ DeleteOrder(r)
    \/ RemoveItem(r) \/ Refuse(r)
    \/ SaveNew(r) \/ SaveDraft(r) \/ SaveItem(r) \/ Announce(r) \/ Mail(r)
    \/ Decide(r) \/ Save(r) \/ CreateOffer(r) \/ CreateOfferItems(r)
    \/ Abort(r)

Next == \E r \in Requests : ClientNext(r) \/ ServerNext(r)

Spec == Init /\ [][Next]_vars

-----------------------------------------------------------------------------
(* Properties of every deployment: any number of web workers, any failure *)

\* One row tells one story.  Whatever is lost when two handlers save over
\* each other, a row never mixes columns of two of them: order_offer and
\* offer_version go together, the order's version keeps up with the offers',
\* and each order_status is accompanied by the value of the other two status
\* columns (and the approver) that the handler which set it wrote with it.
Consistent(row) ==
    /\ row.offer <=> row.fv >= 1
    /\ row.ov # Null => row.ov >= row.fv - 1
    /\ row.status = "PEN" => /\ row.comp = "PEN" /\ row.optiz = "PEN"
                             /\ row.approver \in Managers
    /\ row.status = "OFR" => row.offer /\ row.optiz = "OSB"
    /\ row.status \in Decisions => row.comp = row.status
    /\ row.status \in StaffCodes => row.optiz = row.status

RowsConsistent == \A o \in live : Consistent(orders[o])

\* No offer is made on a company's request before a manager of the company
\* has submitted it to Optiz (access_level >= '6' in OrderSerializer.update),
\* and the log shows it.  Stale pages, overlapping saves and requests that
\* stop half way do not open another way; only a blank offer, which Optiz
\* makes on its own, needs no request.
Approved(o) == \E i \in DOMAIN logs :
    logs[i].order = o /\ logs[i].action = "request submitted"

Warranted(o) == "blank" \in marks[o] \/ Approved(o)

ApprovedBeforeOffer == \A f \in offers : Warranted(f.order)

-----------------------------------------------------------------------------
(* Properties of an order that has been spared some of the hazards *)

Spared(o, hazards) == marks[o] \cap hazards = {}

\* Unless handlers overlap on an order or one of them stops half way, its
\* offers are numbered 1 .. offer_version, each number once, and each offer
\* has its items: the read-modify-write of offer_version in
\* OfferSerializer.create neither skips nor repeats a version.
OffersNumbered == \A o \in live :
    Spared(o, {"overlap", "abort"}) =>
      /\ \A f, g \in OffersOf(o) : f.version = g.version => f = g
      /\ {f.version : f \in OffersOf(o)} \subseteq 1 .. orders[o].fv
      /\ Quiet(o) => /\ {f.version : f \in OffersOf(o)} = 1 .. orders[o].fv
                     /\ \A f \in OffersOf(o) : f.complete

\* Unless handlers overlap on an order or one stops half way, an order that
\* shows a decision has an offer with that decision, once no handler is at
\* work on it: the two rows are saved one after the other, and a decision
\* taken twice from stale pages leaves them in step.
DecisionOnOffer == \A o \in live :
    /\ Spared(o, {"overlap", "abort"}) /\ Quiet(o)
    /\ orders[o].status \in Decisions
    => \E f \in OffersOf(o) : f.approval = orders[o].status

\* The last entry for order o that speaks of its status, in the log or among
\* the mail tasks.
StatusActions == {"request submitted", "request created", "request updated",
                  "order status updated", "offer created"}

LastLogged(o, s) == \E i \in DOMAIN logs :
    /\ logs[i].order = o /\ logs[i].action \in StatusActions
    /\ logs[i].status = s
    /\ \A j \in DOMAIN logs :
          j > i /\ logs[j].order = o => logs[j].action \notin StatusActions

LastMailed(o, s) == \E i \in DOMAIN tasks :
    /\ tasks[i].order = o /\ tasks[i].status = s
    /\ \A j \in DOMAIN tasks : j > i => tasks[j].order # o

\* The log and the mail are emitted before the order is saved (after it, for
\* an offer).  Still, once no handler is at work on a submitted order that was
\* spared overlaps, half-done requests and item requests carrying an outdated
\* draft flag, the last status that users were told of, in the log and by
\* mail, is the status of the order.
StatusAnnounced == \A o \in live :
    /\ Spared(o, {"overlap", "abort", "redraft"}) /\ Quiet(o)
    /\ ~orders[o].draft /\ orders[o].status # "WRQ"
    => LastLogged(o, orders[o].status) /\ LastMailed(o, orders[o].status)

\* Unless a handler was at work on it when it was deleted or another one
\* overlapped, a deleted order does not come back, although order.save()
\* inserts a row it does not find.
DeletedStaysDeleted == \A o \in Ids :
    "deleted" \in marks[o] /\ Spared(o, {"overlap"}) => o \notin live

\* Unless handlers overlap on an order, each change of its row applies one
\* operation to the row as it was just before: no update is lost, even when
\* other requests were answered, refused or stopped since the page was shown.
NoLostUpdate == [][
    \A o \in live \cap live' :
        "overlap" \notin marks'[o] =>
            orders'[o] \in {orders[o]} \cup Results(orders[o])]_vars

-----------------------------------------------------------------------------
(* The table as one worker leaves it *)

Table == INSTANCE OrderTable WITH rows <- orders

\* With one synchronous worker table Order implements OrderTable.
TableRefined == Table!TableSpec

-----------------------------------------------------------------------------
(* What the pages say *)

\* order.html heads the buttons with "Approve Current Offer": the decision an
\* order shows is the one recorded on its most recent offer.
CurrentOfferDecided == \A o \in live :
    Spared(o, {"overlap", "abort"}) /\ Quiet(o)
    /\ orders[o].status \in Decisions =>
        \E f \in OffersOf(o) :
            /\ \A g \in OffersOf(o) : g.id <= f.id
            /\ f.approval = orders[o].status

=============================================================================
