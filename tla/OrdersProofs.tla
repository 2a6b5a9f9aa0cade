---------------------------- MODULE OrdersProofs ----------------------------
(***************************************************************************)
(* Theorems about Orders, for any number of users, request slots, orders   *)
(* and requests.  Part I, one worker or several: types, warrants and the   *)
(* order of statements.  Part II, what an order keeps through a sequence   *)
(* of requests: a deleted order stays deleted, no update is lost, offers   *)
(* are numbered, decisions and announcements agree with the row, each      *)
(* unless the hazard it names has met the order; and one worker implements *)
(* OrderTable.                                                             *)
(***************************************************************************)
EXTENDS Orders, SequenceTheorems, TLAPS

\* A request that works on an order names one: all but the two kinds that
\* create the order, and these too once they have created it.  Its code is one
\* of those its kind may carry, and only a decision reaches the decision step.
WellFormed == \A r \in Requests :
    /\ req[r].pc # "free" /\ req[r].kind \notin {"new", "blank"}
         => req[r].order \in Ids
    /\ Active(r) => req[r].order \in Ids
    /\ req[r].kind = "status" => req[r].code \in StaffCodes
    /\ req[r].kind = "decide" => req[r].code \in Decisions
    /\ req[r].pc = "decide" => req[r].kind = "decide"
    /\ req[r].kind \in {"submit", "decide"} => req[r].user \in Customers

TypeInv == TypeOK /\ WellFormed

\* What the handlers assign to a row of the table is a row of the table.
LEMMA RowTypes ==
    ASSUME NEW row \in Row
    PROVE  /\ CreatedRow \in Row
           /\ BlankCreatedRow \in Row
           /\ RequestRow(row) \in Row
           /\ OfferedRow(row) \in Row
           /\ \A ref \in BOOLEAN : BlankRow(row, ref) \in Row
           /\ \A u \in Customers \cup {Nobody} : SubmittedRow(row, u) \in Row
           /\ \A s \in Codes : StaffStatusRow(row, s) \in Row
           /\ \A s \in Codes, u \in Customers \cup {Nobody} :
                 DecidedRow(row, s, u) \in Row
<1> USE DEF Row, Null
<1>1. CreatedRow \in Row /\ BlankCreatedRow \in Row
  BY DEF CreatedRow, BlankCreatedRow, Codes
<1>2. RequestRow(row) \in Row
  BY DEF RequestRow, Codes
<1>3. OfferedRow(row) \in Row
  <2>1. (IF row.fv >= 1 THEN row.ov + 1 ELSE row.ov) \in Nat \cup {Null}
    OBVIOUS
  <2>2. row.fv + 1 \in Nat
    OBVIOUS
  <2> QED
    BY <2>1, <2>2 DEF OfferedRow, Codes
<1>4. \A ref \in BOOLEAN : BlankRow(row, ref) \in Row
  BY DEF BlankRow
<1>5. \A u \in Customers \cup {Nobody} : SubmittedRow(row, u) \in Row
  <2> TAKE u \in Customers \cup {Nobody}
  <2>1. row.ov + 1 \in Nat \cup {Null}
    OBVIOUS
  <2>2. {"PEN", "APN", row.status} \subseteq Codes
    BY DEF Codes
  <2>3. CASE u \in Managers
    BY <2>1, <2>2, <2>3 DEF SubmittedRow
  <2>4. CASE u \notin Managers
    BY <2>2, <2>4 DEF SubmittedRow
  <2> QED
    BY <2>3, <2>4
<1>6. \A s \in Codes : StaffStatusRow(row, s) \in Row
  BY DEF StaffStatusRow
<1>7. \A s \in Codes, u \in Customers \cup {Nobody} : DecidedRow(row, s, u) \in Row
  BY DEF DecidedRow
<1> QED
  BY <1>1, <1>2, <1>3, <1>4, <1>5, <1>6, <1>7

\* The row a handler holds at its save is a row of the table.
LEMMA EffectType ==
    ASSUME NEW q \in Request, NEW row \in Row
    PROVE  Effect(q, row) \in Row
<1>1. q.user \in Customers \cup {Nobody} /\ q.code \in Codes /\ q.flag \in BOOLEAN
  BY DEF Request
<1>2. [row EXCEPT !.addr = TRUE] \in Row /\ [row EXCEPT !.ref = TRUE] \in Row
  BY DEF Row
<1>3. [row EXCEPT !.draft = q.flag] \in Row
  BY <1>1 DEF Row
<1> QED
  BY <1>1, <1>2, <1>3, RowTypes DEF Effect

-----------------------------------------------------------------------------
(* Type correctness *)

\* What a page lets its user send.
Clicked(q) ==
    /\ q \in Request /\ q.pc = "sent" /\ q.row = CreatedRow
    /\ IF q.kind \in {"new", "blank"} THEN q.order = NoId ELSE q.order \in live
    /\ q.kind = "status" => q.code \in StaffCodes
    /\ q.kind = "decide" =>
         /\ q.code \in Decisions /\ orders[q.order].status = "OFR"
         /\ \E f \in offers : f.id = q.target /\ f.order = q.order
    /\ q.kind \in {"submit", "decide"} => q.user \in Customers
    /\ q.kind = "offer"  => orders[q.order].status \in {"PEN", "REF"}

\* An empty slot is well formed, and so is a click on a page.
LEMMA ClickType ==
    ASSUME NEW kind \in AllKinds, NEW u \in Customers \cup {Nobody},
           NEW o \in Ids \cup {NoId}
    PROVE  /\ Free \in Request
           /\ LET c == Click(kind, u, o) IN
                /\ c \in Request /\ c.pc = "sent" /\ c.kind = kind
                /\ c.order = o /\ c.row = CreatedRow /\ c.user = u
<1>1. CreatedRow \in Row
  BY DEF CreatedRow, Row, Codes, Null
<1>2. Free \in Request
  BY <1>1 DEF Free, Request, PCs, AllKinds, NoId, Codes
<1> QED
  BY <1>2 DEF Click, Request, PCs, Free

\* Every client action puts such a request in a free slot.
LEMMA ClientSends ==
    ASSUME TypeOK, NEW r \in Requests, ClientNext(r)
    PROVE  \E q : Clicked(q) /\ Send(r, q)
<1>k. \A o \in live : o \in Ids
  BY DEF TypeOK
<1>l. \A o \in live : orders[o].draft \in BOOLEAN
  BY <1>k DEF TypeOK, Row
<1>m. \A o \in live : \A i \in items[o] : i \in Nat
  BY <1>k DEF TypeOK
<1>n. \A kind \in AllKinds, o \in Ids \cup {NoId}, u \in Customers \cup {Nobody} :
         LET c == Click(kind, u, o) IN
         /\ c \in Request /\ c.pc = "sent" /\ c.kind = kind
         /\ c.order = o /\ c.row = CreatedRow /\ c.user = u
  BY ClickType
<1>o. AllKinds = {"new", "add", "edit", "submit", "status", "decide", "address",
                  "reference", "comment", "offer", "blank", "delete", "delitem"}
  BY DEF AllKinds
<1>p. StaffCodes \subseteq Codes /\ Decisions \subseteq Codes
  BY DEF Codes
<1>1. CASE SendNew(r)
  <2> DEFINE c == Click("new", Nobody, NoId)
  <2> DEFINE q == [c EXCEPT !.flag = TRUE]
  <2>1. Send(r, q)
    BY <1>1 DEF SendNew
  <2>2. /\ c \in Request /\ c.pc = "sent" /\ c.kind = "new"
        /\ c.order = NoId /\ c.row = CreatedRow
    BY <1>k, <1>n, <1>o
  <2> HIDE DEF c
  <2>3. Clicked(q)
    BY <2>2 DEF Clicked, Request
  <2> QED
    BY <2>1, <2>3
<1>2. CASE SendAdd(r)
  <2> PICK o \in live :
        Send(r, [Click("add", Nobody, o) EXCEPT !.flag = orders[o].draft])
    BY <1>2 DEF SendAdd
  <2> DEFINE c == Click("add", Nobody, o)
  <2> DEFINE q == [c EXCEPT !.flag = orders[o].draft]
  <2>1. Send(r, q)
    OBVIOUS
  <2>2. /\ c \in Request /\ c.pc = "sent" /\ c.kind = "add"
        /\ c.order = o /\ c.row = CreatedRow
    BY <1>k, <1>n, <1>o
  <2> HIDE DEF c
  <2>3. Clicked(q)
    BY <2>2, <1>l DEF Clicked, Request
  <2> QED
    BY <2>1, <2>3
<1>3. CASE SendEdit(r)
  <2> PICK o \in live : \E i \in items[o] :
        Send(r, [Click("edit", Nobody, o) EXCEPT !.flag = orders[o].draft, !.target = i])
    BY <1>3 DEF SendEdit
  <2> PICK i \in items[o] :
        Send(r, [Click("edit", Nobody, o) EXCEPT !.flag = orders[o].draft, !.target = i])
    OBVIOUS
  <2> DEFINE c == Click("edit", Nobody, o)
  <2> DEFINE q == [c EXCEPT !.flag = orders[o].draft, !.target = i]
  <2>1. Send(r, q)
    OBVIOUS
  <2>2. /\ c \in Request /\ c.pc = "sent" /\ c.kind = "edit"
        /\ c.order = o /\ c.row = CreatedRow
    BY <1>k, <1>n, <1>o
  <2> HIDE DEF c
  <2>3. Clicked(q)
    BY <2>2, <1>l, <1>m DEF Clicked, Request
  <2> QED
    BY <2>1, <2>3
<1>4. CASE SendRemove(r)
  <2> PICK o \in live : \E i \in items[o] :
        Send(r, [Click("delitem", Nobody, o) EXCEPT !.target = i])
    BY <1>4 DEF SendRemove
  <2> PICK i \in items[o] :
        Send(r, [Click("delitem", Nobody, o) EXCEPT !.target = i])
    OBVIOUS
  <2> DEFINE c == Click("delitem", Nobody, o)
  <2> DEFINE q == [c EXCEPT !.target = i]
  <2>1. Send(r, q)
    OBVIOUS
  <2>2. /\ c \in Request /\ c.pc = "sent" /\ c.kind = "delitem"
        /\ c.order = o /\ c.row = CreatedRow
    BY <1>k, <1>n, <1>o
  <2> HIDE DEF c
  <2>3. Clicked(q)
    BY <2>2, <1>m DEF Clicked, Request
  <2> QED
    BY <2>1, <2>3
<1>5. CASE SendDelete(r) \/ SendAddress(r) \/ SendReference(r) \/ SendComment(r)
  <2>1. PICK kind \in {"delete", "address", "reference", "comment"}, o \in live :
           Send(r, Click(kind, Nobody, o))
    BY <1>5 DEF SendDelete, SendAddress, SendReference, SendComment
  <2>2. Clicked(Click(kind, Nobody, o))
    BY <1>k, <1>n, <1>o DEF Clicked
  <2> QED
    BY <2>1, <2>2
<1>6. CASE SendSubmit(r)
  <2>1. PICK u \in Customers, o \in live : Send(r, Click("submit", u, o))
    BY <1>6 DEF SendSubmit
  <2>2. Clicked(Click("submit", u, o))
    BY <1>k, <1>n, <1>o DEF Clicked
  <2> QED
    BY <2>1, <2>2
<1>7. CASE SendStatus(r)
  <2> PICK o \in live, s \in StaffCodes :
        Send(r, [Click("status", Nobody, o) EXCEPT !.code = s])
    BY <1>7 DEF SendStatus
  <2> DEFINE c == Click("status", Nobody, o)
  <2> DEFINE q == [c EXCEPT !.code = s]
  <2>1. Send(r, q)
    OBVIOUS
  <2>2. /\ c \in Request /\ c.pc = "sent" /\ c.kind = "status"
        /\ c.order = o /\ c.row = CreatedRow
    BY <1>k, <1>n, <1>o
  <2> HIDE DEF c
  <2>3. Clicked(q)
    BY <2>2, <1>p DEF Clicked, Request
  <2> QED
    BY <2>1, <2>3
<1>8. CASE SendDecide(r)
  <2> PICK u \in Customers, f \in offers, s \in Decisions :
        /\ f.order \in live /\ orders[f.order].status = "OFR"
        /\ Send(r, [Click("decide", u, f.order) EXCEPT !.code = s, !.target = f.id])
    BY <1>8 DEF SendDecide
  <2> DEFINE c == Click("decide", u, f.order)
  <2> DEFINE q == [c EXCEPT !.code = s, !.target = f.id]
  <2>1. Send(r, q)
    OBVIOUS
  <2>2. /\ c \in Request /\ c.pc = "sent" /\ c.kind = "decide"
        /\ c.order = f.order /\ c.row = CreatedRow /\ c.user = u
    BY <1>k, <1>n, <1>o
  <2> HIDE DEF c
  <2>n. f.id \in Nat
    BY DEF TypeOK, Offer
  <2>q. /\ q \in Request /\ q.pc = "sent" /\ q.kind = "decide" /\ q.user = u
        /\ q.order = f.order /\ q.row = CreatedRow /\ q.code = s /\ q.target = f.id
    BY <2>2, <1>p, <2>n DEF Request
  <2> HIDE DEF q
  <2>3. Clicked(q)
    BY <2>q DEF Clicked
  <2> QED
    BY <2>1, <2>3
<1>9. CASE SendOffer(r)
  <2>1. PICK o \in live : /\ orders[o].status \in {"PEN", "REF"}
                          /\ Send(r, Click("offer", Nobody, o))
    BY <1>9 DEF SendOffer
  <2>2. Clicked(Click("offer", Nobody, o))
    BY <1>k, <1>n, <1>o, <2>1 DEF Clicked
  <2> QED
    BY <2>1, <2>2
<1>10. CASE SendBlank(r)
  <2> PICK ref \in BOOLEAN :
        Send(r, [Click("blank", Nobody, NoId) EXCEPT !.flag = ref])
    BY <1>10 DEF SendBlank
  <2> DEFINE c == Click("blank", Nobody, NoId)
  <2> DEFINE q == [c EXCEPT !.flag = ref]
  <2>1. Send(r, q)
    OBVIOUS
  <2>2. /\ c \in Request /\ c.pc = "sent" /\ c.kind = "blank"
        /\ c.order = NoId /\ c.row = CreatedRow
    BY <1>k, <1>n, <1>o
  <2> HIDE DEF c
  <2>3. Clicked(q)
    BY <2>2 DEF Clicked, Request
  <2> QED
    BY <2>1, <2>3
<1> QED
  BY <1>1, <1>2, <1>3, <1>4, <1>5, <1>6, <1>7, <1>8, <1>9, <1>10 DEF ClientNext

LEMMA ClientType ==
    ASSUME TypeInv, NEW r \in Requests, ClientNext(r)
    PROVE  TypeInv'
<1>1. PICK q : Clicked(q) /\ Send(r, q)
  BY ClientSends DEF TypeInv
<1>2. TypeOK'
  <2>1. req' \in [Requests -> Request]
    BY <1>1 DEF Send, TypeInv, TypeOK, Clicked
  <2>2. sent' \in 0 .. MaxRequests
    BY <1>1, BoundsAssumption DEF Send, TypeInv, TypeOK
  <2> QED
    BY <1>1, <2>1, <2>2 DEF Send, TypeInv, TypeOK, db
<1>3. WellFormed'
  BY <1>1 DEF Send, TypeInv, TypeOK, WellFormed, Active, Clicked
<1> QED
  BY <1>2, <1>3 DEF TypeInv

\* The two kinds of request that create an order.
LEMMA CreateType ==
    ASSUME TypeInv, NEW r \in Requests, NEW kind \in {"new", "blank"},
           NEW created \in Row, NEW held \in Row,
           NEW pc \in PCs \ {"free", "sent", "decide"},
           CreateOrder(r, kind, created, held, pc),
           marks' \in [Ids -> SUBSET Marks]
    PROVE  TypeInv'
<1>1. nextOrder \in Ids /\ nextOrder + 1 \in Nat \ {0}
  BY BoundsAssumption DEF CreateOrder, RoomForOrder, TypeInv, TypeOK, Ids
<1>2. req' \in [Requests -> Request]
  <2>1. [req[r] EXCEPT !.pc = pc, !.order = nextOrder, !.row = held] \in Request
    BY <1>1 DEF TypeInv, TypeOK, Request
  <2>2. req' = [req EXCEPT ![r] = [req[r] EXCEPT !.pc = pc, !.order = nextOrder,
                                                 !.row = held]]
    BY DEF CreateOrder, TypeInv, TypeOK, Request
  <2> QED
    BY <2>1, <2>2 DEF TypeInv, TypeOK
<1>3. orders' \in [Ids -> Row] /\ live' \subseteq Ids
  BY <1>1 DEF CreateOrder, TypeInv, TypeOK
<1>4. TypeOK'
  BY <1>1, <1>2, <1>3 DEF CreateOrder, TypeInv, TypeOK
<1>5. WellFormed'
  BY <1>1 DEF CreateOrder, TypeInv, TypeOK, WellFormed, Active, Request
<1> QED
  BY <1>4, <1>5 DEF TypeInv

\* The history marks keep their type.
LEMMA MarkedType ==
    ASSUME TypeOK, NEW o, NEW hazards \in SUBSET Marks
    PROVE  /\ Marked(o, hazards) \in [Ids -> SUBSET Marks]
           /\ Overlap(o) \in SUBSET Marks
  BY DEF TypeOK, Marked, Overlap, Marks

\* A slot that is freed or moved to another statement stays well formed.
LEMMA SlotType ==
    ASSUME TypeInv, NEW r \in Requests, Active(r),
           \/ req' = [req EXCEPT ![r] = Free]
           \/ \E pc \in PCs : /\ Goto(r, pc)
                              /\ pc = "decide" => req[r].kind = "decide"
    PROVE  req' \in [Requests -> Request] /\ WellFormed'
<1>1. Free \in Request /\ Free.pc = "free" /\ Free.kind = "new"
  BY ClickType DEF Free, AllKinds, NoId
<1>2. CASE req' = [req EXCEPT ![r] = Free]
  BY <1>1, <1>2 DEF TypeInv, TypeOK, WellFormed, Active
<1>3. ASSUME NEW pc \in PCs, Goto(r, pc), pc # "free",
             pc = "decide" => req[r].kind = "decide"
      PROVE  req' \in [Requests -> Request] /\ WellFormed'
  <2>1. req' = [req EXCEPT ![r] = [req[r] EXCEPT !.pc = pc]]
    BY <1>3 DEF Goto
  <2>2. [req[r] EXCEPT !.pc = pc] \in Request
    BY DEF TypeInv, TypeOK, Request
  <2>3. req[r].order \in Ids
    BY DEF TypeInv, WellFormed
  <2> QED
    BY <1>3, <2>1, <2>2, <2>3 DEF TypeInv, TypeOK, WellFormed, Active, Request
<1> QED
  BY <1>2, <1>3 DEF Goto

\* order.save() keeps the types.
LEMMA SaveRowType ==
    ASSUME TypeInv, NEW r \in Requests, Active(r), SaveRow(r)
    PROVE  live' \subseteq Ids /\ orders' \in [Ids -> Row]
           /\ marks' \in [Ids -> SUBSET Marks]
<1>1. req[r].order \in Ids /\ req[r].row \in Row
  BY DEF TypeInv, TypeOK, WellFormed, Request
<1>2. marks' \in [Ids -> SUBSET Marks]
  BY MarkedType DEF SaveRow, TypeInv, Marks
<1> QED
  BY <1>1, <1>2 DEF SaveRow, TypeInv, TypeOK

LEMMA ServerType ==
    ASSUME TypeInv, NEW r \in Requests, ServerNext(r)
    PROVE  TypeInv'
<1>q. /\ req[r] \in Request /\ req[r].row \in Row /\ req[r].flag \in BOOLEAN
      /\ req[r].target \in Nat
  BY DEF TypeInv, TypeOK, Request
<1>a. Active(r) => req[r].order \in Ids
  BY DEF TypeInv, WellFormed
<1>f. /\ Free \in Request /\ Free.pc = "free" /\ Free.kind = "new"
      /\ CreatedRow \in Row /\ BlankCreatedRow \in Row
  BY ClickType, RowTypes, <1>q DEF Free, AllKinds, NoId
<1>1. CASE ReceiveNew(r)
  <2>1. RequestRow(CreatedRow) \in Row
    BY <1>f, RowTypes
  <2>2. marks' \in [Ids -> SUBSET Marks]
    BY <1>1 DEF ReceiveNew, TypeInv, TypeOK
  <2> QED
    BY <1>1, <1>f, <2>1, <2>2, CreateType DEF ReceiveNew, PCs
<1>2. CASE ReceiveBlank(r)
  <2>1. OfferedRow(BlankRow(BlankCreatedRow, req[r].flag)) \in Row
    BY <1>f, <1>q, RowTypes
  <2>2. marks' \in [Ids -> SUBSET Marks]
    BY <1>2, MarkedType DEF ReceiveBlank, TypeInv, Marks
  <2> QED
    BY <1>2, <1>f, <2>1, <2>2, CreateType DEF ReceiveBlank, PCs
<1>3. CASE Load(r)
  <2> DEFINE q == req[r]
             pc == FirstStep(q, orders[q.order])
             row == Effect(q, orders[q.order])
  <2>1. q.order \in Ids
    BY <1>3 DEF Load, Found, TypeInv, TypeOK
  <2>2. row \in Row
    BY <1>q, <2>1, EffectType DEF TypeInv, TypeOK
  <2>3. pc \in PCs \ {"free", "sent"} /\ (pc = "decide" => q.kind = "decide")
    BY DEF FirstStep, PCs
  <2>4. marks' \in [Ids -> SUBSET Marks]
    BY <1>3, MarkedType DEF Load, TypeInv
  <2>5. req' = [req EXCEPT ![r] = [q EXCEPT !.pc = pc, !.row = row]]
    BY <1>3, <1>q DEF Load, TypeInv, TypeOK, Request
  <2> HIDE DEF pc, row
  <2>6. [q EXCEPT !.pc = pc, !.row = row] \in Request
    BY <1>q, <2>2, <2>3 DEF Request
  <2>7. req' \in [Requests -> Request]
    BY <2>5, <2>6 DEF TypeInv, TypeOK
  <2>8. TypeOK'
    BY <1>3, <2>4, <2>7 DEF Load, TypeInv, TypeOK, db
  <2>9. WellFormed'
    BY <2>1, <2>3, <2>5, <2>6 DEF WellFormed, Active, TypeInv, TypeOK, Request
  <2> QED
    BY <2>8, <2>9 DEF TypeInv
<1>4. CASE DeleteOrder(r)
  <2> DEFINE o == req[r].order
  <2>1. o \in Ids
    BY <1>4 DEF DeleteOrder, Found, TypeInv, TypeOK
  <2>2. marks' \in [Ids -> SUBSET Marks]
    <3>1. {"deleted"} \cup Overlap(o) \in SUBSET Marks
      BY DEF Overlap, Marks
    <3> QED
      BY <1>4, <3>1, MarkedType DEF DeleteOrder, TypeInv
  <2>3. TypeOK'
    BY <1>4, <1>f, <2>1, <2>2 DEF DeleteOrder, TypeInv, TypeOK
  <2>4. WellFormed'
    BY <1>4, <1>f DEF DeleteOrder, TypeInv, TypeOK, WellFormed, Active
  <2> QED
    BY <2>3, <2>4 DEF TypeInv
<1>5. CASE RemoveItem(r)
  <2>1. marks' \in [Ids -> SUBSET Marks]
    BY <1>5, MarkedType DEF RemoveItem, TypeInv
  <2>2. TypeOK'
    BY <1>5, <1>f, <2>1 DEF RemoveItem, TypeInv, TypeOK
  <2>3. WellFormed'
    BY <1>5, <1>f DEF RemoveItem, TypeInv, TypeOK, WellFormed, Active
  <2> QED
    BY <2>2, <2>3 DEF TypeInv
<1>6. CASE Refuse(r)
  <2>1. TypeOK'
    BY <1>6, <1>f DEF Refuse, TypeInv, TypeOK, db
  <2>2. WellFormed'
    BY <1>6, <1>f DEF Refuse, TypeInv, TypeOK, WellFormed, Active
  <2> QED
    BY <2>1, <2>2 DEF TypeInv
<1>7. CASE SaveNew(r)
  <2>1. Active(r)
    BY <1>7 DEF SaveNew, At, Active
  <2>2. [req[r] EXCEPT !.pc = "saveDraft", !.row = [@ EXCEPT !.draft = req[r].flag]] \in Request
    BY <1>q DEF Request, Row, PCs
  <2>3. req' \in [Requests -> Request]
    BY <1>7, <2>2 DEF SaveNew, TypeInv, TypeOK, Request
  <2>4. TypeOK'
    BY <1>7, <2>1, <2>3, SaveRowType DEF SaveNew, TypeInv, TypeOK
  <2>5. WellFormed'
    BY <1>7, <1>a, <2>1, <1>q DEF SaveNew, TypeInv, TypeOK, WellFormed, Active, Request
  <2> QED
    BY <2>4, <2>5 DEF TypeInv
<1>8. CASE SaveDraft(r)
  <2>1. Active(r)
    BY <1>8 DEF SaveDraft, At, Active
  <2>2. req' \in [Requests -> Request] /\ WellFormed'
    BY <1>8, <2>1, SlotType DEF SaveDraft, PCs
  <2> QED
    BY <1>8, <2>1, <2>2, SaveRowType DEF SaveDraft, TypeInv, TypeOK
<1>9. CASE SaveItem(r)
  <2>1. Active(r)
    BY <1>9 DEF SaveItem, At, Active
  <2>2. req' \in [Requests -> Request] /\ WellFormed'
    BY <1>9, <2>1, SlotType DEF SaveItem, PCs
  <2>3. items' \in [Ids -> SUBSET Nat] /\ nextItem' \in Nat \ {0}
    BY <1>9, <1>q DEF SaveItem, TypeInv, TypeOK
  <2> QED
    BY <1>9, <2>2, <2>3 DEF SaveItem, TypeInv, TypeOK
<1>10. CASE Announce(r)
  <2> DEFINE q == req[r]
             entry == [order |-> q.order, action |-> Announcement(q),
                       status |-> q.row.status,
                       version |-> IF q.kind \in {"offer", "blank"}
                                   THEN q.row.fv ELSE q.row.ov]
  <2>1. Active(r)
    BY <1>10 DEF Announce, At, Active
  <2>2. AfterAnnounce(q) \in PCs /\ AfterAnnounce(q) # "decide"
    BY DEF AfterAnnounce, PCs
  <2>3. req' \in [Requests -> Request] /\ WellFormed'
    BY <1>10, <2>1, <2>2, SlotType DEF Announce
  <2>4. Announcement(q) \in Actions
    BY DEF Announcement, Actions
  <2>5. entry \in [order : Ids, action : Actions, status : Codes,
                   version : Nat \cup {Null}]
    BY <1>q, <1>a, <2>1, <2>4 DEF Row
  <2> HIDE DEF entry
  <2>6. logs' \in Seq([order : Ids, action : Actions, status : Codes,
                       version : Nat \cup {Null}])
    <3>1. logs' = Append(logs, entry)
      BY <1>10 DEF Announce, entry
    <3> QED
      BY <2>5, <3>1 DEF TypeInv, TypeOK
  <2> QED
    BY <1>10, <2>3, <2>6 DEF Announce, TypeInv, TypeOK, db
<1>11. CASE Mail(r)
  <2> DEFINE q == req[r]
             task == [order |-> q.order, status |-> q.row.status,
                      fv |-> q.row.fv, addr |-> q.row.addr,
                      ref |-> q.row.ref]
  <2>1. Active(r)
    BY <1>11 DEF Mail, At, Active
  <2>2. AfterMail(q) \in PCs /\ (AfterMail(q) = "decide" => q.kind = "decide")
    BY DEF AfterMail, PCs
  <2>3. req' \in [Requests -> Request] /\ WellFormed'
    BY <1>11, <2>1, <2>2, SlotType DEF Mail
  <2>4. task \in Task
    <3>1. q.row \in Row /\ q.order \in Ids
      BY <1>q, <1>a, <2>1 DEF Request
    <3> QED
      BY <3>1 DEF Task, Row
  <2> HIDE DEF task
  <2>5. tasks' \in Seq(Task)
    <3>1. tasks' = Append(tasks, task)
      BY <1>11 DEF Mail, task
    <3> QED
      BY <2>4, <3>1 DEF TypeInv, TypeOK
  <2> QED
    BY <1>11, <2>3, <2>5 DEF Mail, TypeInv, TypeOK, db
<1>12. CASE Decide(r)
  <2>1. Active(r)
    BY <1>12 DEF Decide, At, Active
  <2>2. req' \in [Requests -> Request] /\ WellFormed'
    BY <1>12, <2>1, SlotType DEF Decide, PCs
  <2>3. offers' \subseteq Offer
    <3>1. req[r].code \in Decisions
      BY <1>12 DEF Decide, At, TypeInv, WellFormed
    <3> QED
      BY <1>12, <3>1 DEF Decide, Offer, TypeInv, TypeOK
  <2> QED
    BY <1>12, <2>2, <2>3 DEF Decide, TypeInv, TypeOK
<1>13. CASE Save(r)
  <2>1. Active(r)
    BY <1>13 DEF Save, At, Active
  <2>2. req' \in [Requests -> Request] /\ WellFormed'
    BY <1>13, <2>1, SlotType DEF Save, PCs
  <2> QED
    BY <1>13, <2>1, <2>2, SaveRowType DEF Save, TypeInv, TypeOK
<1>14. CASE CreateOffer(r)
  <2>1. Active(r)
    BY <1>14 DEF CreateOffer, At, Active
  <2>2. nextOffer \in Nat /\ nextOffer + 1 \in Nat \ {0}
    BY DEF TypeInv, TypeOK
  <2>3. req' \in [Requests -> Request]
    <3>1. [req[r] EXCEPT !.pc = "offerItems", !.target = nextOffer] \in Request
      BY <1>q, <2>2 DEF Request, PCs
    <3>2. req' = [req EXCEPT ![r] = [req[r] EXCEPT !.pc = "offerItems",
                                                   !.target = nextOffer]]
      BY <1>14, <1>q DEF CreateOffer, TypeInv, TypeOK, Request
    <3> QED
      BY <3>1, <3>2 DEF TypeInv, TypeOK
  <2>4. offers' \subseteq Offer /\ nextOffer' \in Nat \ {0}
    <3>1. [id |-> nextOffer, order |-> req[r].order, version |-> req[r].row.fv,
           approval |-> "WAP", complete |-> FALSE] \in Offer
      BY <1>q, <1>a, <2>1, <2>2 DEF Offer, Row
    <3> QED
      BY <1>14, <2>2, <3>1 DEF CreateOffer, TypeInv, TypeOK
  <2>5. WellFormed'
    BY <1>14, <1>a, <2>1 DEF CreateOffer, TypeInv, TypeOK, WellFormed, Active, Request
  <2> QED
    BY <1>14, <2>3, <2>4, <2>5 DEF CreateOffer, TypeInv, TypeOK
<1>15. CASE CreateOfferItems(r)
  <2>1. Active(r)
    BY <1>15 DEF CreateOfferItems, At, Active
  <2>2. req' \in [Requests -> Request] /\ WellFormed'
    BY <1>15, <2>1, SlotType DEF CreateOfferItems, PCs
  <2>3. offers' \subseteq Offer
    BY <1>15 DEF CreateOfferItems, Offer, TypeInv, TypeOK
  <2> QED
    BY <1>15, <2>2, <2>3 DEF CreateOfferItems, TypeInv, TypeOK
<1>16. CASE Abort(r)
  <2>1. req' \in [Requests -> Request] /\ WellFormed'
    BY <1>16, SlotType DEF Abort
  <2>2. marks' \in [Ids -> SUBSET Marks]
    BY <1>16, MarkedType DEF Abort, TypeInv, Marks
  <2> QED
    BY <1>16, <2>1, <2>2 DEF Abort, TypeInv, TypeOK, db
<1> QED
  BY <1>1, <1>2, <1>3, <1>4, <1>5, <1>6, <1>7, <1>8, <1>9, <1>10, <1>11, <1>12,
     <1>13, <1>14, <1>15, <1>16 DEF ServerNext

LEMMA InitType == Init => TypeInv
<1> SUFFICES ASSUME Init PROVE TypeInv
  OBVIOUS
<1>1. /\ Free \in Request /\ Free.pc = "free" /\ Free.kind = "new"
      /\ CreatedRow \in Row
  BY ClickType DEF Free, AllKinds, NoId, Request
<1>2. TypeOK
  BY <1>1, BoundsAssumption DEF Init, TypeOK
<1>3. WellFormed
  BY <1>1 DEF Init, WellFormed, Active
<1> QED
  BY <1>2, <1>3 DEF TypeInv

LEMMA NextType == TypeInv /\ [Next]_vars => TypeInv'
<1> SUFFICES ASSUME TypeInv, [Next]_vars PROVE TypeInv'
  OBVIOUS
<1>1. CASE Next
  BY <1>1, ClientType, ServerType DEF Next
<1>2. CASE UNCHANGED vars
  BY <1>2 DEF vars, TypeInv, TypeOK, WellFormed, Active
<1> QED
  BY <1>1, <1>2

\* Types hold in every reachable state: no column, counter, log entry or task
\* of the order core ever gets a value outside its domain; offer_version and
\* order_version in particular never become negative (TypeOK).
THEOREM TypeCorrect == Spec => []TypeOK
<1>1. TypeInv => TypeOK
  BY DEF TypeInv
<1> QED
  BY <1>1, InitType, NextType, PTL DEF Spec

-----------------------------------------------------------------------------
(* Consistent rows *)

\* The rows the handlers start from are consistent.
LEMMA FirstRowsConsistent ==
    /\ Consistent(CreatedRow) /\ Consistent(BlankCreatedRow)
    /\ Consistent(RequestRow(CreatedRow))
    /\ \A ref \in BOOLEAN :
          Consistent(OfferedRow(BlankRow(BlankCreatedRow, ref)))
<1> USE StaffCodesAssumption DEF Consistent, CreatedRow, Decisions, Null
<1>1. Consistent(CreatedRow)
  OBVIOUS
<1>2. Consistent(BlankCreatedRow)
  BY DEF BlankCreatedRow
<1>3. Consistent(RequestRow(CreatedRow))
  BY DEF RequestRow
<1>4. \A ref \in BOOLEAN : Consistent(OfferedRow(BlankRow(BlankCreatedRow, ref)))
  BY DEF OfferedRow, BlankRow, BlankCreatedRow
<1> QED
  BY <1>1, <1>2, <1>3, <1>4

\* Consistency does not depend on the columns the other requests change.
LEMMA OtherColumns ==
    ASSUME NEW row \in Row, Consistent(row), NEW b \in BOOLEAN
    PROVE  /\ Consistent([row EXCEPT !.draft = b])
           /\ Consistent([row EXCEPT !.addr = b])
           /\ Consistent([row EXCEPT !.ref = b])
  BY DEF Consistent, Row

\* A handler that has found the row makes a consistent row of a consistent
\* one.  Where the null order_version raises TypeError it matters: counted
\* from null, the order's version would fall behind its offers'.
LEMMA EffectConsistent ==
    ASSUME NEW q \in Request, NEW row \in Row, Consistent(row),
           ~NullVersionRaises(q, row),
           q.kind = "status" => q.code \in StaffCodes,
           q.kind = "decide" => q.code \in Decisions
    PROVE  Consistent(Effect(q, row))
<1>s. /\ {"PEN", "OFR", "APN", "WRQ"} \cap (StaffCodes \cup Decisions) = {}
      /\ StaffCodes \cap Decisions = {}
  BY StaffCodesAssumption DEF Decisions
<1>1. CASE q.kind = "submit"
  <2>1. Effect(q, row) = SubmittedRow(row, q.user)
    BY <1>1 DEF Effect
  <2>2. CASE q.user \in Managers
    <3>1. row.ov # Null
      BY <1>1, <2>2 DEF NullVersionRaises
    <3> QED
      BY <1>s, <2>1, <2>2, <3>1 DEF SubmittedRow, Consistent, Row, Null
  <2>3. CASE q.user \notin Managers
    BY <1>s, <2>1, <2>3 DEF SubmittedRow, Consistent, Row
  <2> QED
    BY <2>2, <2>3
<1>2. CASE q.kind = "status"
  <2>1. Effect(q, row) = StaffStatusRow(row, q.code)
    BY <1>2 DEF Effect
  <2> QED
    BY <1>s, <1>2, <2>1 DEF StaffStatusRow, Consistent, Row
<1>3. CASE q.kind = "decide"
  <2>1. Effect(q, row) = DecidedRow(row, q.code, q.user)
    BY <1>3 DEF Effect
  <2> QED
    BY <1>s, <1>3, <2>1 DEF DecidedRow, Consistent, Row
<1>4. CASE q.kind = "offer"
  <2>1. Effect(q, row) = OfferedRow(row)
    BY <1>4 DEF Effect
  <2>2. row.fv >= 1 => row.ov # Null
    BY <1>4 DEF NullVersionRaises
  <2> QED
    BY <1>s, <2>1, <2>2 DEF OfferedRow, Consistent, Row, Null
<1>5. CASE q.kind \in {"address", "reference", "edit"}
  <2>1. q.flag \in BOOLEAN
    BY DEF Request
  <2> QED
    BY <1>5, <2>1, OtherColumns DEF Effect
<1>6. CASE q.kind \notin {"submit", "status", "decide", "offer", "address",
                          "reference", "edit"}
  BY <1>6 DEF Effect
<1> QED
  BY <1>1, <1>2, <1>3, <1>4, <1>5, <1>6

\* The rows in the table and the rows the handlers hold in memory.
AllConsistent ==
    /\ \A o \in Ids : Consistent(orders[o])
    /\ \A r \in Requests : Consistent(req[r].row)

LEMMA ConsistentStep ==
    ASSUME TypeInv, AllConsistent, Next
    PROVE  AllConsistent'
<1>r. PICK r \in Requests : ClientNext(r) \/ ServerNext(r)
  BY DEF Next
<1>t. /\ req \in [Requests -> Request] /\ orders \in [Ids -> Row]
      /\ req[r].row \in Row /\ req[r].flag \in BOOLEAN
  BY DEF TypeInv, TypeOK, Request
<1>f. Free.row = CreatedRow
  BY DEF Free
<1>1. CASE ClientNext(r)
  <2>1. PICK q : Clicked(q) /\ Send(r, q)
    BY <1>1, ClientSends DEF TypeInv
  <2> QED
    BY <1>t, <2>1, FirstRowsConsistent DEF Send, Clicked, db, AllConsistent
<1>2. CASE ReceiveNew(r) \/ ReceiveBlank(r)
  <2>1. \E created, held, pc :
           /\ Consistent(created) /\ Consistent(held)
           /\ orders' = [orders EXCEPT ![nextOrder] = created]
           /\ req' = [req EXCEPT ![r].pc = pc, ![r].order = nextOrder,
                                 ![r].row = held]
    <3>1. CASE ReceiveNew(r)
      BY <3>1, FirstRowsConsistent DEF ReceiveNew, CreateOrder
    <3>2. CASE ReceiveBlank(r)
      BY <1>t, <3>2, FirstRowsConsistent DEF ReceiveBlank, CreateOrder
    <3> QED
      BY <1>2, <3>1, <3>2
  <2> QED
    BY <1>t, <2>1 DEF AllConsistent, Request
<1>3. CASE Load(r)
  <2> DEFINE q == req[r]
  <2>1. q.order \in Ids
    BY <1>3 DEF Load, Found, TypeInv, TypeOK
  <2>2. Consistent(Effect(q, orders[q.order]))
    BY <1>3, <1>t, <2>1, EffectConsistent
       DEF Load, Found, TypeInv, WellFormed, AllConsistent
  <2>3. /\ \A s \in Requests : req'[s].row = req[s].row
                               \/ req'[s].row = Effect(q, orders[q.order])
        /\ orders' = orders
    BY <1>3, <1>t DEF Load, db, Request
  <2> QED
    BY <2>2, <2>3 DEF AllConsistent
<1>4. CASE DeleteOrder(r)
  BY <1>4, <1>t, <1>f, FirstRowsConsistent DEF DeleteOrder, AllConsistent
<1>5. CASE SaveNew(r)
  <2>1. Consistent([req[r].row EXCEPT !.draft = req[r].flag])
    BY <1>t, OtherColumns DEF AllConsistent
  <2>2. /\ \A s \in Requests :
              \/ req'[s].row = req[s].row
              \/ req'[s].row = [req[r].row EXCEPT !.draft = req[r].flag]
        /\ \A o \in Ids : orders'[o] \in {orders[o], req[r].row}
    BY <1>5, <1>t DEF SaveNew, SaveRow, Request
  <2> QED
    BY <2>1, <2>2 DEF AllConsistent
<1>6. CASE SaveDraft(r) \/ Save(r)
  <2>1. /\ \A s \in Requests : req'[s].row \in {req[s].row, CreatedRow}
        /\ \A o \in Ids : orders'[o] \in {orders[o], req[r].row}
    BY <1>6, <1>t, <1>f DEF SaveDraft, Save, SaveRow, Goto, Request
  <2> QED
    BY <2>1, FirstRowsConsistent DEF AllConsistent
<1>7. CASE RemoveItem(r) \/ Refuse(r) \/ SaveItem(r) \/ Announce(r) \/ Mail(r)
           \/ Decide(r) \/ CreateOffer(r) \/ CreateOfferItems(r) \/ Abort(r)
  <2>1. orders' = orders
    BY <1>7 DEF RemoveItem, Refuse, SaveItem, Announce, Mail, Decide, CreateOffer,
                CreateOfferItems, Abort, db
  <2>2. \A s \in Requests : req'[s].row \in {req[s].row, CreatedRow}
    <3>1. CASE RemoveItem(r) \/ Refuse(r) \/ Abort(r)
      BY <1>t, <1>f, <3>1 DEF RemoveItem, Refuse, Abort
    <3>2. CASE CreateOffer(r)
      BY <1>t, <3>2 DEF CreateOffer, Request
    <3>3. ASSUME NEW pc, Goto(r, pc)
          PROVE  \A s \in Requests : req'[s].row \in {req[s].row, CreatedRow}
      BY <1>t, <1>f, <3>3 DEF Goto, Request
    <3> QED
      BY <1>7, <3>1, <3>2, <3>3
         DEF SaveItem, Announce, Mail, Decide, CreateOfferItems
  <2> QED
    BY <2>1, <2>2, FirstRowsConsistent DEF AllConsistent
<1> QED
  BY <1>r, <1>1, <1>2, <1>3, <1>4, <1>5, <1>6, <1>7 DEF ServerNext

LEMMA ConsistentInvariant == Spec => [](TypeInv /\ AllConsistent)
<1>1. Init => TypeInv /\ AllConsistent
  <2> SUFFICES ASSUME Init PROVE AllConsistent
    BY InitType
  <2> QED
    BY FirstRowsConsistent DEF Init, AllConsistent, Free
<1>2. TypeInv /\ AllConsistent /\ [Next]_vars => (TypeInv /\ AllConsistent)'
  <2> SUFFICES ASSUME TypeInv, AllConsistent, [Next]_vars
               PROVE  AllConsistent'
    BY NextType
  <2>1. CASE UNCHANGED vars
    BY <2>1 DEF vars, AllConsistent
  <2> QED
    BY <2>1, ConsistentStep
<1> QED
  BY <1>1, <1>2, PTL DEF Spec

\* One row tells one story, with any number of web workers saving over each
\* other and stopping half way (RowsConsistent).  The invariant speaks of the
\* rows in memory too: a save writes a whole row that was consistent when it
\* was made, which is why lost updates never mix columns.
THEOREM RowsStayConsistent == Spec => []RowsConsistent
<1>1. TypeInv /\ AllConsistent => RowsConsistent
  BY DEF TypeInv, TypeOK, AllConsistent, RowsConsistent
<1> QED
  BY <1>1, ConsistentInvariant, PTL

-----------------------------------------------------------------------------
(* No offer before the approval *)

\* The statuses an order has only after it was submitted to Optiz, or because
\* Optiz made it.
Dealt == {"PEN", "OFR"} \cup Decisions

\* The warrant of order o for everything that could lead to an offer: the row
\* in the table, the requests sent from pages that showed such a row, and the
\* rows in memory, except in a manager's submission that is yet to be logged.
WarrantInv(o) ==
    /\ orders[o].status \in Dealt => Warranted(o)
    /\ OffersOf(o) # {} => Warranted(o)
    /\ \A r \in Requests : req[r].order = o =>
         /\ req[r].pc # "free" /\ req[r].kind \in {"offer", "decide"}
              => Warranted(o)
         /\ Active(r) /\ req[r].kind = "blank" => Warranted(o)
         /\ Active(r) /\ req[r].row.status \in Dealt
              => \/ Warranted(o)
                 \/ /\ req[r].pc = "announce" /\ req[r].kind = "submit"
                    /\ req[r].user \in Managers

\* Only offers reach the step that creates an offer.
OfferSteps == \A r \in Requests :
    req[r].pc = "offerRow" => req[r].kind \in {"offer", "blank"}

\* What has been logged and marked stays so.
LEMMA WarrantStays ==
    ASSUME TypeInv, Next, NEW o \in Ids, Warranted(o)
    PROVE  Warranted(o)'
<1>r. PICK r \in Requests : ClientNext(r) \/ ServerNext(r)
  BY DEF Next
<1>t. /\ marks \in [Ids -> SUBSET Marks]
      /\ logs \in Seq([order : Ids, action : Actions, status : Codes,
                       version : Nat \cup {Null}])
  BY DEF TypeInv, TypeOK
<1>1. marks[o] \subseteq marks'[o]
  <2>1. CASE ClientNext(r)
    BY <2>1, ClientSends DEF TypeInv, Send
  <2>2. CASE ServerNext(r)
    <3>1. marks' = marks \/ \E p, hazards : marks' = Marked(p, hazards)
      BY <2>2 DEF ServerNext, ReceiveNew, ReceiveBlank, Load, DeleteOrder,
         RemoveItem, Refuse, SaveNew, SaveDraft, SaveItem, Announce, Mail, Decide,
         Save, SaveRow, CreateOffer, CreateOfferItems, Abort
    <3> QED
      BY <1>t, <3>1 DEF Marked
  <2> QED
    BY <1>r, <2>1, <2>2
<1>2. logs' = logs \/ \E e : logs' = Append(logs, e)
  <2>1. CASE ClientNext(r)
    BY <2>1, ClientSends DEF TypeInv, Send
  <2>2. CASE Announce(r)
    BY <2>2 DEF Announce
  <2>3. CASE ServerNext(r) /\ ~Announce(r)
    BY <2>3 DEF ServerNext, ReceiveNew, ReceiveBlank, CreateOrder, Load,
       DeleteOrder, RemoveItem, Refuse, SaveNew, SaveDraft, SaveItem, Mail,
       Decide, Save, CreateOffer, CreateOfferItems, Abort
  <2> QED
    BY <1>r, <2>1, <2>2, <2>3
<1>3. CASE "blank" \in marks[o]
  BY <1>1, <1>3 DEF Warranted
<1>4. CASE Approved(o)
  <2>1. PICK i \in DOMAIN logs :
           logs[i].order = o /\ logs[i].action = "request submitted"
    BY <1>4 DEF Approved
  <2>2. i \in DOMAIN logs' /\ logs'[i] = logs[i]
    BY <1>2, <1>t
  <2> QED
    BY <2>1, <2>2 DEF Warranted, Approved
<1> QED
  BY <1>3, <1>4 DEF Warranted

\* How a handler can come to hold a row with such a status.
LEMMA EffectStatus ==
    ASSUME NEW q \in Request, NEW row \in Row,
           q.kind = "status" => q.code \in StaffCodes,
           Effect(q, row).status \in Dealt
    PROVE  \/ row.status \in Dealt
           \/ q.kind \in {"offer", "decide"}
           \/ q.kind = "submit" /\ q.user \in Managers
<1>s. Dealt \cap StaffCodes = {} /\ "APN" \notin Dealt
  BY StaffCodesAssumption DEF Dealt, Decisions
<1>1. CASE q.kind = "submit"
  BY <1>s, <1>1 DEF Effect, SubmittedRow, Row
<1>2. CASE q.kind = "status"
  BY <1>s, <1>2 DEF Effect, StaffStatusRow, Row
<1>3. CASE q.kind \in {"address", "reference", "edit"}
  BY <1>3 DEF Effect, Row
<1>4. CASE q.kind \notin {"submit", "status", "decide", "offer", "address",
                          "reference", "edit"}
  BY <1>4 DEF Effect
<1> QED
  BY <1>1, <1>2, <1>3, <1>4

\* Each action keeps the warrant of every order.
LEMMA WarrantStep ==
    ASSUME TypeInv, OfferSteps, Next, NEW o \in Ids, WarrantInv(o)
    PROVE  WarrantInv(o)'
<1>r. PICK r \in Requests : ClientNext(r) \/ ServerNext(r)
  BY DEF Next
<1>t. /\ req \in [Requests -> Request] /\ orders \in [Ids -> Row]
      /\ offers \subseteq Offer /\ req[r] \in Request
  BY DEF TypeInv, TypeOK
<1>w. Warranted(o) => Warranted(o)'
  BY WarrantStays
<1>f. Free.pc = "free" /\ Free.order = NoId /\ NoId # o
  BY DEF Free, NoId, Ids
<1>d. "WRQ" \notin Dealt
  BY DEF Dealt, Decisions
<1> DEFINE Quietly(s) ==   \* slot s holds the same request, or less of it
             \/ req'[s] = req[s]
             \/ req'[s] = Free
             \/ /\ Active(s) /\ req'[s].pc \notin {"free", "sent"}
                /\ req'[s].order = req[s].order /\ req'[s].kind = req[s].kind
                /\ req'[s].row.status = req[s].row.status
                /\ req[s].pc # "announce"
<1>q. ASSUME \A s \in Requests : Quietly(s),
             orders'[o].status = orders[o].status
               \/ orders'[o].status \notin Dealt \/ Warranted(o),
             OffersOf(o)' # {} => OffersOf(o) # {} \/ Warranted(o)
      PROVE  WarrantInv(o)'
  <2>1. (orders[o].status \in Dealt => Warranted(o))'
    BY <1>q, <1>w DEF WarrantInv
  <2>2. (OffersOf(o) # {} => Warranted(o))'
    BY <1>q, <1>w DEF WarrantInv
  <2>3. ASSUME NEW s \in Requests, req'[s].order = o
        PROVE  /\ req'[s].pc # "free" /\ req'[s].kind \in {"offer", "decide"}
                    => Warranted(o)'
               /\ Active(s)' /\ req'[s].kind = "blank" => Warranted(o)'
               /\ Active(s)' /\ req'[s].row.status \in Dealt
                    => \/ Warranted(o)'
                       \/ /\ req'[s].pc = "announce" /\ req'[s].kind = "submit"
                          /\ req'[s].user \in Managers
    BY <1>q, <1>w, <1>f, <2>3 DEF WarrantInv, Active
  <2> QED
    BY <2>1, <2>2, <2>3 DEF WarrantInv
<1>1. CASE ClientNext(r)
  <2>1. PICK q : Clicked(q) /\ Send(r, q)
    BY <1>1, ClientSends DEF TypeInv
  <2>2. orders' = orders /\ offers' = offers
    BY <2>1 DEF Send, db
  <2>3. q.order = o /\ q.kind \in {"offer", "decide"} => Warranted(o)
    BY <2>1 DEF Clicked, WarrantInv, Dealt, Decisions
  <2>4. req' = [req EXCEPT ![r] = q] /\ q.pc = "sent"
    BY <2>1 DEF Send, Clicked
  <2>5. \A s \in Requests : req'[s] = req[s] \/ req'[s] = q
    BY <1>t, <2>4
  <2>6. OffersOf(o)' = OffersOf(o)
    BY <2>2 DEF OffersOf
  <2> QED
    BY <1>w, <2>2, <2>3, <2>4, <2>5, <2>6 DEF WarrantInv, Active
<1>2. CASE ReceiveNew(r)
  <2>1. /\ req' = [req EXCEPT ![r].pc = "saveNew", ![r].order = nextOrder,
                              ![r].row = RequestRow(CreatedRow)]
        /\ req[r].kind = "new"
        /\ orders' = [orders EXCEPT ![nextOrder] = CreatedRow]
        /\ offers' = offers
    BY <1>2 DEF ReceiveNew, CreateOrder, Receives
  <2>2. RequestRow(CreatedRow).status = "WRQ" /\ CreatedRow.status = "WRQ"
    BY DEF RequestRow, CreatedRow
  <2> QED
    BY <1>t, <1>w, <1>d, <2>1, <2>2 DEF WarrantInv, Active, OffersOf, Request
<1>3. CASE ReceiveBlank(r)
  <2> DEFINE held == OfferedRow(BlankRow(BlankCreatedRow, req[r].flag))
  <2>1. /\ req' = [req EXCEPT ![r].pc = "save", ![r].order = nextOrder,
                              ![r].row = held]
        /\ req[r].kind = "blank"
        /\ orders' = [orders EXCEPT ![nextOrder] = BlankCreatedRow]
        /\ offers' = offers
    BY <1>3 DEF ReceiveBlank, CreateOrder, Receives
  <2>2. BlankCreatedRow.status = "WRQ"
    BY DEF BlankCreatedRow, CreatedRow
  <2>3. nextOrder = o => Warranted(o)'
    BY <1>3 DEF ReceiveBlank, Marked, Warranted, TypeInv, TypeOK
  <2> HIDE DEF held
  <2> QED
    BY <1>t, <1>w, <1>d, <2>1, <2>2, <2>3 DEF WarrantInv, Active, OffersOf, Request
<1>4. CASE Load(r)
  <2> DEFINE q == req[r]
             row == Effect(q, orders[q.order])
             pc == FirstStep(q, orders[q.order])
  <2>1. /\ req' = [req EXCEPT ![r].pc = pc, ![r].row = row]
        /\ orders' = orders /\ offers' = offers
        /\ q.pc = "sent" /\ q.kind \in OnRow /\ q.order \in Ids
    BY <1>4 DEF Load, Receives, Found, db, TypeInv, TypeOK
  <2>2. q.kind = "submit" => pc = "announce"
    BY DEF FirstStep
  <2>3. q.order = o /\ row.status \in Dealt =>
           Warranted(o) \/ (q.kind = "submit" /\ q.user \in Managers)
    BY <1>t, <2>1, EffectStatus DEF WarrantInv, TypeInv, WellFormed
  <2>4. q.kind # "blank"
    BY <2>1 DEF OnRow
  <2> HIDE DEF row, pc
  <2> QED
    BY <1>t, <1>w, <2>1, <2>2, <2>3, <2>4 DEF WarrantInv, Active, OffersOf, Request
<1>5. CASE DeleteOrder(r)
  <2>1. \A s \in Requests : Quietly(s)
    BY <1>5, <1>t DEF DeleteOrder
  <2>2. orders'[o].status = orders[o].status \/ orders'[o].status \notin Dealt
    BY <1>5, <1>t, <1>d DEF DeleteOrder, CreatedRow
  <2>3. OffersOf(o)' # {} => OffersOf(o) # {}
    BY <1>5 DEF DeleteOrder, OffersOf
  <2> QED
    BY <1>q, <2>1, <2>2, <2>3
<1>6. CASE RemoveItem(r) \/ Refuse(r) \/ Abort(r)
  <2>1. /\ \A s \in Requests : Quietly(s)
        /\ orders' = orders /\ offers' = offers
    BY <1>6, <1>t DEF RemoveItem, Refuse, Abort, db
  <2> QED
    BY <1>q, <2>1 DEF OffersOf
<1>7. CASE SaveNew(r) \/ SaveDraft(r) \/ Save(r)
  <2>1. /\ orders' = [orders EXCEPT ![req[r].order] = req[r].row]
        /\ offers' = offers
    BY <1>7 DEF SaveNew, SaveDraft, Save, SaveRow
  <2>2. Active(r) /\ req[r].pc # "announce"
    BY <1>7 DEF SaveNew, SaveDraft, Save, At, Active
  <2>3. \A s \in Requests : Quietly(s)
    <3>1. CASE SaveNew(r)
      BY <1>t, <2>2, <3>1 DEF SaveNew, Request, Row
    <3>2. CASE SaveDraft(r) \/ Save(r)
      BY <1>t, <2>2, <3>2 DEF SaveDraft, Save, Goto, Request
    <3> QED
      BY <1>7, <3>1, <3>2
  <2>4. orders'[o].status = orders[o].status
          \/ orders'[o].status \notin Dealt \/ Warranted(o)
    BY <1>t, <2>1, <2>2 DEF WarrantInv
  <2> QED
    BY <1>q, <2>1, <2>3, <2>4 DEF OffersOf
<1>8. CASE SaveItem(r) \/ Mail(r)
  <2>1. orders' = orders /\ offers' = offers
    BY <1>8 DEF SaveItem, Mail, db
  <2>2. Active(r) /\ req[r].pc # "announce"
    BY <1>8 DEF SaveItem, Mail, At, Active
  <2>3. AfterMail(req[r]) # "sent"
    BY DEF AfterMail
  <2>4. PICK pc : Goto(r, pc) /\ pc # "sent"
    BY <1>8, <2>3 DEF SaveItem, Mail
  <2>5. \A s \in Requests : Quietly(s)
    BY <1>t, <2>2, <2>4 DEF Goto, Request
  <2> QED
    BY <1>q, <2>1, <2>5 DEF OffersOf
<1>9. CASE Decide(r) \/ CreateOfferItems(r)
  <2>1. orders' = orders /\ (OffersOf(o)' # {} => OffersOf(o) # {})
    <3>1. orders' = orders
      BY <1>9 DEF Decide, CreateOfferItems
    <3>2. CASE Decide(r)
      BY <1>t, <3>2 DEF Decide, OffersOf, Offer
    <3>3. CASE CreateOfferItems(r)
      BY <1>t, <3>3 DEF CreateOfferItems, OffersOf, Offer
    <3> QED
      BY <1>9, <3>1, <3>2, <3>3
  <2>2. Active(r) /\ req[r].pc # "announce"
    BY <1>9 DEF Decide, CreateOfferItems, At, Active
  <2>3. \A s \in Requests : Quietly(s)
    BY <1>9, <1>t, <2>2 DEF Decide, CreateOfferItems, Goto, Request
  <2> QED
    BY <1>q, <2>1, <2>3
<1>10. CASE CreateOffer(r)
  <2>1. /\ orders' = orders
        /\ req[r].pc = "offerRow" /\ req[r].kind \in {"offer", "blank"}
    BY <1>10 DEF CreateOffer, At, OfferSteps
  <2>2. \A s \in Requests : Quietly(s)
    BY <1>10, <1>t, <2>1 DEF CreateOffer, Active, Request
  <2>3. req[r].order = o => Warranted(o)
    BY <2>1 DEF WarrantInv, Active
  <2>4. OffersOf(o)' # {} => OffersOf(o) # {} \/ req[r].order = o
    BY <1>10 DEF CreateOffer, OffersOf
  <2> QED
    BY <1>q, <2>1, <2>2, <2>3, <2>4
<1>11. CASE Announce(r)
  <2> DEFINE q == req[r]
             entry == [order |-> q.order, action |-> Announcement(q),
                       status |-> q.row.status,
                       version |-> IF q.kind \in {"offer", "blank"}
                                   THEN q.row.fv ELSE q.row.ov]
  <2>1. /\ orders' = orders /\ offers' = offers
        /\ q.pc = "announce" /\ logs' = Append(logs, entry)
    BY <1>11 DEF Announce, At, db
  <2>2. q.order = o /\ q.kind = "submit" /\ q.user \in Managers => Warranted(o)'
    <3> SUFFICES ASSUME q.order = o, q.kind = "submit", q.user \in Managers
                 PROVE  Warranted(o)'
      OBVIOUS
    <3>1. Announcement(q) = "request submitted"
      BY DEF Announcement
    <3>2. entry.order = o /\ entry.action = "request submitted"
      BY <3>1
    <3> HIDE DEF entry
    <3>3. Len(logs) + 1 \in DOMAIN logs' /\ logs'[Len(logs) + 1] = entry
      BY <2>1 DEF TypeInv, TypeOK
    <3> QED
      BY <3>2, <3>3 DEF Warranted, Approved
  <2>3. \A s \in Requests :
           \/ req'[s] = req[s] /\ s # r
           \/ req'[s] = Free
           \/ /\ s = r /\ req'[s].order = q.order /\ req'[s].kind = q.kind
              /\ req'[s].row = q.row
    BY <1>11, <1>t DEF Announce, Goto, Request
  <2> HIDE DEF entry
  <2> QED
    BY <1>w, <1>f, <2>1, <2>2, <2>3 DEF WarrantInv, Active, OffersOf
<1> QED
  BY <1>r, <1>1, <1>2, <1>3, <1>4, <1>5, <1>6, <1>7, <1>8, <1>9, <1>10, <1>11
     DEF ServerNext

LEMMA OfferStepsStep ==
    ASSUME TypeInv, OfferSteps, Next
    PROVE  OfferSteps'
<1>r. PICK r \in Requests : ClientNext(r) \/ ServerNext(r)
  BY DEF Next
<1>t. req \in [Requests -> Request] /\ req[r] \in Request
  BY DEF TypeInv, TypeOK
<1>s. \A s \in Requests \ {r} : req'[s] = req[s]
  <2>1. CASE ClientNext(r)
    BY <1>t, <2>1, ClientSends DEF TypeInv, Send
  <2>2. CASE ServerNext(r)
    BY <1>t, <2>2 DEF ServerNext, ReceiveNew, ReceiveBlank, CreateOrder, Load,
       DeleteOrder, RemoveItem, Refuse, SaveNew, SaveDraft, SaveItem, Announce,
       Mail, Decide, Save, CreateOffer, CreateOfferItems, Abort, Goto
  <2> QED
    BY <1>r, <2>1, <2>2
<1>1. CASE Save(r)
  <2>1. req'[r].pc = "offerRow" => req[r].kind \in {"offer", "blank"}
    BY <1>1, <1>t DEF Save, Goto, Free, Request
  <2>2. req'[r].kind = req[r].kind \/ req'[r].pc = "free"
    BY <1>1, <1>t DEF Save, Goto, Free, Request
  <2> QED
    BY <1>s, <2>1, <2>2 DEF OfferSteps
<1>2. CASE ~Save(r)
  <2>1. req'[r].pc # "offerRow"
    <3>1. CASE ClientNext(r)
      BY <1>t, <3>1, ClientSends DEF TypeInv, Send, Clicked
    <3>2. CASE ReceiveNew(r) \/ ReceiveBlank(r)
      BY <1>t, <3>2 DEF ReceiveNew, ReceiveBlank, CreateOrder, Request
    <3>3. CASE Load(r)
      <4>1. FirstStep(req[r], orders[req[r].order]) # "offerRow"
        BY DEF FirstStep
      <4>2. req'[r].pc = FirstStep(req[r], orders[req[r].order])
        BY <1>t, <3>3 DEF Load, Request
      <4> QED
        BY <4>1, <4>2
    <3>4. CASE DeleteOrder(r) \/ RemoveItem(r) \/ Refuse(r) \/ Abort(r)
      BY <1>t, <3>4 DEF DeleteOrder, RemoveItem, Refuse, Abort, Free
    <3>5. CASE SaveNew(r) \/ CreateOffer(r)
      BY <1>t, <3>5 DEF SaveNew, CreateOffer, Request
    <3>6. ASSUME NEW pc, Goto(r, pc), pc # "offerRow"
          PROVE  req'[r].pc # "offerRow"
      BY <1>t, <3>6 DEF Goto, Free, Request
    <3>7. CASE SaveDraft(r) \/ SaveItem(r) \/ Decide(r) \/ CreateOfferItems(r)
      BY <3>6, <3>7 DEF SaveDraft, SaveItem, Decide, CreateOfferItems
    <3>8. CASE Announce(r)
      <4>1. AfterAnnounce(req[r]) # "offerRow"
        BY DEF AfterAnnounce
      <4> QED
        BY <3>6, <3>8, <4>1 DEF Announce
    <3>9. CASE Mail(r)
      <4>1. AfterMail(req[r]) # "offerRow"
        BY DEF AfterMail
      <4> QED
        BY <3>6, <3>9, <4>1 DEF Mail
    <3> QED
      BY <1>r, <1>2, <3>1, <3>2, <3>3, <3>4, <3>5, <3>7, <3>8, <3>9 DEF ServerNext
  <2> QED
    BY <1>s, <2>1 DEF OfferSteps
<1> QED
  BY <1>1, <1>2

\* No offer is made on a company's request before a manager has submitted it,
\* with any number of workers, whatever pages users act on and wherever a
\* request stops (ApprovedBeforeOffer).  A request acts on what a page showed
\* long ago, so the invariant follows the warrant from the table into the
\* requests and the rows in memory; what saves it is that a warrant is never
\* taken back and that the submission is logged before it is saved.
THEOREM OffersApproved == Spec => []ApprovedBeforeOffer
<1> DEFINE Inv == TypeInv /\ OfferSteps /\ \A o \in Ids : WarrantInv(o)
<1>1. Init => Inv
  <2> SUFFICES ASSUME Init PROVE Inv
    OBVIOUS
  <2>1. Free.pc = "free" /\ CreatedRow.status \notin Dealt
    BY DEF Free, CreatedRow, Dealt, Decisions
  <2>2. OfferSteps
    BY <2>1 DEF Init, OfferSteps
  <2>3. \A o \in Ids : WarrantInv(o)
    BY <2>1 DEF Init, WarrantInv, OffersOf, Active
  <2> QED
    BY <2>2, <2>3, InitType
<1>2. Inv /\ [Next]_vars => Inv'
  <2> SUFFICES ASSUME Inv, [Next]_vars PROVE Inv'
    OBVIOUS
  <2>1. CASE Next
    BY <2>1, NextType, OfferStepsStep, WarrantStep
  <2>2. CASE UNCHANGED vars
    <3>1. OfferSteps'
      BY <2>2 DEF vars, OfferSteps
    <3>2. \A o \in Ids : WarrantInv(o)'
      BY <2>2 DEF vars, WarrantInv, Warranted, Approved, OffersOf, Active
    <3> QED
      BY <3>1, <3>2, NextType
  <2> QED
    BY <2>1, <2>2
<1>3. Inv => ApprovedBeforeOffer
  BY DEF TypeInv, TypeOK, Offer, WarrantInv, OffersOf, ApprovedBeforeOffer
<1> QED
  BY <1>1, <1>2, <1>3, PTL DEF Spec

-----------------------------------------------------------------------------
(* Part II: what an order keeps through a sequence of requests *)

-----------------------------------------------------------------------------
(* The inductive invariant *)

\* The statements a request of each kind goes through.
Path(kind) ==
    CASE kind \in {"new", "add"}         -> {"saveNew", "saveDraft", "item",
                                             "announce"}
      [] kind = "edit"                   -> {"saveDraft", "item", "announce"}
      [] kind \in {"offer", "blank"}     -> {"save", "offerRow", "offerItems",
                                             "announce", "mail"}
      [] kind = "decide"                 -> {"announce", "mail", "decide", "save"}
      [] kind \in {"submit", "status"}   -> {"announce", "mail", "save"}
      [] kind \in {"address", "comment"} -> {"announce", "save"}
      [] kind = "reference"              -> {"save"}
      [] OTHER                           -> {}

OnPath == \A r \in Requests : Active(r) => req[r].pc \in Path(req[r].kind)

\* Ids not yet given are nowhere to be found.
Fresh ==
    /\ \A o \in live : o < nextOrder
    /\ \A r \in Requests : req[r].order < nextOrder
    /\ \A o \in Ids : o >= nextOrder => marks[o] = {}

\* The foreign key of table Offer, and its primary key.
Keys ==
    /\ \A f \in offers : f.order \in live /\ f.id < nextOffer
    /\ \A f, g \in offers : f.id = g.id => f = g

\* A request that names an offer names one of its own order.
Aims(r) == req[r].pc = "offerItems" \/ (req[r].pc # "free" /\ req[r].kind = "decide")

Aimed == \A r \in Requests : Aims(r) =>
    /\ req[r].target < nextOffer
    /\ \A f \in offers : f.id = req[r].target => f.order = req[r].order

\* One synchronous worker works on one request at a time.
OneAtATime == OneWorker =>
    /\ \A r, s \in Requests : Active(r) /\ Active(s) => r = s
    /\ \A o \in Ids : "overlap" \notin marks[o]

Structure == OnPath /\ Fresh /\ Keys /\ Aimed /\ OneAtATime

\* What holds of an order on which no handlers overlapped.
Undisturbed(o) ==
    /\ \A r, s \in Requests : BusyOn(r, o) /\ BusyOn(s, o) => r = s
    /\ o \notin live => Quiet(o)
    /\ "deleted" \in marks[o] => o \notin live
    /\ \A r \in Requests : BusyOn(r, o) =>
         req[r].row \in {orders[o]} \cup Results(orders[o])

\* An order on which, besides, no handler stopped half way: how far the offers
\* have come, by the statement its handler is at.
Making(r) == req[r].kind \in {"offer", "blank"}
Versions(o) == {f.version : f \in OffersOf(o)}

Reached(o, n) ==
    /\ Versions(o) = 1 .. n
    /\ \A f, g \in OffersOf(o) : f.version = g.version => f = g

Whole(o) == \A f \in OffersOf(o) : f.complete

Numbered(o) ==
    /\ Quiet(o) => Reached(o, orders[o].fv) /\ Whole(o)
    /\ \A r \in Requests : BusyOn(r, o) =>
         IF ~Making(r)
           THEN /\ req[r].row.fv = orders[o].fv
                /\ Reached(o, req[r].row.fv) /\ Whole(o)
           ELSE /\ req[r].row.fv >= 1
                /\ req[r].row.fv = IF req[r].pc = "save" THEN orders[o].fv + 1
                                   ELSE orders[o].fv
                /\ Reached(o, IF req[r].pc \in {"save", "offerRow"}
                              THEN req[r].row.fv - 1 ELSE req[r].row.fv)
                /\ \A f \in OffersOf(o) :
                      f.complete \/ (req[r].pc = "offerItems" /\ f.id = req[r].target)

Has(o, s) == \E f \in OffersOf(o) : f.approval = s

\* The decision is written on the offer, then on the order.
Decided(o) ==
    /\ orders[o].status \in Decisions =>
         \/ Has(o, orders[o].status)
         \/ \E r \in Requests : BusyOn(r, o) /\ req[r].kind = "decide"
                                /\ req[r].pc = "save"
    /\ \A r \in Requests : BusyOn(r, o) =>
         /\ req[r].row.status \in Decisions =>
              \/ Has(o, req[r].row.status)
              \/ req[r].kind = "decide" /\ req[r].pc # "save"
         /\ req[r].kind = "decide" /\ req[r].pc # "save"
              => req[r].row.status = req[r].code
    /\ \A r \in Requests :
         req[r].pc # "free" /\ req[r].kind = "decide" /\ req[r].order = o
           => OffersOf(o) # {}

\* What the users have been told of a row that is no draft.
Told(o, row) ==
    ~row.draft /\ row.status # "WRQ" =>
        LastLogged(o, row.status) /\ LastMailed(o, row.status)

Announced(o) ==
    /\ Quiet(o) => Told(o, orders[o])
    /\ \A r \in Requests : BusyOn(r, o) =>
         /\ req[r].kind \in {"new", "add", "edit"} =>
              /\ Told(o, orders[o]) /\ req[r].row.status = orders[o].status
              /\ req[r].kind = "new" => req[r].row.status = "WRQ"
         /\ req[r].kind \in {"address", "reference", "comment"} =>
              Told(o, req[r].row)
         /\ req[r].kind \in {"submit", "status", "decide"}
            /\ req[r].pc \in {"decide", "save"} => Told(o, req[r].row)
         /\ Making(r) /\ req[r].pc # "save" => req[r].row = orders[o]
         /\ req[r].pc = "mail" => LastLogged(o, req[r].row.status)

HistoryInv ==
    /\ Structure
    /\ \A o \in Ids : Spared(o, {"overlap"}) => Undisturbed(o)
    /\ \A o \in live : Spared(o, {"overlap", "abort"}) => Numbered(o) /\ Decided(o)
    /\ \A o \in live : Spared(o, {"overlap", "abort", "redraft"}) => Announced(o)

-----------------------------------------------------------------------------
(* What each step does, value by value *)

Others(r) == \A s \in Requests \ {r} : req'[s] = req[s]

\* The same request, perhaps at another statement and with another row.
SameRequest(r) ==
    /\ req'[r].kind = req[r].kind /\ req'[r].user = req[r].user
    /\ req'[r].order = req[r].order /\ req'[r].code = req[r].code
    /\ req'[r].flag = req[r].flag

MovesTo(r, pc) ==
    /\ SameRequest(r) /\ req'[r].target = req[r].target
    /\ req'[r].row = req[r].row /\ req'[r].pc = pc

EndsOrMovesTo(r, pc) ==
    /\ pc = "free" => req'[r] = Free
    /\ pc # "free" => MovesTo(r, pc)

Taken(r) ==
    /\ req[r].pc = "sent"
    /\ OneWorker => \A s \in Requests : ~Active(s)

KeepsRows   == UNCHANGED <<live, orders, nextOrder>>
KeepsOffers == UNCHANGED <<offers, nextOffer>>
KeepsWord   == UNCHANGED <<logs, tasks>>

\* Order o may have been marked, other orders not.
MarksOnly(o, hazards) == \A p \in Ids :
    /\ marks[p] \subseteq marks'[p]
    /\ p # o => marks'[p] = marks[p]
    /\ marks'[p] \subseteq marks[p] \cup hazards

DoClick(r) ==
    /\ Others(r) /\ KeepsRows /\ KeepsOffers /\ KeepsWord /\ UNCHANGED marks
    /\ req[r].pc = "free" /\ Clicked(req'[r])

DoCreate(r) ==
    /\ Others(r) /\ KeepsOffers /\ KeepsWord /\ Taken(r)
    /\ nextOrder \in Ids /\ nextOrder' = nextOrder + 1
    /\ live' = live \cup {nextOrder}
    /\ \A p \in Ids \ {nextOrder} : orders'[p] = orders[p]
    /\ MarksOnly(nextOrder, {"blank"})
    /\ req'[r].order = nextOrder /\ req'[r].kind = req[r].kind
    /\ \/ /\ req[r].kind = "new" /\ req'[r].pc = "saveNew"
          /\ orders'[nextOrder] = CreatedRow
          /\ req'[r].row = RequestRow(CreatedRow)
       \/ /\ req[r].kind = "blank" /\ req'[r].pc = "save"
          /\ orders'[nextOrder] = BlankCreatedRow
          /\ \E ref \in BOOLEAN :
               req'[r].row = OfferedRow(BlankRow(BlankCreatedRow, ref))

DoLoad(r) ==
    /\ Others(r) /\ KeepsRows /\ KeepsOffers /\ KeepsWord /\ Taken(r)
    /\ req[r].kind \in OnRow /\ req[r].order \in live
    /\ SameRequest(r) /\ req'[r].target = req[r].target
    /\ req'[r].pc = FirstStep(req[r], orders[req[r].order])
    /\ req'[r].row = Effect(req[r], orders[req[r].order])
    /\ MarksOnly(req[r].order, {"overlap"})
    /\ "overlap" \notin marks'[req[r].order] => Quiet(req[r].order)
    /\ Quiet(req[r].order) => marks' = marks

DoDelete(r) ==
    /\ Others(r) /\ KeepsWord /\ Taken(r)
    /\ UNCHANGED <<nextOrder, nextOffer>>
    /\ req[r].order \in live /\ live' = live \ {req[r].order}
    /\ \A p \in Ids \ {req[r].order} : orders'[p] = orders[p]
    /\ orders'[req[r].order] = CreatedRow
    /\ offers' = offers \ OffersOf(req[r].order)
    /\ req'[r] = Free
    /\ MarksOnly(req[r].order, {"deleted", "overlap"})
    /\ "deleted" \in marks'[req[r].order]
    /\ "overlap" \notin marks'[req[r].order] => Quiet(req[r].order)
    /\ Quiet(req[r].order) /\ "overlap" \in marks'[req[r].order]
         => "overlap" \in marks[req[r].order]

\* A request is answered that has changed no column modelled here.
DoDrop(r) ==
    /\ Others(r) /\ KeepsRows /\ KeepsOffers /\ KeepsWord /\ Taken(r)
    /\ req'[r] = Free
    /\ MarksOnly(req[r].order, {"overlap"})
    /\ Quiet(req[r].order) => marks' = marks

DoSave(r) ==
    /\ Others(r) /\ KeepsOffers /\ KeepsWord /\ UNCHANGED nextOrder
    /\ live' = live \cup {req[r].order}
    /\ \A p \in Ids \ {req[r].order} : orders'[p] = orders[p]
    /\ orders'[req[r].order] = req[r].row
    /\ MarksOnly(req[r].order, {"redraft"})
    /\ req[r].kind \in {"add", "edit"}
       /\ req[r].row.draft # orders[req[r].order].draft
         => "redraft" \in marks'[req[r].order]
    /\ \/ /\ req[r].pc = "saveNew" /\ req'[r].pc = "saveDraft" /\ SameRequest(r)
          /\ req'[r].row = [req[r].row EXCEPT !.draft = req[r].flag]
          /\ req'[r].target = req[r].target
       \/ req[r].pc = "saveDraft" /\ MovesTo(r, "item")
       \/ req[r].pc = "save" /\ Making(r) /\ MovesTo(r, "offerRow")
       \/ req[r].pc = "save" /\ ~Making(r) /\ req'[r] = Free

DoItem(r) ==
    /\ Others(r) /\ KeepsRows /\ KeepsOffers /\ KeepsWord /\ UNCHANGED marks
    /\ req[r].pc = "item" /\ MovesTo(r, "announce")

DoAnnounce(r) ==
    /\ Others(r) /\ KeepsRows /\ KeepsOffers /\ UNCHANGED <<tasks, marks>>
    /\ req[r].pc = "announce"
    /\ EndsOrMovesTo(r, AfterAnnounce(req[r]))
    /\ \E e : /\ logs' = Append(logs, e)
              /\ e.order = req[r].order /\ e.status = req[r].row.status
              /\ e.action = Announcement(req[r])

DoMail(r) ==
    /\ Others(r) /\ KeepsRows /\ KeepsOffers /\ UNCHANGED <<logs, marks>>
    /\ req[r].pc = "mail"
    /\ EndsOrMovesTo(r, AfterMail(req[r]))
    /\ \E t : /\ tasks' = Append(tasks, t)
              /\ t.order = req[r].order /\ t.status = req[r].row.status
              /\ t.fv = req[r].row.fv

\* One row of table Offer changes: it stays an offer with the same keys.
OfferChanges(r, f, g) ==
    /\ f \in offers /\ g \in Offer /\ f.id = req[r].target
    /\ offers' = (offers \ {f}) \cup {g}
    /\ g.id = f.id /\ g.order = f.order /\ g.version = f.version

DoDecide(r) ==
    /\ Others(r) /\ KeepsRows /\ KeepsWord /\ UNCHANGED <<nextOffer, marks>>
    /\ req[r].pc = "decide" /\ MovesTo(r, "save")
    /\ \E f, g : /\ OfferChanges(r, f, g)
                 /\ g.approval = req[r].code /\ g.complete = f.complete

DoOffer(r) ==
    /\ Others(r) /\ KeepsRows /\ KeepsWord /\ UNCHANGED marks
    /\ req[r].pc = "offerRow" /\ req[r].order \in live
    /\ SameRequest(r) /\ req'[r].row = req[r].row
    /\ req'[r].pc = "offerItems" /\ req'[r].target = nextOffer
    /\ nextOffer' = nextOffer + 1
    /\ \E g \in Offer :
         /\ offers' = offers \cup {g}
         /\ g.id = nextOffer /\ g.order = req[r].order
         /\ g.version = req[r].row.fv /\ ~g.complete

DoOfferItems(r) ==
    /\ Others(r) /\ KeepsRows /\ KeepsWord /\ UNCHANGED <<nextOffer, marks>>
    /\ req[r].pc = "offerItems" /\ MovesTo(r, "announce")
    /\ \E f, g : /\ OfferChanges(r, f, g)
                 /\ g.approval = f.approval /\ g.complete

DoAbort(r) ==
    /\ Others(r) /\ KeepsRows /\ KeepsOffers /\ KeepsWord
    /\ Active(r) /\ req'[r] = Free
    /\ MarksOnly(req[r].order, {"abort"}) /\ "abort" \in marks'[req[r].order]

Does(r) ==
    \/ DoClick(r) \/ DoCreate(r) \/ DoLoad(r) \/ DoDelete(r) \/ DoDrop(r)
    \/ DoSave(r) \/ DoItem(r) \/ DoAnnounce(r) \/ DoMail(r) \/ DoDecide(r)
    \/ DoOffer(r) \/ DoOfferItems(r) \/ DoAbort(r)

\* Marks are only added.
LEMMA MarksOnlyMarked ==
    ASSUME TypeOK, NEW o \in Ids, NEW hazards, marks' = Marked(o, hazards)
    PROVE  MarksOnly(o, hazards) /\ hazards \subseteq marks'[o]
  BY DEF TypeOK, Marked, MarksOnly

\* A slot that is freed or moved.
LEMMA GotoMoves ==
    ASSUME TypeInv, NEW r \in Requests, NEW pc, Goto(r, pc)
    PROVE  Others(r) /\ EndsOrMovesTo(r, pc)
<1>t. req \in [Requests -> Request] /\ req[r] \in Request
  BY DEF TypeInv, TypeOK
<1>1. CASE pc = "free"
  BY <1>t, <1>1 DEF Goto, Others, EndsOrMovesTo
<1>2. CASE pc # "free"
  BY <1>t, <1>2 DEF Goto, Others, EndsOrMovesTo, MovesTo, SameRequest, Request
<1> QED
  BY <1>1, <1>2

LEMMA FreeMoves ==
    ASSUME TypeInv, NEW r \in Requests, req' = [req EXCEPT ![r] = Free]
    PROVE  Others(r) /\ req'[r] = Free
  BY DEF TypeInv, TypeOK, Others

\* Every step of the order core is one of those.
LEMMA StepDoes ==
    ASSUME TypeInv, Next
    PROVE  \E r \in Requests : Does(r)
<1>r. PICK r \in Requests : ClientNext(r) \/ ServerNext(r)
  BY DEF Next
<1>t. /\ req \in [Requests -> Request] /\ req[r] \in Request
      /\ orders \in [Ids -> Row] /\ live \subseteq Ids /\ TypeOK
      /\ offers \subseteq Offer
  BY DEF TypeInv, TypeOK
<1>a. Active(r) => req[r].order \in Ids
  BY DEF TypeInv, WellFormed
<1>m. ASSUME NEW o \in Ids, NEW hazards, marks' = Marked(o, hazards)
      PROVE  MarksOnly(o, hazards) /\ hazards \subseteq marks'[o]
  BY <1>t, <1>m, MarksOnlyMarked
<1>n. UNCHANGED marks => \A o, hazards : MarksOnly(o, hazards)
  BY DEF MarksOnly
<1>v. \A o : /\ Quiet(o) => Overlap(o) = {}
             /\ ~Quiet(o) => Overlap(o) = {"overlap"}
             /\ Overlap(o) \subseteq {"overlap"}
  BY DEF Overlap
<1>w. \A o \in Ids : Marked(o, {}) = marks
  BY <1>t DEF Marked, TypeOK
<1>g. \A pc : Goto(r, pc) => Others(r) /\ EndsOrMovesTo(r, pc)
  BY GotoMoves
<1>f. req' = [req EXCEPT ![r] = Free] => Others(r) /\ req'[r] = Free
  BY FreeMoves
<1>1. CASE ClientNext(r)
  <2>1. PICK q : Clicked(q) /\ Send(r, q)
    BY <1>1, <1>t, ClientSends
  <2>2. req'[r] = q /\ Others(r)
    BY <1>t, <2>1 DEF Send, Others
  <2>3. DoClick(r)
    BY <2>1, <2>2 DEF Send, DoClick, KeepsRows, KeepsOffers, KeepsWord, db
  <2> QED
    BY <2>3 DEF Does
<1>2. CASE ReceiveNew(r) \/ ReceiveBlank(r)
  <2>0. nextOrder \in Ids
    BY <1>2, BoundsAssumption DEF ReceiveNew, ReceiveBlank, CreateOrder, RoomForOrder, TypeInv, TypeOK, Ids
  <2>1. ASSUME NEW kind, NEW created, NEW held, NEW pc, CreateOrder(r, kind, created, held, pc)
        PROVE  /\ Others(r) /\ KeepsOffers /\ KeepsWord /\ Taken(r)
               /\ nextOrder' = nextOrder + 1
               /\ live' = live \cup {nextOrder}
               /\ \A p \in Ids \ {nextOrder} : orders'[p] = orders[p]
               /\ req'[r].order = nextOrder /\ req'[r].kind = req[r].kind
               /\ req[r].kind = kind /\ req'[r].pc = pc
               /\ orders'[nextOrder] = created /\ req'[r].row = held
    <3>1. Taken(r) /\ req[r].kind = kind
      BY <2>1 DEF CreateOrder, Receives, Taken
    <3>2. /\ nextOrder' = nextOrder + 1 /\ live' = live \cup {nextOrder}
          /\ \A p \in Ids \ {nextOrder} : orders'[p] = orders[p]
          /\ orders'[nextOrder] = created
      BY <1>t, <2>0, <2>1 DEF CreateOrder
    <3>3. /\ Others(r) /\ req'[r].order = nextOrder /\ req'[r].kind = req[r].kind
          /\ req'[r].pc = pc /\ req'[r].row = held
      BY <1>t, <2>1 DEF CreateOrder, Others, Request
    <3>4. KeepsOffers /\ KeepsWord
      BY <2>1 DEF CreateOrder, KeepsOffers, KeepsWord
    <3> QED
      BY <3>1, <3>2, <3>3, <3>4
  <2>2. CASE ReceiveNew(r)
    <3>1. CreateOrder(r, "new", CreatedRow, RequestRow(CreatedRow), "saveNew") /\ UNCHANGED marks
      BY <2>2 DEF ReceiveNew
    <3>2. DoCreate(r)
      BY <1>n, <2>0, <2>1, <3>1 DEF DoCreate
    <3> QED
      BY <3>2 DEF Does
  <2>3. CASE ReceiveBlank(r)
    <3>1. /\ CreateOrder(r, "blank", BlankCreatedRow,
                         OfferedRow(BlankRow(BlankCreatedRow, req[r].flag)), "save")
          /\ MarksOnly(nextOrder, {"blank"})
      BY <1>m, <2>0, <2>3 DEF ReceiveBlank
    <3>2. req[r].flag \in BOOLEAN
      BY <1>t DEF Request
    <3>3. DoCreate(r)
      BY <2>0, <2>1, <3>1, <3>2 DEF DoCreate
    <3> QED
      BY <3>3 DEF Does
  <2> QED
    BY <1>2, <2>2, <2>3
<1>3. CASE Load(r)
  <2> DEFINE o == req[r].order
  <2>1. /\ Taken(r) /\ req[r].kind \in OnRow /\ o \in live /\ o \in Ids
        /\ KeepsRows /\ KeepsOffers /\ KeepsWord
    BY <1>3, <1>t DEF Load, Receives, Taken, Found, KeepsRows, KeepsOffers, KeepsWord, db
  <2>2. /\ Others(r) /\ SameRequest(r) /\ req'[r].target = req[r].target
        /\ req'[r].pc = FirstStep(req[r], orders[o])
        /\ req'[r].row = Effect(req[r], orders[o])
    BY <1>3, <1>t DEF Load, Others, SameRequest, Request
  <2>3. /\ MarksOnly(o, {"overlap"})
        /\ "overlap" \notin marks'[o] => Quiet(o)
        /\ Quiet(o) => marks' = marks
    <3>1. marks' = Marked(o, Overlap(o))
      BY <1>3 DEF Load
    <3>2. MarksOnly(o, Overlap(o)) /\ Overlap(o) \subseteq marks'[o]
      BY <1>m, <2>1, <3>1
    <3>3. MarksOnly(o, {"overlap"})
      BY <1>v, <3>2 DEF MarksOnly
    <3> QED
      BY <1>v, <1>w, <2>1, <3>1, <3>2, <3>3
  <2> QED
    BY <2>1, <2>2, <2>3 DEF DoLoad, Does
<1>4. CASE DeleteOrder(r)
  <2> DEFINE o == req[r].order
  <2>1. /\ Taken(r) /\ o \in live /\ o \in Ids /\ KeepsWord
        /\ UNCHANGED <<nextOrder, nextOffer>> /\ live' = live \ {o}
        /\ offers' = offers \ OffersOf(o)
    BY <1>4, <1>t DEF DeleteOrder, Receives, Taken, Found, KeepsWord
  <2>2. /\ \A p \in Ids \ {o} : orders'[p] = orders[p]
        /\ orders'[o] = CreatedRow
    BY <1>4, <1>t, <2>1 DEF DeleteOrder
  <2>3. Others(r) /\ req'[r] = Free
    BY <1>4, <1>f DEF DeleteOrder
  <2>4. marks' = Marked(o, {"deleted"} \cup Overlap(o))
    BY <1>4 DEF DeleteOrder
  <2>5. MarksOnly(o, {"deleted"} \cup Overlap(o)) /\ {"deleted"} \cup Overlap(o) \subseteq marks'[o]
    BY <1>m, <2>1, <2>4
  <2>6. MarksOnly(o, {"deleted", "overlap"})
    BY <1>v, <2>5 DEF MarksOnly
  <2>7. /\ "deleted" \in marks'[o]
        /\ "overlap" \notin marks'[o] => Quiet(o)
        /\ Quiet(o) /\ "overlap" \in marks'[o] => "overlap" \in marks[o]
    BY <1>v, <2>1, <2>5 DEF MarksOnly
  <2> QED
    BY <2>1, <2>2, <2>3, <2>6, <2>7 DEF DoDelete, Does
<1>5. CASE RemoveItem(r) \/ Refuse(r)
  <2> DEFINE o == req[r].order
  <2>1. Taken(r) /\ KeepsRows /\ KeepsOffers /\ KeepsWord /\ Others(r) /\ req'[r] = Free
    BY <1>5, <1>f DEF RemoveItem, Refuse, Receives, Taken, KeepsRows, KeepsOffers, KeepsWord, db
  <2>2. MarksOnly(o, {"overlap"}) /\ (Quiet(o) => marks' = marks)
    <3>1. CASE Refuse(r)
      BY <1>n, <3>1 DEF Refuse
    <3>2. CASE RemoveItem(r)
      <4>1. o \in Ids /\ marks' = Marked(o, Overlap(o))
        BY <1>t, <3>2 DEF RemoveItem, Found
      <4>2. MarksOnly(o, Overlap(o))
        BY <1>m, <4>1
      <4> QED
        BY <1>v, <1>w, <4>1, <4>2 DEF MarksOnly
    <3> QED
      BY <1>5, <3>1, <3>2
  <2> QED
    BY <2>1, <2>2 DEF DoDrop, Does
<1>6. CASE SaveNew(r) \/ SaveDraft(r) \/ Save(r)
  <2> DEFINE o == req[r].order
  <2>1. SaveRow(r) /\ KeepsOffers /\ KeepsWord /\ UNCHANGED nextOrder /\ Active(r)
    BY <1>6 DEF SaveNew, SaveDraft, Save, KeepsOffers, KeepsWord, At, Active
  <2>2. o \in Ids
    BY <1>a, <2>1
  <2>3. /\ live' = live \cup {o} /\ orders'[o] = req[r].row
        /\ \A p \in Ids \ {o} : orders'[p] = orders[p]
    BY <1>t, <2>1, <2>2 DEF SaveRow
  <2>4. /\ MarksOnly(o, {"redraft"})
        /\ req[r].kind \in {"add", "edit"} /\ req[r].row.draft # orders[o].draft
             => "redraft" \in marks'[o]
    <3> DEFINE h == IF req[r].kind \in {"add", "edit"}
                       /\ req[r].row.draft # orders[o].draft
                    THEN {"redraft"} ELSE {}
    <3>1. marks' = Marked(o, h)
      BY <2>1 DEF SaveRow
    <3>2. MarksOnly(o, h) /\ h \subseteq marks'[o]
      BY <1>m, <2>2, <3>1
    <3> QED
      BY <3>2 DEF MarksOnly
  <2>5. CASE SaveNew(r)
    <3>1. /\ Others(r) /\ req[r].pc = "saveNew" /\ req'[r].pc = "saveDraft"
          /\ SameRequest(r) /\ req'[r].target = req[r].target
          /\ req'[r].row = [req[r].row EXCEPT !.draft = req[r].flag]
      BY <1>t, <2>5 DEF SaveNew, At, Others, SameRequest, Request
    <3> QED
      BY <2>1, <2>3, <2>4, <3>1 DEF DoSave, Does
  <2>6. CASE SaveDraft(r)
    <3>1. Others(r) /\ req[r].pc = "saveDraft" /\ MovesTo(r, "item")
      BY <1>g, <2>6 DEF SaveDraft, At, EndsOrMovesTo
    <3> QED
      BY <2>1, <2>3, <2>4, <3>1 DEF DoSave, Does
  <2>7. CASE Save(r)
    <3>1. /\ Others(r) /\ req[r].pc = "save"
          /\ EndsOrMovesTo(r, IF req[r].kind \in {"offer", "blank"} THEN "offerRow" ELSE "free")
      BY <1>g, <2>7 DEF Save, At
    <3>2. \/ Making(r) /\ MovesTo(r, "offerRow")
          \/ ~Making(r) /\ req'[r] = Free
      BY <3>1 DEF EndsOrMovesTo, Making
    <3> QED
      BY <2>1, <2>3, <2>4, <3>1, <3>2 DEF DoSave, Does
  <2> QED
    BY <1>6, <2>5, <2>6, <2>7
<1>7. CASE SaveItem(r)
  <2>1. /\ KeepsRows /\ KeepsOffers /\ KeepsWord /\ UNCHANGED marks
        /\ req[r].pc = "item" /\ Goto(r, "announce")
    BY <1>7 DEF SaveItem, At, KeepsRows, KeepsOffers, KeepsWord
  <2>2. Others(r) /\ MovesTo(r, "announce")
    BY <1>g, <2>1 DEF EndsOrMovesTo
  <2> QED
    BY <2>1, <2>2 DEF DoItem, Does
<1>8. CASE Announce(r)
  <2> DEFINE e == [order |-> req[r].order, action |-> Announcement(req[r]),
                   status |-> req[r].row.status,
                   version |-> IF req[r].kind \in {"offer", "blank"}
                               THEN req[r].row.fv ELSE req[r].row.ov]
  <2>1. /\ KeepsRows /\ KeepsOffers /\ UNCHANGED <<tasks, marks>>
        /\ req[r].pc = "announce" /\ Goto(r, AfterAnnounce(req[r]))
        /\ logs' = Append(logs, e)
    BY <1>8 DEF Announce, At, KeepsRows, KeepsOffers, db
  <2>2. Others(r) /\ EndsOrMovesTo(r, AfterAnnounce(req[r]))
    BY <1>g, <2>1
  <2>3. e.order = req[r].order /\ e.status = req[r].row.status /\ e.action = Announcement(req[r])
    OBVIOUS
  <2> HIDE DEF e
  <2> QED
    BY <2>1, <2>2, <2>3 DEF DoAnnounce, Does
<1>9. CASE Mail(r)
  <2> DEFINE t == [order |-> req[r].order, status |-> req[r].row.status,
                   fv |-> req[r].row.fv, addr |-> req[r].row.addr,
                   ref |-> req[r].row.ref]
  <2>1. /\ KeepsRows /\ KeepsOffers /\ UNCHANGED <<logs, marks>>
        /\ req[r].pc = "mail" /\ Goto(r, AfterMail(req[r]))
        /\ tasks' = Append(tasks, t)
    BY <1>9 DEF Mail, At, KeepsRows, KeepsOffers, db
  <2>2. Others(r) /\ EndsOrMovesTo(r, AfterMail(req[r]))
    BY <1>g, <2>1
  <2>3. t.order = req[r].order /\ t.status = req[r].row.status /\ t.fv = req[r].row.fv
    OBVIOUS
  <2> HIDE DEF t
  <2> QED
    BY <2>1, <2>2, <2>3 DEF DoMail, Does
<1>10. CASE Decide(r)
  <2>1. /\ KeepsRows /\ KeepsWord /\ UNCHANGED <<nextOffer, marks>>
        /\ req[r].pc = "decide" /\ Goto(r, "save")
    BY <1>10 DEF Decide, At, KeepsRows, KeepsWord
  <2>2. Others(r) /\ MovesTo(r, "save")
    BY <1>g, <2>1 DEF EndsOrMovesTo
  <2>3. PICK f \in offers : f.id = req[r].target
                            /\ offers' = (offers \ {f}) \cup {[f EXCEPT !.approval = req[r].code]}
    BY <1>10 DEF Decide
  <2> DEFINE g == [f EXCEPT !.approval = req[r].code]
  <2>4. req[r].code \in Decisions
    BY <2>1 DEF TypeInv, WellFormed
  <2>5. /\ g \in Offer /\ g.id = f.id /\ g.order = f.order /\ g.version = f.version
        /\ g.approval = req[r].code /\ g.complete = f.complete
    BY <1>t, <2>4 DEF Offer
  <2> HIDE DEF g
  <2>6. OfferChanges(r, f, g)
    BY <2>3, <2>5 DEF OfferChanges, g
  <2> QED
    BY <2>1, <2>2, <2>5, <2>6 DEF DoDecide, Does
<1>11. CASE CreateOffer(r)
  <2>1. /\ KeepsRows /\ KeepsWord /\ UNCHANGED marks
        /\ req[r].pc = "offerRow" /\ req[r].order \in live /\ nextOffer' = nextOffer + 1
    BY <1>11 DEF CreateOffer, At, KeepsRows, KeepsWord
  <2>2. /\ Others(r) /\ SameRequest(r) /\ req'[r].row = req[r].row
        /\ req'[r].pc = "offerItems" /\ req'[r].target = nextOffer
    BY <1>t, <1>11 DEF CreateOffer, Others, SameRequest, Request
  <2> DEFINE g == [id |-> nextOffer, order |-> req[r].order,
                   version |-> req[r].row.fv, approval |-> "WAP",
                   complete |-> FALSE]
  <2>3. req[r].row \in Row /\ nextOffer \in Nat /\ req[r].order \in Ids
    BY <1>t, <2>1 DEF Request, TypeOK
  <2>4. /\ g \in Offer /\ g.id = nextOffer /\ g.order = req[r].order
        /\ g.version = req[r].row.fv /\ ~g.complete
    BY <2>3 DEF Offer, Row
  <2>5. offers' = offers \cup {g}
    BY <1>11 DEF CreateOffer
  <2> HIDE DEF g
  <2> QED
    BY <2>1, <2>2, <2>4, <2>5 DEF DoOffer, Does
<1>12. CASE CreateOfferItems(r)
  <2>1. /\ KeepsRows /\ KeepsWord /\ UNCHANGED <<nextOffer, marks>>
        /\ req[r].pc = "offerItems" /\ Goto(r, "announce")
    BY <1>12 DEF CreateOfferItems, At, KeepsRows, KeepsWord
  <2>2. Others(r) /\ MovesTo(r, "announce")
    BY <1>g, <2>1 DEF EndsOrMovesTo
  <2>3. PICK f \in offers : f.id = req[r].target
                            /\ offers' = (offers \ {f}) \cup {[f EXCEPT !.complete = TRUE]}
    BY <1>12 DEF CreateOfferItems
  <2> DEFINE g == [f EXCEPT !.complete = TRUE]
  <2>4. /\ g \in Offer /\ g.id = f.id /\ g.order = f.order /\ g.version = f.version
        /\ g.approval = f.approval /\ g.complete
    BY <1>t DEF Offer
  <2> HIDE DEF g
  <2>5. OfferChanges(r, f, g)
    BY <2>3, <2>4 DEF OfferChanges, g
  <2> QED
    BY <2>1, <2>2, <2>4, <2>5 DEF DoOfferItems, Does
<1>13. CASE Abort(r)
  <2>1. /\ KeepsRows /\ KeepsOffers /\ KeepsWord /\ Active(r)
        /\ Others(r) /\ req'[r] = Free
    BY <1>13, <1>f DEF Abort, KeepsRows, KeepsOffers, KeepsWord, db
  <2>2. MarksOnly(req[r].order, {"abort"}) /\ "abort" \in marks'[req[r].order]
    BY <1>13, <1>a, <1>m DEF Abort
  <2> QED
    BY <2>1, <2>2 DEF DoAbort, Does
<1> QED
  BY <1>r, <1>1, <1>2, <1>3, <1>4, <1>5, <1>6, <1>7, <1>8, <1>9, <1>10, <1>11,
     <1>12, <1>13 DEF ServerNext

-----------------------------------------------------------------------------
(* Structure *)

\* A handler that goes on stays on its path.
LEMMA PathSteps ==
    ASSUME NEW q \in Request, NEW row
    PROVE  /\ q.kind \in OnRow => FirstStep(q, row) \in Path(q.kind)
           /\ "announce" \in Path(q.kind)
                => AfterAnnounce(q) \in Path(q.kind) \cup {"free"}
           /\ "mail" \in Path(q.kind)
                => AfterMail(q) \in Path(q.kind) \cup {"free"}
           /\ "saveNew" \in Path(q.kind) => "saveDraft" \in Path(q.kind)
           /\ "saveDraft" \in Path(q.kind) => "item" \in Path(q.kind)
           /\ "item" \in Path(q.kind) => "announce" \in Path(q.kind)
           /\ "decide" \in Path(q.kind) => "save" \in Path(q.kind)
           /\ "offerRow" \in Path(q.kind) => "offerItems" \in Path(q.kind)
           /\ "offerItems" \in Path(q.kind) => "announce" \in Path(q.kind)
<1>1. q.kind \in OnRow => FirstStep(q, row) \in Path(q.kind)
  BY DEF FirstStep, Path, OnRow
<1>2. /\ "announce" \in Path(q.kind)
           => AfterAnnounce(q) \in Path(q.kind) \cup {"free"}
      /\ "mail" \in Path(q.kind)
           => AfterMail(q) \in Path(q.kind) \cup {"free"}
  BY DEF AfterAnnounce, AfterMail, Path, Request, AllKinds
<1>3. /\ "saveNew" \in Path(q.kind) => "saveDraft" \in Path(q.kind)
      /\ "saveDraft" \in Path(q.kind) => "item" \in Path(q.kind)
      /\ "item" \in Path(q.kind) => "announce" \in Path(q.kind)
      /\ "decide" \in Path(q.kind) => "save" \in Path(q.kind)
      /\ "offerRow" \in Path(q.kind) => "offerItems" \in Path(q.kind)
      /\ "offerItems" \in Path(q.kind) => "announce" \in Path(q.kind)
  BY DEF Path
<1> QED
  BY <1>1, <1>2, <1>3

LEMMA OnPathStep ==
    ASSUME TypeInv, OnPath, NEW r \in Requests, Does(r)
    PROVE  OnPath'
<1>t. req[r] \in Request
  BY DEF TypeInv, TypeOK
<1>p. Active(r) => req[r].pc \in Path(req[r].kind)
  BY DEF OnPath
<1>f. Free.pc = "free"
  BY DEF Free
<1>o. Others(r)
  BY DEF Does, DoClick, DoCreate, DoLoad, DoDelete, DoDrop, DoSave, DoItem,
         DoAnnounce, DoMail, DoDecide, DoOffer, DoOfferItems, DoAbort
<1>a. req[r].pc \notin {"free", "sent"} => Active(r)
  BY DEF Active
<1> SUFFICES req'[r].pc \in Path(req'[r].kind) \cup {"free", "sent"}
  BY <1>o DEF OnPath, Active, Others
<1>1. CASE DoClick(r)
  BY <1>1 DEF DoClick, Clicked
<1>2. CASE DoCreate(r)
  BY <1>2 DEF DoCreate, Path
<1>3. CASE DoLoad(r)
  BY <1>3, <1>t, PathSteps DEF DoLoad, SameRequest
<1>4. CASE DoDelete(r) \/ DoDrop(r) \/ DoAbort(r)
  BY <1>4, <1>f DEF DoDelete, DoDrop, DoAbort
<1>5. CASE DoSave(r)
  BY <1>5, <1>t, <1>f, <1>p, <1>a, PathSteps DEF DoSave, MovesTo, SameRequest, Making, Path
<1>6. CASE DoItem(r)
  BY <1>6, <1>t, <1>p, <1>a, PathSteps DEF DoItem, MovesTo, SameRequest
<1>7. CASE DoAnnounce(r)
  BY <1>7, <1>t, <1>f, <1>p, <1>a, PathSteps DEF DoAnnounce, EndsOrMovesTo, MovesTo, SameRequest
<1>8. CASE DoMail(r)
  BY <1>8, <1>t, <1>f, <1>p, <1>a, PathSteps DEF DoMail, EndsOrMovesTo, MovesTo, SameRequest
<1>9. CASE DoDecide(r)
  BY <1>9, <1>t, <1>p, <1>a, PathSteps DEF DoDecide, MovesTo, SameRequest
<1>10. CASE DoOffer(r)
  BY <1>10, <1>t, <1>p, <1>a, PathSteps DEF DoOffer, SameRequest
<1>11. CASE DoOfferItems(r)
  BY <1>11, <1>t, <1>p, <1>a, PathSteps DEF DoOfferItems, MovesTo, SameRequest
<1> QED
  BY <1>1, <1>2, <1>3, <1>4, <1>5, <1>6, <1>7, <1>8, <1>9, <1>10, <1>11 DEF Does

\* What all steps but a few leave alone.
LEMMA OthersStay ==
    ASSUME NEW r \in Requests, Does(r)
    PROVE  /\ Others(r)
           /\ DoCreate(r) \/ DoDelete(r) \/ DoSave(r) \/ KeepsRows
           /\ DoDelete(r) \/ DoDecide(r) \/ DoOffer(r) \/ DoOfferItems(r) \/ KeepsOffers
           /\ DoAnnounce(r) \/ UNCHANGED logs
           /\ DoMail(r) \/ UNCHANGED tasks
           /\ DoOffer(r) \/ UNCHANGED nextOffer
           /\ DoCreate(r) \/ UNCHANGED nextOrder
  BY DEF Does, DoClick, DoCreate, DoLoad, DoDelete, DoDrop, DoSave, DoItem,
         DoAnnounce, DoMail, DoDecide, DoOffer, DoOfferItems, DoAbort,
         KeepsRows, KeepsOffers, KeepsWord

\* Where a step may add a mark: on the order of its request, or on the order it
\* creates.
LEMMA MarksStay ==
    ASSUME TypeInv, NEW r \in Requests, Does(r)
    PROVE  \/ DoCreate(r)
           \/ UNCHANGED marks
           \/ /\ MarksOnly(req[r].order, {"overlap", "deleted", "redraft", "abort"})
              /\ req[r].pc # "free"
<1> USE DEF MarksOnly
<1>1. CASE DoLoad(r) \/ DoDelete(r) \/ DoDrop(r)
  BY <1>1 DEF DoLoad, DoDelete, DoDrop, Taken
<1>2. CASE DoSave(r) \/ DoAbort(r)
  BY <1>2 DEF DoSave, DoAbort, Active
<1>3. CASE ~(DoLoad(r) \/ DoDelete(r) \/ DoDrop(r) \/ DoSave(r) \/ DoAbort(r) \/ DoCreate(r))
  BY <1>3 DEF Does, DoClick, DoItem, DoAnnounce, DoMail, DoDecide, DoOffer, DoOfferItems
<1> QED
  BY <1>1, <1>2, <1>3

LEMMA FreshStep ==
    ASSUME TypeInv, Fresh, NEW r \in Requests, Does(r)
    PROVE  Fresh'
<1>t. /\ req \in [Requests -> Request] /\ req[r] \in Request
      /\ nextOrder \in Nat \ {0} /\ live \subseteq Ids
  BY DEF TypeInv, TypeOK
<1>i. /\ \A o \in Ids : o \in Nat
      /\ \A s \in Requests : req[s].order \in Int /\ req[s].order < nextOrder
  BY <1>t DEF Ids, Request, NoId, Fresh
<1>g. nextOrder' >= nextOrder /\ nextOrder' \in Nat
  BY <1>t, OthersStay DEF DoCreate
<1>1. \A o \in live' : o < nextOrder'
  <2>1. CASE DoCreate(r)
    BY <1>t, <1>i, <2>1 DEF DoCreate, Fresh
  <2>2. CASE DoDelete(r)
    BY <2>2 DEF DoDelete, Fresh
  <2>3. CASE DoSave(r)
    BY <1>i, <2>3 DEF DoSave, Fresh
  <2>4. CASE KeepsRows
    BY <2>4 DEF KeepsRows, Fresh
  <2> QED
    BY <2>1, <2>2, <2>3, <2>4, OthersStay
<1>2. \A s \in Requests : req'[s].order < nextOrder'
  <2>1. req'[r].order < nextOrder'
    <3>f. Free.order = 0
      BY DEF Free, NoId
    <3>1. CASE DoClick(r)
      <4>1. Clicked(req'[r]) /\ nextOrder' = nextOrder
        BY <3>1 DEF DoClick, KeepsRows
      <4> QED
        BY <1>t, <4>1 DEF Clicked, Fresh, NoId
    <3>2. CASE DoCreate(r)
      BY <1>t, <3>2 DEF DoCreate
    <3>3. req'[r].order = req[r].order \/ req'[r] = Free \/ DoClick(r) \/ DoCreate(r)
      BY DEF Does, DoLoad, DoDelete, DoDrop, DoSave, DoItem, DoAnnounce, DoMail,
             DoDecide, DoOffer, DoOfferItems, DoAbort, EndsOrMovesTo, MovesTo, SameRequest
    <3> QED
      BY <1>t, <1>i, <1>g, <3>f, <3>1, <3>2, <3>3
  <2>2. \A s \in Requests \ {r} : req'[s].order < nextOrder'
    BY <1>t, <1>i, <1>g, OthersStay DEF Others
  <2> QED
    BY <2>1, <2>2
<1>3. \A o \in Ids : o >= nextOrder' => marks'[o] = {}
  <2> TAKE o \in Ids
  <2> HAVE o >= nextOrder'
  <2>1. o >= nextOrder /\ marks[o] = {}
    BY <1>t, <1>i, <1>g DEF Fresh
  <2>2. CASE DoCreate(r)
    BY <1>t, <1>i, <2>1, <2>2 DEF DoCreate, MarksOnly
  <2>3. CASE MarksOnly(req[r].order, {"overlap", "deleted", "redraft", "abort"})
    BY <1>t, <1>i, <2>1, <2>3 DEF MarksOnly
  <2> QED
    BY <2>1, <2>2, <2>3, MarksStay
<1> QED
  BY <1>1, <1>2, <1>3 DEF Fresh

LEMMA KeysStep ==
    ASSUME TypeInv, Keys, NEW r \in Requests, Does(r)
    PROVE  Keys'
<1>t. /\ nextOffer \in Nat \ {0} /\ offers \subseteq Offer
      /\ \A f \in offers : f.id \in Nat
  BY DEF TypeInv, TypeOK, Offer
<1>1. CASE KeepsOffers
  <2>1. CASE DoDelete(r)
    BY <1>1, <2>1 DEF DoDelete, KeepsOffers, Keys, OffersOf
  <2>2. CASE live \subseteq live'
    BY <1>1, <2>2 DEF KeepsOffers, Keys
  <2> QED
    BY <2>1, <2>2, OthersStay DEF DoCreate, DoSave, KeepsRows
<1>2. CASE DoDelete(r)
  BY <1>2 DEF DoDelete, Keys, OffersOf
<1>3. CASE DoDecide(r) \/ DoOfferItems(r)
  <2>1. PICK f, g : OfferChanges(r, f, g)
    BY <1>3 DEF DoDecide, DoOfferItems
  <2>2. live' = live /\ nextOffer' = nextOffer
    BY <1>3 DEF DoDecide, DoOfferItems, KeepsRows
  <2> QED
    BY <2>1, <2>2 DEF OfferChanges, Keys
<1>4. CASE DoOffer(r)
  <2>1. /\ live' = live /\ nextOffer' = nextOffer + 1 /\ req[r].order \in live
        /\ \E g \in Offer : /\ offers' = offers \cup {g}
                            /\ g.id = nextOffer /\ g.order = req[r].order
    BY <1>4 DEF DoOffer, KeepsRows
  <2> QED
    BY <1>t, <2>1 DEF Keys
<1> QED
  BY <1>1, <1>2, <1>3, <1>4, OthersStay

LEMMA AimedStep ==
    ASSUME TypeInv, OnPath, Keys, Aimed, NEW r \in Requests, Does(r)
    PROVE  Aimed'
<1>t. /\ req \in [Requests -> Request] /\ nextOffer \in Nat \ {0}
      /\ \A s \in Requests : req[s].target \in Nat
      /\ \A f \in offers : f.id \in Nat
  BY DEF TypeInv, TypeOK, Request, Offer
<1>f. Free.pc = "free"
  BY DEF Free
<1>g. nextOffer' \in Nat /\ nextOffer' >= nextOffer
  BY <1>t, OthersStay DEF DoOffer
\* An old id keeps its order.
<1>k. \A n \in Nat : \A o : n < nextOffer /\ (\A f \in offers : f.id = n => f.order = o)
                          => \A f \in offers' : f.id = n => f.order = o
  <2>1. CASE KeepsOffers \/ DoDelete(r)
    BY <2>1 DEF KeepsOffers, DoDelete
  <2>2. CASE DoDecide(r) \/ DoOfferItems(r)
    BY <2>2 DEF DoDecide, DoOfferItems, OfferChanges
  <2>3. CASE DoOffer(r)
    BY <1>t, <2>3 DEF DoOffer
  <2> QED
    BY <2>1, <2>2, <2>3, OthersStay
<1>1. ASSUME NEW s \in Requests, Aims(s)', Aims(s),
             req'[s].target = req[s].target, req'[s].order = req[s].order
      PROVE  /\ req'[s].target < nextOffer'
             /\ \A f \in offers' : f.id = req'[s].target => f.order = req'[s].order
  <2>1. /\ req[s].target \in Nat /\ req[s].target < nextOffer
        /\ \A f \in offers : f.id = req[s].target => f.order = req[s].order
    BY <1>t, <1>1 DEF Aimed
  <2> QED
    BY <1>1, <1>k, <1>g, <1>t, <2>1
<1>2. ASSUME NEW s \in Requests \ {r}, Aims(s)'
      PROVE  /\ req'[s].target < nextOffer'
             /\ \A f \in offers' : f.id = req'[s].target => f.order = req'[s].order
  <2>1. req'[s] = req[s]
    BY OthersStay DEF Others
  <2> QED
    BY <1>1, <1>2, <2>1 DEF Aims
<1>3. ASSUME Aims(r)'
      PROVE  /\ req'[r].target < nextOffer'
             /\ \A f \in offers' : f.id = req'[r].target => f.order = req'[r].order
  <2>1. CASE DoClick(r)
    <3>1. Clicked(req'[r]) /\ KeepsOffers
      BY <2>1 DEF DoClick
    <3>2. req'[r].kind = "decide"
      BY <1>3, <3>1 DEF Aims, Clicked
    <3>3. PICK f \in offers : f.id = req'[r].target /\ f.order = req'[r].order
      BY <3>1, <3>2 DEF Clicked
    <3> QED
      BY <3>1, <3>3 DEF Keys, KeepsOffers
  <2>2. CASE DoOffer(r)
    <3>1. /\ req'[r].target = nextOffer /\ nextOffer' = nextOffer + 1
          /\ req'[r].order = req[r].order
          /\ \E g \in Offer : /\ offers' = offers \cup {g}
                              /\ g.id = nextOffer /\ g.order = req[r].order
      BY <2>2 DEF DoOffer, SameRequest
    <3> QED
      BY <1>t, <3>1 DEF Keys
  <2>3. CASE ~DoClick(r) /\ ~DoOffer(r)
    <3>1. CASE DoCreate(r)
      BY <1>3, <3>1 DEF DoCreate, Aims
    <3>2. CASE req'[r] = Free
      BY <1>3, <1>f, <3>2 DEF Aims
    <3>3. CASE /\ req'[r].target = req[r].target /\ SameRequest(r)
               /\ req'[r].pc # "offerItems" /\ req[r].pc # "free"
      BY <1>1, <1>3, <3>3 DEF Aims, SameRequest
    <3>4. CASE DoLoad(r)
      BY <3>3, <3>4 DEF DoLoad, FirstStep, Taken
    <3>5. CASE DoSave(r)
      BY <3>2, <3>3, <3>5 DEF DoSave, MovesTo
    <3>6. CASE DoItem(r) \/ DoDecide(r) \/ DoOfferItems(r)
      BY <3>3, <3>6 DEF DoItem, DoDecide, DoOfferItems, MovesTo
    <3>7. CASE DoAnnounce(r)
      <4>1. AfterAnnounce(req[r]) # "offerItems" /\ req[r].pc # "free"
        BY <3>7 DEF AfterAnnounce, DoAnnounce
      <4> QED
        BY <3>2, <3>3, <3>7, <4>1 DEF DoAnnounce, EndsOrMovesTo, MovesTo
    <3>8. CASE DoMail(r)
      <4>1. AfterMail(req[r]) # "offerItems" /\ req[r].pc # "free"
        BY <3>8 DEF AfterMail, DoMail
      <4> QED
        BY <3>2, <3>3, <3>8, <4>1 DEF DoMail, EndsOrMovesTo, MovesTo
    <3> QED
      BY <2>3, <3>1, <3>2, <3>4, <3>5, <3>6, <3>7, <3>8 DEF Does, DoDelete, DoDrop, DoAbort
  <2> QED
    BY <2>1, <2>2, <2>3
<1> QED
  BY <1>2, <1>3 DEF Aimed

LEMMA OneAtATimeStep ==
    ASSUME TypeInv, OneAtATime, NEW r \in Requests, Does(r)
    PROVE  OneAtATime'
<1> SUFFICES ASSUME OneWorker
             PROVE  /\ \A s, v \in Requests : Active(s)' /\ Active(v)' => s = v
                    /\ \A o \in Ids : "overlap" \notin marks'[o]
  BY DEF OneAtATime
<1>h. /\ \A s, v \in Requests : Active(s) /\ Active(v) => s = v
      /\ \A o \in Ids : "overlap" \notin marks[o]
  BY DEF OneAtATime
<1>o. \A s \in Requests \ {r} : Active(s)' <=> Active(s)
  BY OthersStay DEF Others, Active
<1>t. Taken(r) => \A s \in Requests : ~Active(s)
  BY DEF Taken
<1>q. ASSUME Taken(r), NEW o PROVE Quiet(o)
  BY <1>q, <1>t DEF Quiet, BusyOn
<1>1. \A s, v \in Requests : Active(s)' /\ Active(v)' => s = v
  <2>1. CASE Taken(r)
    BY <1>o, <1>t, <2>1
  <2>2. CASE ~Active(r)'
    BY <1>h, <1>o, <2>2
  <2>3. CASE Active(r)
    BY <1>h, <1>o, <2>3
  <2>4. Taken(r) \/ ~Active(r)' \/ Active(r)
    BY DEF Does, DoClick, DoCreate, DoLoad, DoDelete, DoDrop, DoSave, DoItem,
       DoAnnounce, DoMail, DoDecide, DoOffer, DoOfferItems, DoAbort, Active, Clicked
  <2> QED
    BY <2>1, <2>2, <2>3, <2>4
<1>2. ASSUME NEW o \in Ids PROVE "overlap" \notin marks'[o]
  <2>1. CASE DoCreate(r)
    BY <1>h, <2>1 DEF DoCreate, MarksOnly
  <2>2. CASE DoLoad(r) \/ DoDrop(r)
    BY <1>h, <1>q, <2>2 DEF DoLoad, DoDrop
  <2>3. CASE DoDelete(r)
    BY <1>h, <1>q, <2>3 DEF DoDelete, MarksOnly, TypeInv, TypeOK
  <2>4. CASE DoSave(r) \/ DoAbort(r)
    BY <1>h, <2>4 DEF DoSave, DoAbort, MarksOnly
  <2>5. CASE UNCHANGED marks
    BY <1>h, <2>5
  <2> QED
    BY <2>1, <2>2, <2>3, <2>4, <2>5 DEF Does, DoClick, DoItem, DoAnnounce, DoMail,
       DoDecide, DoOffer, DoOfferItems
<1> QED
  BY <1>1, <1>2

LEMMA StructureStep ==
    ASSUME TypeInv, Structure, NEW r \in Requests, Does(r)
    PROVE  Structure'
  BY OnPathStep, FreshStep, KeysStep, AimedStep, OneAtATimeStep DEF Structure

-----------------------------------------------------------------------------
(* Orders on which no handlers overlapped *)

LEMMA MarksGrow ==
    ASSUME TypeInv, NEW r \in Requests, Does(r), NEW o \in Ids
    PROVE  /\ marks[o] \subseteq marks'[o]
           /\ \A h : Spared(o, h)' => Spared(o, h)
<1>1. marks[o] \subseteq marks'[o]
  BY MarksStay DEF DoCreate, MarksOnly
<1> QED
  BY <1>1 DEF Spared

\* Each handler holds the row it loaded or the result of one operation on it.
LEMMA EffectResult ==
    ASSUME NEW q \in Request, NEW row,
           q.kind = "status" => q.code \in StaffCodes,
           q.kind = "decide" => q.code \in Decisions,
           q.kind \in {"submit", "decide"} => q.user \in Customers
    PROVE  Effect(q, row) \in {row} \cup Results(row)
<1>f. q.flag \in BOOLEAN
  BY DEF Request
<1>1. CASE q.kind = "submit"
  BY <1>1 DEF Effect, Results
<1>2. CASE q.kind = "status"
  BY <1>2 DEF Effect, Results
<1>3. CASE q.kind = "decide"
  BY <1>3 DEF Effect, Results
<1>4. CASE q.kind \in {"address", "reference", "offer"}
  BY <1>4 DEF Effect, Results
<1>5. CASE q.kind = "edit"
  BY <1>f, <1>5 DEF Effect, Results
<1>6. CASE q.kind \notin {"submit", "status", "decide", "address", "reference",
                          "offer", "edit"}
  BY <1>6 DEF Effect
<1> QED
  BY <1>1, <1>2, <1>3, <1>4, <1>5, <1>6

\* The slots a step does not touch are busy with the same orders.
LEMMA OthersBusy ==
    ASSUME NEW r \in Requests, Does(r), NEW o
    PROVE  /\ \A s \in Requests \ {r} : (BusyOn(s, o)' <=> BusyOn(s, o)) /\ req'[s] = req[s]
           /\ ~BusyOn(r, o) /\ ~BusyOn(r, o)' => (Quiet(o)' <=> Quiet(o))
           /\ BusyOn(r, o)' => ~Quiet(o)'
           /\ BusyOn(r, o) => ~Quiet(o)
<1>1. \A s \in Requests \ {r} : (BusyOn(s, o)' <=> BusyOn(s, o)) /\ req'[s] = req[s]
  BY OthersStay DEF Others, BusyOn, Active
<1> QED
  BY <1>1 DEF Quiet

LEMMA UndisturbedStep ==
    ASSUME TypeInv, Structure, NEW r \in Requests, Does(r), NEW o \in Ids,
           Undisturbed(o), Spared(o, {"overlap"})'
    PROVE  Undisturbed(o)'
<1>t. /\ req \in [Requests -> Request] /\ req[r] \in Request /\ live \subseteq Ids
      /\ orders \in [Ids -> Row]
  BY DEF TypeInv, TypeOK
<1>n. "overlap" \notin marks'[o]
  BY DEF Spared
<1>b. \A s \in Requests \ {r} : (BusyOn(s, o)' <=> BusyOn(s, o)) /\ req'[s] = req[s]
  BY OthersBusy
<1>f. Free.pc = "free" /\ (req'[r] = Free => ~BusyOn(r, o)')
  BY DEF Free, BusyOn, Active
<1>u. /\ \A s, v \in Requests : BusyOn(s, o) /\ BusyOn(v, o) => s = v
      /\ o \notin live => Quiet(o)
      /\ "deleted" \in marks[o] => o \notin live
      /\ \A s \in Requests : BusyOn(s, o) =>
           req[s].row \in {orders[o]} \cup Results(orders[o])
  BY DEF Undisturbed
\* A step that leaves the row alone and takes nothing up on it.
<1>k. ASSUME o \in live' <=> o \in live, orders'[o] = orders[o],
             BusyOn(r, o)' => BusyOn(r, o) /\ req'[r].row = req[r].row,
             "deleted" \in marks'[o] => "deleted" \in marks[o]
      PROVE  Undisturbed(o)'
  <2>1. o \notin live' => Quiet(o)'
    BY <1>b, <1>k, <1>u DEF Quiet
  <2>2. \A s, v \in Requests : BusyOn(s, o)' /\ BusyOn(v, o)' => s = v
    BY <1>b, <1>k, <1>u
  <2>3. \A s \in Requests : BusyOn(s, o)' =>
          req'[s].row \in {orders'[o]} \cup Results(orders'[o])
    BY <1>b, <1>k, <1>u
  <2>4. "deleted" \in marks'[o] => o \notin live'
    BY <1>k, <1>u
  <2> QED
    BY <2>1, <2>2, <2>3, <2>4 DEF Undisturbed
\* A step that takes it up.
<1>l. ASSUME o \in live', Quiet(o) \/ BusyOn(r, o), "deleted" \notin marks'[o],
             req'[r].row \in {orders'[o]} \cup Results(orders'[o])
      PROVE  Undisturbed(o)'
  <2>1. \A s \in Requests : BusyOn(s, o)' => s = r
    BY <1>b, <1>l, <1>u DEF Quiet
  <2> QED
    BY <1>l, <2>1 DEF Undisturbed
<1>1. CASE DoClick(r)
  <2>1. ~BusyOn(r, o)'
    BY <1>1 DEF DoClick, Clicked, BusyOn, Active
  <2> QED
    BY <1>1, <1>k, <2>1 DEF DoClick, KeepsRows
<1>2. CASE DoCreate(r)
  <2>1. CASE o = nextOrder
    <3>1. Quiet(o) /\ marks[o] = {}
      BY <1>t, <2>1 DEF Structure, Fresh, Quiet, BusyOn, Ids
    <3>2. o \in live' /\ "deleted" \notin marks'[o]
      BY <1>2, <2>1, <3>1 DEF DoCreate, MarksOnly
    <3>3. req'[r].row \in {orders'[o]} \cup Results(orders'[o])
      BY <1>2, <2>1 DEF DoCreate, Results
    <3> QED
      BY <1>l, <3>1, <3>2, <3>3
  <2>2. CASE o # nextOrder
    BY <1>2, <1>k, <2>2 DEF DoCreate, MarksOnly, BusyOn
  <2> QED
    BY <2>1, <2>2
<1>3. CASE DoLoad(r)
  <2>r. KeepsRows /\ (req[r].order # o => marks'[o] = marks[o])
        /\ "deleted" \notin marks'[o] \ marks[o]
    BY <1>3 DEF DoLoad, MarksOnly
  <2>1. CASE req[r].order = o
    <3>1. Quiet(o) /\ o \in live /\ "deleted" \notin marks'[o]
      BY <1>3, <1>n, <1>u, <2>1, <2>r DEF DoLoad
    <3>2. req'[r].row \in {orders[o]} \cup Results(orders[o])
      BY <1>3, <1>t, <2>1, EffectResult DEF DoLoad, TypeInv, WellFormed
    <3> QED
      BY <1>l, <2>r, <3>1, <3>2 DEF KeepsRows
  <2>2. CASE req[r].order # o
    BY <1>3, <1>k, <2>2, <2>r DEF DoLoad, KeepsRows, BusyOn, SameRequest
  <2> QED
    BY <2>1, <2>2
<1>4. CASE DoDelete(r)
  <2>1. CASE req[r].order = o
    <3>1. Quiet(o) /\ o \notin live' /\ ~BusyOn(r, o)'
      BY <1>4, <1>n, <1>f, <2>1 DEF DoDelete
    <3>2. \A s \in Requests : ~BusyOn(s, o)'
      BY <1>b, <3>1 DEF Quiet
    <3> QED
      BY <3>1, <3>2 DEF Undisturbed, Quiet
  <2>2. CASE req[r].order # o
    BY <1>4, <1>k, <1>f, <2>2 DEF DoDelete, MarksOnly
  <2> QED
    BY <2>1, <2>2
<1>5. CASE DoDrop(r) \/ DoAbort(r)
  BY <1>5, <1>k, <1>f DEF DoDrop, DoAbort, MarksOnly, KeepsRows
<1>6. CASE DoSave(r)
  <2>1. Active(r)
    BY <1>6 DEF DoSave, Active
  <2>2. CASE req[r].order = o
    <3>1. BusyOn(r, o) /\ o \in live /\ o \in live' /\ "deleted" \notin marks'[o]
      BY <1>6, <1>u, <2>1, <2>2 DEF BusyOn, Quiet, DoSave, MarksOnly
    <3>2. CASE req'[r] = Free
      <4>1. \A s \in Requests : ~BusyOn(s, o)'
        BY <1>b, <1>f, <1>u, <3>1, <3>2
      <4> QED
        BY <3>1, <4>1 DEF Undisturbed
    <3>3. CASE req'[r].row = req[r].row
      BY <1>6, <1>l, <2>2, <3>1, <3>3 DEF DoSave
    <3>4. CASE req'[r].row = [req[r].row EXCEPT !.draft = req[r].flag]
      <4>1. req[r].flag \in BOOLEAN
        BY <1>t DEF Request
      <4>2. req'[r].row \in Results(orders'[o])
        BY <1>6, <2>2, <3>4, <4>1 DEF DoSave, Results
      <4> QED
        BY <1>l, <3>1, <4>2
    <3> QED
      BY <1>6, <3>2, <3>3, <3>4 DEF DoSave, MovesTo
  <2>3. CASE req[r].order # o
    <3>1. ~BusyOn(r, o)'
      BY <1>6, <1>f, <2>3 DEF DoSave, MovesTo, SameRequest, BusyOn
    <3> QED
      BY <1>6, <1>k, <2>3, <3>1 DEF DoSave, MarksOnly
  <2> QED
    BY <2>2, <2>3
<1>7. CASE DoItem(r) \/ DoAnnounce(r) \/ DoMail(r) \/ DoDecide(r) \/ DoOffer(r)
           \/ DoOfferItems(r)
  <2>1. KeepsRows /\ UNCHANGED marks
    BY <1>7 DEF DoItem, DoAnnounce, DoMail, DoDecide, DoOffer, DoOfferItems
  <2>2. Active(r)
    BY <1>7 DEF DoItem, DoAnnounce, DoMail, DoDecide, DoOffer, DoOfferItems, Active
  <2>3. req'[r] = Free \/ (req'[r].order = req[r].order /\ req'[r].row = req[r].row)
    BY <1>7 DEF DoItem, DoAnnounce, DoMail, DoDecide, DoOffer, DoOfferItems,
       EndsOrMovesTo, MovesTo, SameRequest
  <2> QED
    BY <1>k, <1>f, <2>1, <2>2, <2>3 DEF KeepsRows, BusyOn
<1> QED
  BY <1>1, <1>2, <1>3, <1>4, <1>5, <1>6, <1>7 DEF Does

-----------------------------------------------------------------------------
(* A step seen from an order that is spared *)

\* The step is not about order o.
Elsewhere(r, o) ==
    /\ o \in live /\ orders'[o] = orders[o] /\ OffersOf(o)' = OffersOf(o)
    /\ ~BusyOn(r, o) /\ ~BusyOn(r, o)'
    /\ req'[r].pc = "sent" => Clicked(req'[r])
    /\ \/ logs' = logs
       \/ \E e : logs' = Append(logs, e) /\ e.order # o
    /\ \/ tasks' = tasks
       \/ \E t : tasks' = Append(tasks, t) /\ t.order # o

\* It creates the order.
Born(r, o) ==
    /\ DoCreate(r) /\ o = nextOrder /\ o \notin live /\ OffersOf(o) = {}
    /\ \A s \in Requests : ~BusyOn(s, o) /\ req[s].order # o

\* It takes up a request on the order, or goes on with the only one.
TakesUp(r, o) ==
    /\ DoLoad(r) /\ req[r].order = o /\ o \in live /\ Quiet(o)

GoesOn(r, o) ==
    /\ o \in live /\ BusyOn(r, o) /\ \A s \in Requests \ {r} : ~BusyOn(s, o)
    /\ \/ DoSave(r) \/ DoItem(r) \/ DoAnnounce(r) \/ DoMail(r) \/ DoDecide(r)
       \/ DoOffer(r) \/ DoOfferItems(r)

LEMMA SpecialSteps ==
    ASSUME TypeInv, Structure, NEW r \in Requests, Does(r), NEW o \in Ids,
           Undisturbed(o), o \in live', Spared(o, {"overlap", "abort"})'
    PROVE  Elsewhere(r, o) \/ Born(r, o) \/ TakesUp(r, o) \/ GoesOn(r, o)
<1>t. /\ req[r] \in Request /\ live \subseteq Ids
  BY DEF TypeInv, TypeOK
<1>n. "overlap" \notin marks'[o] /\ "abort" \notin marks'[o]
  BY DEF Spared
<1>f. req'[r] = Free => ~BusyOn(r, o)' /\ req'[r].pc # "sent"
  BY DEF Free, BusyOn, Active
<1>u. /\ \A s, v \in Requests : BusyOn(s, o) /\ BusyOn(v, o) => s = v
      /\ o \notin live => Quiet(o)
  BY DEF Undisturbed
<1>1. CASE DoClick(r)
  <2>1. ~BusyOn(r, o) /\ ~BusyOn(r, o)' /\ Clicked(req'[r])
    BY <1>1 DEF DoClick, Clicked, BusyOn, Active
  <2> QED
    BY <1>1, <2>1 DEF DoClick, KeepsRows, KeepsOffers, KeepsWord, OffersOf, Elsewhere
<1>2. CASE DoCreate(r)
  <2>1. CASE o = nextOrder
    <3>1. \A s \in Requests : req[s].order # o
      BY <2>1 DEF Structure, Fresh, Ids
    <3>2. o \notin live /\ OffersOf(o) = {}
      BY <2>1 DEF Structure, Fresh, Ids, Keys, OffersOf
    <3> QED
      BY <1>2, <2>1, <3>1, <3>2 DEF Born, BusyOn
  <2>2. CASE o # nextOrder
    <3>1. ~BusyOn(r, o) /\ ~BusyOn(r, o)' /\ req'[r].pc # "sent"
      BY <1>2, <2>2 DEF DoCreate, BusyOn, Taken, Active
    <3> QED
      BY <1>2, <2>2, <3>1 DEF DoCreate, KeepsOffers, KeepsWord, OffersOf, Elsewhere
  <2> QED
    BY <2>1, <2>2
<1>3. CASE DoLoad(r)
  <2>1. CASE req[r].order = o
    BY <1>3, <1>n, <2>1 DEF DoLoad, TakesUp
  <2>2. CASE req[r].order # o
    <3>1. ~BusyOn(r, o) /\ ~BusyOn(r, o)'
      BY <2>2, <1>3 DEF DoLoad, SameRequest, BusyOn
    <3>2. req'[r].pc # "sent"
      BY <1>3 DEF DoLoad, FirstStep
    <3> QED
      BY <1>3, <2>2, <3>1, <3>2 DEF DoLoad, KeepsRows, KeepsOffers, KeepsWord, OffersOf, Elsewhere
  <2> QED
    BY <2>1, <2>2
<1>4. CASE DoDelete(r)
  <2>1. req[r].order # o /\ o \in live
    BY <1>4 DEF DoDelete
  <2>2. OffersOf(o)' = OffersOf(o)
    BY <1>4, <2>1 DEF DoDelete, OffersOf
  <2>3. ~BusyOn(r, o) /\ ~BusyOn(r, o)' /\ req'[r].pc # "sent"
    BY <1>4, <1>f, <2>1 DEF DoDelete, BusyOn
  <2> QED
    BY <1>4, <2>1, <2>2, <2>3 DEF DoDelete, KeepsWord, Elsewhere
<1>5. CASE DoDrop(r)
  <2>1. ~BusyOn(r, o) /\ ~BusyOn(r, o)' /\ req'[r].pc # "sent"
    BY <1>5, <1>f DEF DoDrop, Taken, BusyOn, Active
  <2> QED
    BY <1>5, <2>1 DEF DoDrop, KeepsRows, KeepsOffers, KeepsWord, OffersOf, Elsewhere
<1>6. CASE DoAbort(r)
  <2>1. req[r].order # o
    BY <1>6, <1>n DEF DoAbort
  <2>2. ~BusyOn(r, o) /\ ~BusyOn(r, o)' /\ req'[r].pc # "sent"
    BY <1>6, <1>f, <2>1 DEF DoAbort, BusyOn
  <2> QED
    BY <1>6, <2>2 DEF DoAbort, KeepsRows, KeepsOffers, KeepsWord, OffersOf, Elsewhere
<1>7. CASE \/ DoSave(r) \/ DoItem(r) \/ DoAnnounce(r) \/ DoMail(r) \/ DoDecide(r)
           \/ DoOffer(r) \/ DoOfferItems(r)
  <2>1. Active(r)
    BY <1>7 DEF DoSave, DoItem, DoAnnounce, DoMail, DoDecide, DoOffer, DoOfferItems, Active
  <2>2. CASE req[r].order = o
    <3>1. BusyOn(r, o)
      BY <2>1, <2>2 DEF BusyOn
    <3>2. o \in live /\ \A s \in Requests \ {r} : ~BusyOn(s, o)
      BY <1>u, <3>1 DEF Quiet
    <3> QED
      BY <1>7, <3>1, <3>2 DEF GoesOn
  <2>3. CASE req[r].order # o
    <3>1. ~BusyOn(r, o) /\ ~BusyOn(r, o)'
      BY <1>7, <1>f, <2>3 DEF DoSave, DoItem, DoAnnounce, DoMail, DoDecide, DoOffer,
         DoOfferItems, EndsOrMovesTo, MovesTo, SameRequest, BusyOn
    <3>2. req'[r].pc # "sent"
      <4>1. AfterAnnounce(req[r]) # "sent" /\ AfterMail(req[r]) # "sent"
        BY DEF AfterAnnounce, AfterMail
      <4> QED
        BY <1>7, <1>f, <4>1 DEF DoSave, DoItem, DoAnnounce, DoMail, DoDecide, DoOffer,
           DoOfferItems, EndsOrMovesTo, MovesTo
    <3>3. o \in live /\ orders'[o] = orders[o]
      BY <1>7, <2>3 DEF DoSave, DoItem, DoAnnounce, DoMail, DoDecide, DoOffer,
         DoOfferItems, KeepsRows
    <3>4. OffersOf(o)' = OffersOf(o)
      <4>1. CASE DoSave(r) \/ DoItem(r) \/ DoAnnounce(r) \/ DoMail(r)
        BY <4>1 DEF DoSave, DoItem, DoAnnounce, DoMail, KeepsOffers, OffersOf
      <4>2. CASE DoDecide(r) \/ DoOfferItems(r)
        <5>1. PICK f, g : OfferChanges(r, f, g)
          BY <4>2 DEF DoDecide, DoOfferItems
        <5>2. Aims(r)
          BY <4>2 DEF DoDecide, DoOfferItems, Aims, TypeInv, WellFormed
        <5>3. f.order # o /\ g.order # o
          BY <2>3, <5>1, <5>2 DEF OfferChanges, Structure, Aimed
        <5> QED
          BY <5>1, <5>3 DEF OfferChanges, OffersOf
      <4>3. CASE DoOffer(r)
        BY <2>3, <4>3 DEF DoOffer, OffersOf
      <4> QED
        BY <1>7, <4>1, <4>2, <4>3
    <3>5. \/ logs' = logs
          \/ \E e : logs' = Append(logs, e) /\ e.order # o
      BY <1>7, <2>3 DEF DoSave, DoItem, DoAnnounce, DoMail, DoDecide, DoOffer,
         DoOfferItems, KeepsWord
    <3>6. \/ tasks' = tasks
          \/ \E t : tasks' = Append(tasks, t) /\ t.order # o
      BY <1>7, <2>3 DEF DoSave, DoItem, DoAnnounce, DoMail, DoDecide, DoOffer,
         DoOfferItems, KeepsWord
    <3> QED
      BY <3>1, <3>2, <3>3, <3>4, <3>5, <3>6 DEF Elsewhere
  <2> QED
    BY <2>2, <2>3
<1> QED
  BY <1>1, <1>2, <1>3, <1>4, <1>5, <1>6, <1>7 DEF Does

-----------------------------------------------------------------------------
(* The numbers of the offers *)

\* Writing a column of an offer renumbers nothing.
LEMMA ChangeKeepsNumbers ==
    ASSUME TypeInv, Keys, NEW r \in Requests, NEW f, NEW g, OfferChanges(r, f, g),
           NEW o \in Ids, NEW n \in Int, Reached(o, n)
    PROVE  Reached(o, n)'
<1>1. Versions(o)' = Versions(o)
  BY DEF OfferChanges, Versions, OffersOf
<1>2. ASSUME NEW a \in OffersOf(o)', NEW b \in OffersOf(o)', a.version = b.version
      PROVE  a = b
  <2>1. \A x, y \in OffersOf(o) : x.version = y.version => x = y
    BY DEF Reached
  <2>2. CASE a = g
    BY <1>2, <2>1, <2>2 DEF OfferChanges, OffersOf
  <2>3. CASE b = g
    BY <1>2, <2>1, <2>3 DEF OfferChanges, OffersOf
  <2>4. CASE a # g /\ b # g
    BY <1>2, <2>1, <2>4 DEF OfferChanges, OffersOf
  <2> QED
    BY <2>2, <2>3, <2>4
<1> QED
  BY <1>1, <1>2 DEF Reached

\* A new offer with the next number.
LEMMA NextNumber ==
    ASSUME NEW o \in Ids, NEW n \in Nat, n >= 1, Reached(o, n - 1), NEW g,
           offers' = offers \cup {g}, g.order = o, g.version = n
    PROVE  Reached(o, n)'
<1>1. OffersOf(o)' = OffersOf(o) \cup {g}
  BY DEF OffersOf
<1>2. Versions(o)' = 1 .. n
  <2>1. Versions(o)' = Versions(o) \cup {n}
    BY <1>1 DEF Versions
  <2> QED
    BY <2>1 DEF Reached
<1>3. \A f \in OffersOf(o) : f.version # n
  BY DEF Reached, Versions
<1>4. \A a, b \in OffersOf(o)' : a.version = b.version => a = b
  BY <1>1, <1>3 DEF Reached
<1> QED
  BY <1>2, <1>4 DEF Reached

\* Only an offer counts offer_version up.
LEMMA EffectVersion ==
    ASSUME NEW q \in Request, NEW row \in Row
    PROVE  Effect(q, row).fv = IF q.kind = "offer" THEN row.fv + 1 ELSE row.fv
<1>1. CASE q.kind = "submit"
  BY <1>1 DEF Effect, SubmittedRow, Row
<1>2. CASE q.kind = "status"
  BY <1>2 DEF Effect, StaffStatusRow, Row
<1>3. CASE q.kind = "decide"
  BY <1>3 DEF Effect, DecidedRow, Row
<1>4. CASE q.kind = "offer"
  BY <1>4 DEF Effect, OfferedRow, Row
<1>5. CASE q.kind \in {"address", "reference", "edit"}
  BY <1>5 DEF Effect, Row
<1>6. CASE q.kind \notin {"submit", "status", "decide", "address", "reference",
                          "offer", "edit"}
  BY <1>6 DEF Effect
<1> QED
  BY <1>1, <1>2, <1>3, <1>4, <1>5, <1>6

LEMMA NumberedStep ==
    ASSUME TypeInv, Structure, NEW r \in Requests, Does(r), NEW o \in Ids,
           Undisturbed(o), o \in live', Spared(o, {"overlap", "abort"})',
           o \in live => Numbered(o)
    PROVE  Numbered(o)'
<1>t. /\ req[r] \in Request /\ req[r].row \in Row /\ orders[o] \in Row
      /\ \A s \in Requests : req[s].row.fv \in Nat
      /\ orders[o].fv \in Nat /\ offers \subseteq Offer
  BY DEF TypeInv, TypeOK, Request, Row
<1>b. /\ \A s \in Requests \ {r} : (BusyOn(s, o)' <=> BusyOn(s, o)) /\ req'[s] = req[s]
      /\ ~BusyOn(r, o) /\ ~BusyOn(r, o)' => (Quiet(o)' <=> Quiet(o))
      /\ BusyOn(r, o)' => ~Quiet(o)'
      /\ BusyOn(r, o) => ~Quiet(o)
  BY OthersBusy
<1>f. req'[r] = Free => ~BusyOn(r, o)'
  BY DEF Free, BusyOn, Active
<1>k. Keys /\ Aimed /\ OnPath
  BY DEF Structure
<1>1. CASE Elsewhere(r, o)
  <2>1. Numbered(o) /\ orders'[o] = orders[o] /\ OffersOf(o)' = OffersOf(o)
        /\ ~BusyOn(r, o) /\ ~BusyOn(r, o)'
    BY <1>1 DEF Elsewhere
  <2>2. \A n : Reached(o, n)' <=> Reached(o, n)
    BY <2>1 DEF Reached, Versions
  <2>3. Whole(o)' <=> Whole(o)
    BY <2>1 DEF Whole
  <2>4. Quiet(o)' => Reached(o, orders[o].fv)' /\ Whole(o)'
    BY <1>b, <2>1, <2>2, <2>3 DEF Numbered
  <2>5. ASSUME NEW s \in Requests, BusyOn(s, o)'
        PROVE  IF ~Making(s)'
                 THEN /\ req'[s].row.fv = orders'[o].fv
                      /\ Reached(o, req[s].row.fv)' /\ Whole(o)'
                 ELSE /\ req'[s].row.fv >= 1
                      /\ req'[s].row.fv = IF req'[s].pc = "save" THEN orders'[o].fv + 1
                                         ELSE orders'[o].fv
                      /\ Reached(o, IF req[s].pc \in {"save", "offerRow"}
                                    THEN req[s].row.fv - 1 ELSE req[s].row.fv)'
                      /\ \A f \in OffersOf(o)' :
                            f.complete \/ (req'[s].pc = "offerItems" /\ f.id = req'[s].target)
    <3>1. s # r /\ BusyOn(s, o) /\ req'[s] = req[s]
      BY <1>b, <2>1, <2>5
    <3>2. Making(s)' <=> Making(s)
      BY <3>1 DEF Making
    <3> QED
      BY <2>1, <2>2, <2>3, <3>1, <3>2 DEF Numbered
  <2> QED
    BY <2>1, <2>4, <2>5 DEF Numbered
\* From here on r is the only request at work on the order.
<1>h. ASSUME \A s \in Requests : BusyOn(s, o)' => s = r,
             ~BusyOn(r, o)' => Reached(o, orders[o].fv)' /\ Whole(o)',
             BusyOn(r, o)' =>
               IF ~Making(r)'
                 THEN /\ req'[r].row.fv = orders'[o].fv
                      /\ Reached(o, req[r].row.fv)' /\ Whole(o)'
                 ELSE /\ req'[r].row.fv >= 1
                      /\ req'[r].row.fv = IF req'[r].pc = "save" THEN orders'[o].fv + 1
                                         ELSE orders'[o].fv
                      /\ Reached(o, IF req[r].pc \in {"save", "offerRow"}
                                    THEN req[r].row.fv - 1 ELSE req[r].row.fv)'
                      /\ \A f \in OffersOf(o)' :
                            f.complete \/ (req'[r].pc = "offerItems" /\ f.id = req'[r].target)
      PROVE  Numbered(o)'
  BY <1>h, <1>b DEF Numbered
<1>2. CASE Born(r, o)
  <2>1. OffersOf(o)' = {} /\ \A s \in Requests : BusyOn(s, o)' => s = r
    BY <1>2, <1>b DEF Born, DoCreate, KeepsOffers, OffersOf
  <2>2. Reached(o, 0)' /\ Whole(o)'
    <3>1. Versions(o)' = {}
      BY <2>1 DEF Versions
    <3> QED
      BY <2>1, <3>1 DEF Reached, Whole
  <2>3. BusyOn(r, o)'
    BY <1>2 DEF Born, DoCreate, BusyOn, Active
  <2>4. CASE req[r].kind = "new"
    <3>1. /\ req'[r].kind = "new" /\ orders'[o].fv = 0 /\ req'[r].row.fv = 0
      BY <1>2, <2>4 DEF Born, DoCreate, CreatedRow, RequestRow
    <3> QED
      BY <1>h, <2>1, <2>2, <2>3, <3>1 DEF Making
  <2>5. CASE req[r].kind = "blank"
    <3>1. /\ req'[r].kind = "blank" /\ orders'[o].fv = 0 /\ req'[r].row.fv = 1
          /\ req'[r].pc = "save"
      <4>1. /\ req'[r].kind = "blank" /\ orders'[o] = BlankCreatedRow
            /\ req'[r].pc = "save"
            /\ \E ref \in BOOLEAN :
                 req'[r].row = OfferedRow(BlankRow(BlankCreatedRow, ref))
        BY <1>2, <2>5 DEF Born, DoCreate
      <4>2. BlankCreatedRow.fv = 0
        BY DEF CreatedRow, BlankCreatedRow
      <4>3. \A ref \in BOOLEAN : OfferedRow(BlankRow(BlankCreatedRow, ref)).fv = 1
        BY DEF CreatedRow, BlankCreatedRow, OfferedRow, BlankRow
      <4> QED
        BY <4>1, <4>2, <4>3
    <3>2. req'[r].row.fv - 1 = 0
      BY <3>1
    <3>3. Reached(o, req[r].row.fv - 1)'
      BY <2>2, <3>2
    <3>4. Making(r)'
      BY <3>1 DEF Making
    <3> QED
      BY <1>h, <2>1, <2>2, <2>3, <3>1, <3>3, <3>4 DEF Whole
  <2> QED
    BY <1>2, <2>4, <2>5 DEF Born, DoCreate
<1>3. CASE TakesUp(r, o)
  <2>1. /\ Reached(o, orders[o].fv) /\ Whole(o) /\ orders'[o] = orders[o]
        /\ OffersOf(o)' = OffersOf(o) /\ req'[r].kind = req[r].kind
        /\ req[r].kind \in OnRow
    BY <1>3 DEF TakesUp, Numbered, DoLoad, KeepsRows, KeepsOffers, OffersOf, SameRequest
  <2>2. \A n : Reached(o, n)' <=> Reached(o, n)
    BY <2>1 DEF Reached, Versions
  <2>3. Whole(o)'
    BY <2>1 DEF Whole
  <2>4. /\ \A s \in Requests : BusyOn(s, o)' => s = r
        /\ BusyOn(r, o)'
    <3>1. \A s \in Requests : ~BusyOn(s, o)
      BY <1>3 DEF TakesUp, Quiet
    <3>2. req'[r].order = o /\ req'[r].pc = FirstStep(req[r], orders[o])
      BY <1>3 DEF TakesUp, DoLoad, SameRequest
    <3>3. FirstStep(req[r], orders[o]) \notin {"free", "sent"}
      BY DEF FirstStep
    <3> QED
      BY <1>b, <3>1, <3>2, <3>3 DEF BusyOn, Active
  <2>5. req'[r].row.fv = IF req[r].kind = "offer" THEN orders[o].fv + 1 ELSE orders[o].fv
    BY <1>3, <1>t, EffectVersion DEF TakesUp, DoLoad
  <2>6. CASE req[r].kind = "offer"
    <3>1. req'[r].pc = "save"
      BY <1>3, <2>6 DEF TakesUp, DoLoad, FirstStep
    <3>2. Reached(o, req[r].row.fv - 1)'
      BY <1>t, <2>1, <2>2, <2>5, <2>6
    <3> QED
      BY <1>h, <1>t, <2>1, <2>3, <2>4, <2>5, <2>6, <3>1, <3>2 DEF Making, Whole
  <2>7. CASE req[r].kind # "offer"
    <3>1. ~Making(r)'
      BY <2>1, <2>7 DEF Making, OnRow
    <3>2. Reached(o, req[r].row.fv)'
      BY <2>1, <2>2, <2>5, <2>7
    <3> QED
      BY <1>h, <2>1, <2>3, <2>4, <2>5, <2>7, <3>1, <3>2
  <2> QED
    BY <2>6, <2>7
<1>4. CASE GoesOn(r, o)
  <2>0. /\ BusyOn(r, o) /\ req[r].order = o /\ Active(r) /\ req[r].pc \in Path(req[r].kind)
        /\ \A s \in Requests : BusyOn(s, o)' => s = r
    BY <1>4, <1>b, <1>k DEF GoesOn, BusyOn, OnPath
  <2>m. /\ Making(r) => req[r].pc \in {"save", "offerRow", "offerItems", "announce", "mail"}
        /\ req[r].pc \in {"offerRow", "offerItems"} => Making(r)
        /\ req[r].pc \in {"saveNew", "saveDraft", "item", "decide"} => ~Making(r)
    BY <2>0 DEF Path, Making
  <2>n. ~Making(r) => /\ req[r].row.fv = orders[o].fv
                      /\ Reached(o, req[r].row.fv) /\ Whole(o)
    BY <1>4, <2>0 DEF GoesOn, Numbered
  <2>o. Making(r) =>
           /\ req[r].row.fv >= 1
           /\ req[r].row.fv = IF req[r].pc = "save" THEN orders[o].fv + 1
                              ELSE orders[o].fv
           /\ Reached(o, IF req[r].pc \in {"save", "offerRow"}
                         THEN req[r].row.fv - 1 ELSE req[r].row.fv)
           /\ \A f \in OffersOf(o) :
                 f.complete \/ (req[r].pc = "offerItems" /\ f.id = req[r].target)
    BY <1>4, <2>0 DEF GoesOn, Numbered
  \* Steps that write no offer.
  <2>1. CASE DoSave(r) \/ DoItem(r) \/ DoAnnounce(r) \/ DoMail(r)
    <3>1. OffersOf(o)' = OffersOf(o)
      BY <2>1 DEF DoSave, DoItem, DoAnnounce, DoMail, KeepsOffers, OffersOf
    <3>2. \A n : Reached(o, n)' <=> Reached(o, n)
      BY <3>1 DEF Reached, Versions
    <3>3. Whole(o)' <=> Whole(o)
      BY <3>1 DEF Whole
    <3>4. CASE DoSave(r)
      <4>1. orders'[o] = req[r].row
        BY <2>0, <3>4 DEF DoSave
      <4>2. CASE ~Making(r)
        <5>1. req'[r] = Free \/ /\ req'[r].row.fv = req[r].row.fv
                                /\ req'[r].kind = req[r].kind
          BY <1>t, <3>4, <4>2 DEF DoSave, MovesTo, SameRequest, Row
        <5>2. Reached(o, req[r].row.fv)' \/ req'[r] = Free
          BY <2>n, <3>2, <4>2, <5>1
        <5>3. Reached(o, orders[o].fv)'
          BY <2>n, <3>2, <4>1, <4>2
        <5> QED
          BY <1>h, <1>f, <2>0, <2>n, <3>3, <4>1, <4>2, <5>1, <5>2, <5>3 DEF Making
      <4>3. CASE Making(r)
        <5>1. req[r].pc = "save" /\ MovesTo(r, "offerRow")
          BY <2>m, <3>4, <4>3 DEF DoSave
        <5>2. Reached(o, req[r].row.fv - 1)'
          BY <2>o, <3>2, <4>3, <5>1 DEF MovesTo
        <5>3. BusyOn(r, o)' /\ Making(r)'
          BY <2>0, <4>3, <5>1 DEF MovesTo, SameRequest, BusyOn, Active, Making
        <5> QED
          BY <1>h, <2>0, <2>o, <3>1, <4>1, <4>3, <5>1, <5>2, <5>3 DEF MovesTo
      <4> QED
        BY <4>2, <4>3
    <3>5. CASE DoItem(r) \/ DoAnnounce(r) \/ DoMail(r)
      <4>1. orders'[o] = orders[o]
        BY <3>5 DEF DoItem, DoAnnounce, DoMail, KeepsRows
      <4>2. \/ req'[r] = Free
            \/ /\ req'[r].row = req[r].row /\ req'[r].kind = req[r].kind
               /\ Making(r) => req'[r].pc \notin {"save", "offerRow"}
        <5>1. CASE DoItem(r)
          BY <5>1 DEF DoItem, MovesTo, SameRequest
        <5>2. CASE DoAnnounce(r)
          BY <5>2 DEF DoAnnounce, EndsOrMovesTo, MovesTo, SameRequest, Making, AfterAnnounce
        <5>3. CASE DoMail(r)
          BY <5>3 DEF DoMail, EndsOrMovesTo, MovesTo, SameRequest, Making, AfterMail
        <5> QED
          BY <3>5, <5>1, <5>2, <5>3
      <4>3. req[r].pc \in {"item", "announce", "mail"}
        BY <3>5 DEF DoItem, DoAnnounce, DoMail
      <4>4. req[r].row.fv = orders[o].fv /\ Reached(o, req[r].row.fv) /\ Whole(o)
        BY <2>n, <2>o, <4>3 DEF Whole
      <4>5. Reached(o, orders[o].fv)' /\ (req'[r].row = req[r].row => Reached(o, req[r].row.fv)')
        BY <3>2, <4>1, <4>4
      <4> QED
        BY <1>h, <1>f, <2>0, <2>o, <3>1, <3>3, <4>1, <4>2, <4>4, <4>5 DEF Making, Whole
    <3> QED
      BY <2>1, <3>4, <3>5
  <2>2. CASE DoDecide(r)
    <3>1. PICK f, g : OfferChanges(r, f, g) /\ g.complete = f.complete
      BY <2>2 DEF DoDecide
    <3>2. ~Making(r)
      BY <2>2, <2>m DEF DoDecide
    <3>3. /\ orders'[o] = orders[o] /\ req'[r].row = req[r].row
          /\ req'[r].kind = req[r].kind
      BY <2>2 DEF DoDecide, KeepsRows, MovesTo, SameRequest
    <3>4. Reached(o, orders[o].fv)' /\ Reached(o, req[r].row.fv)'
      BY <1>t, <1>k, <2>n, <3>1, <3>2, <3>3, ChangeKeepsNumbers
    <3>5. Whole(o)'
      BY <2>n, <3>1, <3>2 DEF Whole, OffersOf, OfferChanges
    <3> QED
      BY <1>h, <2>0, <2>n, <3>2, <3>3, <3>4, <3>5 DEF Making
  <2>3. CASE DoOffer(r)
    <3>1. PICK g : /\ offers' = offers \cup {g} /\ g.id = nextOffer
                   /\ g.order = o /\ g.version = req[r].row.fv
      BY <2>0, <2>3 DEF DoOffer
    <3>2. /\ orders'[o] = orders[o] /\ req'[r].row = req[r].row
          /\ req'[r].kind = req[r].kind /\ req'[r].pc = "offerItems"
          /\ req'[r].target = nextOffer /\ Making(r) /\ req[r].pc = "offerRow"
      BY <2>3, <2>m DEF DoOffer, KeepsRows, SameRequest
    <3>3. BusyOn(r, o)' /\ Making(r)'
      BY <2>0, <2>3, <3>2 DEF BusyOn, Active, Making, DoOffer, SameRequest
    <3>4. Reached(o, req[r].row.fv)'
      BY <1>t, <2>o, <3>1, <3>2, NextNumber
    <3>5. \A f \in OffersOf(o)' : f.complete \/ f.id = nextOffer
      BY <2>o, <3>1, <3>2 DEF OffersOf
    <3> QED
      BY <1>h, <2>0, <2>o, <3>2, <3>3, <3>4, <3>5
  <2>4. CASE DoOfferItems(r)
    <3>1. PICK f, g : OfferChanges(r, f, g) /\ g.complete
      BY <2>4 DEF DoOfferItems
    <3>2. /\ orders'[o] = orders[o] /\ req'[r].row = req[r].row
          /\ req'[r].kind = req[r].kind /\ req'[r].pc = "announce"
          /\ Making(r) /\ req[r].pc = "offerItems"
      BY <2>4, <2>m DEF DoOfferItems, KeepsRows, MovesTo, SameRequest
    <3>3. BusyOn(r, o)' /\ Making(r)'
      BY <2>0, <2>4, <3>2 DEF BusyOn, Active, Making, DoOfferItems, MovesTo, SameRequest
    <3>4. Reached(o, req[r].row.fv)'
      BY <1>t, <1>k, <2>o, <3>1, <3>2, ChangeKeepsNumbers
    <3>5. \A h \in OffersOf(o)' : h.complete
      <4>1. TAKE h \in OffersOf(o)'
      <4>2. CASE h = g
        BY <3>1, <4>2
      <4>3. CASE h # g
        <5>1. h \in OffersOf(o) /\ h # f
          BY <3>1, <4>3 DEF OfferChanges, OffersOf
        <5>2. h.id # req[r].target
          BY <1>k, <3>1, <5>1 DEF OfferChanges, OffersOf, Keys
        <5> QED
          BY <2>o, <3>2, <5>1, <5>2
      <4> QED
        BY <4>2, <4>3
    <3> QED
      BY <1>h, <2>0, <2>o, <3>2, <3>3, <3>4, <3>5
  <2> QED
    BY <1>4, <2>1, <2>2, <2>3, <2>4 DEF GoesOn
<1> QED
  BY <1>1, <1>2, <1>3, <1>4, SpecialSteps

-----------------------------------------------------------------------------
(* Decisions *)

\* How a handler comes to hold a decision.
LEMMA EffectDecision ==
    ASSUME NEW q \in Request, NEW row \in Row,
           q.kind = "status" => q.code \in StaffCodes
    PROVE  /\ Effect(q, row).status \in Decisions =>
                \/ Effect(q, row).status = row.status
                \/ q.kind = "decide" /\ q.code # row.status
           /\ q.kind = "decide" /\ q.code # row.status
                => Effect(q, row).status = q.code
           /\ q.kind = "decide" =>
                (FirstStep(q, row) = "save" <=> q.code = row.status)
<1>s. StaffCodes \cap Decisions = {} /\ {"APN", "PEN", "OFR"} \cap Decisions = {}
  BY StaffCodesAssumption DEF Decisions
<1>1. CASE q.kind = "submit"
  BY <1>s, <1>1 DEF Effect, SubmittedRow, Row
<1>2. CASE q.kind = "status"
  BY <1>s, <1>2 DEF Effect, StaffStatusRow, Row
<1>3. CASE q.kind = "decide"
  BY <1>3 DEF Effect, DecidedRow, Row, FirstStep
<1>4. CASE q.kind = "offer"
  BY <1>s, <1>4 DEF Effect, OfferedRow, Row
<1>5. CASE q.kind \in {"address", "reference", "edit"}
  BY <1>5 DEF Effect, Row
<1>6. CASE q.kind \notin {"submit", "status", "decide", "address", "reference",
                          "offer", "edit"}
  BY <1>6 DEF Effect
<1> QED
  BY <1>1, <1>2, <1>3, <1>4, <1>5, <1>6

LEMMA DecidedStep ==
    ASSUME TypeInv, Structure, NEW r \in Requests, Does(r), NEW o \in Ids,
           Undisturbed(o), o \in live', Spared(o, {"overlap", "abort"})',
           o \in live => Decided(o)
    PROVE  Decided(o)'
<1>t. /\ req[r] \in Request /\ req[r].row \in Row /\ orders[o] \in Row
      /\ offers \subseteq Offer
  BY DEF TypeInv, TypeOK, Request
<1>b. /\ \A s \in Requests \ {r} : (BusyOn(s, o)' <=> BusyOn(s, o)) /\ req'[s] = req[s]
      /\ BusyOn(r, o)' => ~Quiet(o)'
  BY OthersBusy
<1>f. req'[r] = Free => ~BusyOn(r, o)' /\ req'[r].pc = "free"
  BY DEF Free, BusyOn, Active
<1>k. Keys /\ Aimed /\ OnPath
  BY DEF Structure
<1>d. {"WRQ", "OFR"} \cap Decisions = {}
  BY DEF Decisions
<1>1. CASE Elsewhere(r, o)
  <2>1. /\ orders'[o] = orders[o] /\ OffersOf(o)' = OffersOf(o)
        /\ ~BusyOn(r, o) /\ ~BusyOn(r, o)' /\ Decided(o)
        /\ req'[r].pc = "sent" => Clicked(req'[r])
    BY <1>1 DEF Elsewhere
  <2>2. \A v : Has(o, v)' <=> Has(o, v)
    BY <2>1 DEF Has
  <2>3. orders'[o].status \in Decisions =>
         \/ Has(o, orders[o].status)'
         \/ \E s \in Requests : BusyOn(s, o)' /\ req'[s].kind = "decide"
                                /\ req'[s].pc = "save"
    <3>1. CASE Has(o, orders[o].status)
      BY <2>1, <2>2, <3>1
    <3>2. ASSUME NEW s \in Requests, BusyOn(s, o), req[s].kind = "decide",
                 req[s].pc = "save"
          PROVE  BusyOn(s, o)' /\ req'[s].kind = "decide" /\ req'[s].pc = "save"
      BY <1>b, <2>1, <3>2
    <3> QED
      BY <2>1, <3>1, <3>2 DEF Decided
  <2>4. ASSUME NEW s \in Requests, BusyOn(s, o)'
        PROVE  /\ req'[s].row.status \in Decisions =>
                    \/ Has(o, req[s].row.status)'
                    \/ req'[s].kind = "decide" /\ req'[s].pc # "save"
               /\ req'[s].kind = "decide" /\ req'[s].pc # "save"
                    => req'[s].row.status = req'[s].code
    <3>1. s # r /\ BusyOn(s, o) /\ req'[s] = req[s]
      BY <1>b, <2>1, <2>4
    <3> QED
      BY <2>1, <2>2, <3>1 DEF Decided
  <2>5. ASSUME NEW s \in Requests, req'[s].pc # "free", req'[s].kind = "decide",
               req'[s].order = o
        PROVE  OffersOf(o)' # {}
    <3>1. CASE s # r
      BY <1>b, <2>1, <2>5, <3>1 DEF Decided
    <3>2. CASE s = r
      <4>1. Clicked(req'[r])
        BY <2>1, <2>5, <3>2 DEF BusyOn, Active
      <4> QED
        BY <2>1, <2>5, <3>2, <4>1 DEF Clicked, OffersOf
    <3> QED
      BY <3>1, <3>2
  <2> QED
    BY <2>3, <2>4, <2>5 DEF Decided
\* From here on r is the only request at work on the order.
<1>h. ASSUME \A s \in Requests : BusyOn(s, o)' => s = r,
             orders'[o].status \in Decisions =>
               \/ Has(o, orders[o].status)'
               \/ BusyOn(r, o)' /\ req'[r].kind = "decide" /\ req'[r].pc = "save",
             BusyOn(r, o)' =>
               /\ req'[r].row.status \in Decisions =>
                    \/ Has(o, req[r].row.status)'
                    \/ req'[r].kind = "decide" /\ req'[r].pc # "save"
               /\ req'[r].kind = "decide" /\ req'[r].pc # "save"
                    => req'[r].row.status = req'[r].code,
             \A s \in Requests :
               req'[s].pc # "free" /\ req'[s].kind = "decide" /\ req'[s].order = o
                 => OffersOf(o)' # {}
      PROVE  Decided(o)'
  <2>1. (\A s \in Requests : BusyOn(s, o) =>
           /\ req[s].row.status \in Decisions =>
                \/ Has(o, req[s].row.status)
                \/ req[s].kind = "decide" /\ req[s].pc # "save"
           /\ req[s].kind = "decide" /\ req[s].pc # "save"
                => req[s].row.status = req[s].code)'
    BY <1>h
  <2> QED
    BY <1>h, <2>1 DEF Decided
<1>2. CASE Born(r, o)
  <2>1. /\ \A s \in Requests : BusyOn(s, o)' => s = r
        /\ \A s \in Requests \ {r} : req'[s].order # o
    BY <1>2, <1>b DEF Born
  <2>2. req'[r].kind \in {"new", "blank"}
    BY <1>2 DEF Born, DoCreate
  <2>3. orders'[o].status \notin Decisions
    BY <1>2, <1>d DEF Born, DoCreate, CreatedRow, BlankCreatedRow
  <2>4. req'[r].row.status \notin Decisions
    <3>1. RequestRow(CreatedRow).status = "WRQ"
      BY DEF RequestRow, CreatedRow
    <3>2. \A ref \in BOOLEAN : OfferedRow(BlankRow(BlankCreatedRow, ref)).status = "OFR"
      BY DEF CreatedRow, BlankCreatedRow, OfferedRow, BlankRow
    <3> QED
      BY <1>2, <1>d, <3>1, <3>2 DEF Born, DoCreate
  <2> QED
    BY <1>h, <2>1, <2>2, <2>3, <2>4
<1>3. CASE TakesUp(r, o)
  <2>1. /\ orders'[o] = orders[o] /\ OffersOf(o)' = OffersOf(o)
        /\ SameRequest(r) /\ Decided(o) /\ req[r].pc = "sent" /\ req[r].order = o
        /\ req'[r].row = Effect(req[r], orders[o])
        /\ req'[r].pc = FirstStep(req[r], orders[o])
        /\ \A s \in Requests : ~BusyOn(s, o)
    BY <1>3 DEF TakesUp, DoLoad, KeepsRows, KeepsOffers, OffersOf, Taken, Quiet
  <2>2. \A v : Has(o, v)' <=> Has(o, v)
    BY <2>1 DEF Has
  <2>3. orders[o].status \in Decisions => Has(o, orders[o].status)
    BY <2>1 DEF Decided
  <2>4. orders'[o].status \in Decisions => Has(o, orders[o].status)'
    BY <2>1, <2>2, <2>3
  <2>5. /\ req'[r].row.status \in Decisions =>
             \/ req'[r].row.status = orders[o].status
             \/ req[r].kind = "decide" /\ req[r].code # orders[o].status
        /\ req[r].kind = "decide" /\ req[r].code # orders[o].status
             => req'[r].row.status = req[r].code
        /\ req[r].kind = "decide" =>
             (req'[r].pc = "save" <=> req[r].code = orders[o].status)
    BY <1>t, <2>1, EffectDecision DEF TypeInv, WellFormed
  <2>6. /\ req'[r].row.status \in Decisions =>
             \/ Has(o, req[r].row.status)'
             \/ req'[r].kind = "decide" /\ req'[r].pc # "save"
        /\ req'[r].kind = "decide" /\ req'[r].pc # "save"
             => req'[r].row.status = req'[r].code
    BY <2>1, <2>2, <2>3, <2>5 DEF SameRequest
  <2>7. \A s \in Requests :
           req'[s].pc # "free" /\ req'[s].kind = "decide" /\ req'[s].order = o
             => OffersOf(o)' # {}
    BY <1>b, <2>1 DEF Decided, SameRequest
  <2> QED
    BY <1>b, <1>h, <2>1, <2>4, <2>6, <2>7
<1>4. CASE GoesOn(r, o)
  <2>0. /\ BusyOn(r, o) /\ req[r].order = o /\ Active(r) /\ req[r].pc \in Path(req[r].kind)
        /\ req[r].pc # "free"
        /\ \A s \in Requests : BusyOn(s, o)' => s = r
        /\ \A s \in Requests : BusyOn(s, o) => s = r
        /\ Decided(o)
    BY <1>4, <1>b, <1>k DEF GoesOn, BusyOn, OnPath, Active
  <2>a. /\ orders[o].status \in Decisions =>
             \/ Has(o, orders[o].status)
             \/ req[r].kind = "decide" /\ req[r].pc = "save"
        /\ req[r].row.status \in Decisions =>
             \/ Has(o, req[r].row.status)
             \/ req[r].kind = "decide" /\ req[r].pc # "save"
        /\ req[r].kind = "decide" /\ req[r].pc # "save"
             => req[r].row.status = req[r].code
        /\ \A s \in Requests :
             req[s].pc # "free" /\ req[s].kind = "decide" /\ req[s].order = o
               => OffersOf(o) # {}
    BY <2>0 DEF Decided
  <2>p. /\ req[r].kind = "decide" => req[r].pc \in {"announce", "mail", "decide", "save"}
        /\ Making(r) => req[r].kind # "decide"
        /\ req[r].pc \in {"offerRow", "offerItems"} => req[r].kind # "decide"
    BY <2>0 DEF Path, Making
  \* The request keeps its kind and its order, or is over.
  <2>s. req'[r] = Free \/ SameRequest(r)
    BY <1>4 DEF GoesOn, DoSave, DoItem, DoAnnounce, DoMail, DoDecide, DoOffer,
       DoOfferItems, EndsOrMovesTo, MovesTo
  <2>o. ASSUME OffersOf(o) # {} => OffersOf(o)' # {}
        PROVE  \A s \in Requests :
                 req'[s].pc # "free" /\ req'[s].kind = "decide" /\ req'[s].order = o
                   => OffersOf(o)' # {}
    BY <1>b, <1>f, <2>0, <2>a, <2>o, <2>s DEF SameRequest
  <2>1. CASE DoSave(r)
    <3>1. /\ orders'[o] = req[r].row /\ OffersOf(o)' = OffersOf(o)
          /\ req[r].pc \in {"saveNew", "saveDraft", "save"}
      BY <2>0, <2>1 DEF DoSave, KeepsOffers, OffersOf
    <3>2. \A v : Has(o, v)' <=> Has(o, v)
      BY <3>1 DEF Has
    <3>3. req[r].row.status \in Decisions => Has(o, req[r].row.status)
      BY <2>a, <2>p, <3>1
    <3>4. orders'[o].status \in Decisions => Has(o, orders[o].status)'
      BY <3>1, <3>2, <3>3
    <3>5. req'[r] = Free \/ /\ req'[r].row.status = req[r].row.status
                            /\ req'[r].kind # "decide"
      <4>1. req[r].kind = "decide" => req[r].pc = "save" /\ ~Making(r)
        BY <2>p, <3>1
      <4> QED
        BY <1>t, <2>1, <4>1 DEF DoSave, MovesTo, SameRequest, Row
    <3>6. BusyOn(r, o)' =>
             /\ req'[r].kind # "decide"
             /\ req'[r].row.status \in Decisions => Has(o, req[r].row.status)'
      BY <1>f, <3>2, <3>3, <3>5
    <3> QED
      BY <1>h, <2>0, <2>o, <3>1, <3>4, <3>6
  <2>2. CASE DoItem(r) \/ DoAnnounce(r) \/ DoMail(r)
    <3>1. /\ orders'[o] = orders[o] /\ OffersOf(o)' = OffersOf(o)
          /\ req[r].pc \in {"item", "announce", "mail"}
      BY <2>2 DEF DoItem, DoAnnounce, DoMail, KeepsRows, KeepsOffers, OffersOf
    <3>2. \A v : Has(o, v)' <=> Has(o, v)
      BY <3>1 DEF Has
    <3>3. orders'[o].status \in Decisions => Has(o, orders[o].status)'
      BY <2>a, <3>1, <3>2
    <3>4. \/ req'[r] = Free
          \/ /\ req'[r].row = req[r].row /\ SameRequest(r)
             /\ req[r].kind = "decide" => req'[r].pc # "save"
      <4>1. CASE DoItem(r)
        BY <4>1 DEF DoItem, MovesTo
      <4>2. CASE DoAnnounce(r)
        BY <4>2 DEF DoAnnounce, EndsOrMovesTo, MovesTo, AfterAnnounce
      <4>3. CASE DoMail(r)
        BY <4>3 DEF DoMail, EndsOrMovesTo, MovesTo, AfterMail
      <4> QED
        BY <2>2, <4>1, <4>2, <4>3
    <3>5. BusyOn(r, o)' =>
            /\ req'[r].row.status \in Decisions =>
                 \/ Has(o, req[r].row.status)'
                 \/ req'[r].kind = "decide" /\ req'[r].pc # "save"
            /\ req'[r].kind = "decide" /\ req'[r].pc # "save"
                 => req'[r].row.status = req'[r].code
      BY <1>f, <2>a, <3>1, <3>2, <3>4 DEF SameRequest
    <3> QED
      BY <1>h, <2>0, <2>o, <3>1, <3>3, <3>5
  <2>3. CASE DoDecide(r)
    <3>1. PICK f, g : OfferChanges(r, f, g) /\ g.approval = req[r].code
      BY <2>3 DEF DoDecide
    <3>2. Aims(r) /\ req[r].kind = "decide" /\ req[r].pc = "decide" /\ MovesTo(r, "save")
      BY <2>3, <2>0 DEF DoDecide, Aims, TypeInv, WellFormed
    <3>3. g \in OffersOf(o)'
      BY <1>k, <2>0, <3>1, <3>2 DEF OfferChanges, Aimed, OffersOf
    <3>4. Has(o, req[r].row.status)'
      BY <2>a, <3>1, <3>2, <3>3 DEF Has, MovesTo
    <3>5. /\ BusyOn(r, o)' /\ req'[r].kind = "decide" /\ req'[r].pc = "save"
      BY <2>0, <3>2 DEF BusyOn, Active, MovesTo, SameRequest
    <3> QED
      BY <1>h, <2>0, <3>3, <3>4, <3>5
  <2>4. CASE DoOffer(r) \/ DoOfferItems(r)
    <3>1. /\ orders'[o] = orders[o] /\ req'[r].row = req[r].row /\ SameRequest(r)
          /\ req[r].kind # "decide"
      BY <2>4, <2>p DEF DoOffer, DoOfferItems, KeepsRows, MovesTo
    <3>2. \A v : Has(o, v) => Has(o, v)'
      <4>1. CASE DoOffer(r)
        BY <4>1 DEF DoOffer, Has, OffersOf
      <4>2. CASE DoOfferItems(r)
        BY <4>2 DEF DoOfferItems, OfferChanges, Has, OffersOf
      <4> QED
        BY <2>4, <4>1, <4>2
    <3>3. OffersOf(o) # {} => OffersOf(o)' # {}
      BY <3>2 DEF Has
    <3>4. orders'[o].status \in Decisions => Has(o, orders[o].status)'
      BY <2>a, <3>1, <3>2
    <3>5. /\ req'[r].kind # "decide"
          /\ req'[r].row.status \in Decisions => Has(o, req[r].row.status)'
      BY <2>a, <3>1, <3>2 DEF SameRequest
    <3> QED
      BY <1>h, <2>0, <2>o, <3>3, <3>4, <3>5
  <2> QED
    BY <1>4, <2>1, <2>2, <2>3, <2>4 DEF GoesOn
<1> QED
  BY <1>1, <1>2, <1>3, <1>4, SpecialSteps

-----------------------------------------------------------------------------
(* Announcements *)

\* Entries about other orders, or not about a status, change no last word.
LEMMA OtherLog ==
    ASSUME TypeOK, NEW e, logs' = Append(logs, e), NEW o, NEW v,
           e.order # o \/ e.action \notin StatusActions, LastLogged(o, v)
    PROVE  LastLogged(o, v)'
<1>t. /\ logs \in Seq([order : Ids, action : Actions, status : Codes,
                       version : Nat \cup {Null}])
  BY DEF TypeOK
<1>1. PICK i \in DOMAIN logs :
         /\ logs[i].order = o /\ logs[i].action \in StatusActions
         /\ logs[i].status = v
         /\ \A j \in DOMAIN logs :
               j > i /\ logs[j].order = o => logs[j].action \notin StatusActions
  BY DEF LastLogged
<1>2. /\ DOMAIN logs = 1 .. Len(logs) /\ DOMAIN logs' = 1 .. Len(logs) + 1
      /\ Len(logs) \in Nat
      /\ \A j \in DOMAIN logs : logs'[j] = logs[j]
      /\ logs'[Len(logs) + 1] = e
  BY <1>t
<1>3. i \in DOMAIN logs' /\ logs'[i] = logs[i]
  BY <1>2
<1>4. \A j \in DOMAIN logs' :
         j > i /\ logs'[j].order = o => logs'[j].action \notin StatusActions
  <2> TAKE j \in DOMAIN logs'
  <2>1. CASE j \in DOMAIN logs
    BY <1>1, <1>2, <2>1
  <2>2. CASE j = Len(logs) + 1
    BY <1>2, <2>2
  <2> QED
    BY <1>2, <2>1, <2>2
<1> QED
  BY <1>1, <1>3, <1>4 DEF LastLogged

\* A new entry about the status is the last word.
LEMMA NewLog ==
    ASSUME TypeOK, NEW e, logs' = Append(logs, e), NEW o,
           e.order = o, e.action \in StatusActions
    PROVE  LastLogged(o, e.status)'
<1>t. /\ logs \in Seq([order : Ids, action : Actions, status : Codes,
                       version : Nat \cup {Null}])
  BY DEF TypeOK
<1>1. /\ DOMAIN logs' = 1 .. Len(logs) + 1 /\ Len(logs) \in Nat
      /\ logs'[Len(logs) + 1] = e
  BY <1>t
<1>2. Len(logs) + 1 \in DOMAIN logs'
      /\ \A j \in DOMAIN logs' : ~(j > Len(logs) + 1)
  BY <1>1
<1> QED
  BY <1>1, <1>2 DEF LastLogged

LEMMA OtherMail ==
    ASSUME TypeOK, NEW t, tasks' = Append(tasks, t), NEW o, NEW v,
           t.order # o, LastMailed(o, v)
    PROVE  LastMailed(o, v)'
<1>t. tasks \in Seq(Task)
  BY DEF TypeOK
<1>1. PICK i \in DOMAIN tasks :
         /\ tasks[i].order = o /\ tasks[i].status = v
         /\ \A j \in DOMAIN tasks : j > i => tasks[j].order # o
  BY DEF LastMailed
<1>2. /\ DOMAIN tasks = 1 .. Len(tasks) /\ DOMAIN tasks' = 1 .. Len(tasks) + 1
      /\ Len(tasks) \in Nat
      /\ \A j \in DOMAIN tasks : tasks'[j] = tasks[j]
      /\ tasks'[Len(tasks) + 1] = t
  BY <1>t
<1>3. i \in DOMAIN tasks' /\ tasks'[i] = tasks[i]
  BY <1>2
<1>4. \A j \in DOMAIN tasks' : j > i => tasks'[j].order # o
  <2> TAKE j \in DOMAIN tasks'
  <2>1. CASE j \in DOMAIN tasks
    BY <1>1, <1>2, <2>1
  <2>2. CASE j = Len(tasks) + 1
    BY <1>2, <2>2
  <2> QED
    BY <1>2, <2>1, <2>2
<1> QED
  BY <1>1, <1>3, <1>4 DEF LastMailed

LEMMA NewMail ==
    ASSUME TypeOK, NEW t, tasks' = Append(tasks, t), NEW o, t.order = o
    PROVE  LastMailed(o, t.status)'
<1>t. tasks \in Seq(Task)
  BY DEF TypeOK
<1>1. /\ DOMAIN tasks' = 1 .. Len(tasks) + 1 /\ Len(tasks) \in Nat
      /\ tasks'[Len(tasks) + 1] = t
  BY <1>t
<1>2. Len(tasks) + 1 \in DOMAIN tasks'
      /\ \A j \in DOMAIN tasks' : ~(j > Len(tasks) + 1)
  BY <1>1
<1> QED
  BY <1>1, <1>2 DEF LastMailed

\* A change of status that is neither logged nor mailed is one of a draft, or
\* none at all.
LEMMA EffectSilent ==
    ASSUME NEW q \in Request, NEW row \in Row
    PROVE  /\ q.kind \in {"add", "edit"} => Effect(q, row).status = row.status
           /\ q.kind \in {"address", "reference", "comment"} =>
                /\ Effect(q, row).status = row.status
                /\ Effect(q, row).draft = row.draft
           /\ /\ q.kind \in {"submit", "status", "decide"}
              /\ FirstStep(q, row) \in {"decide", "save"}
              => Effect(q, row) = row \/ Effect(q, row).draft
           /\ FirstStep(q, row) # "mail"
           /\ q.kind = "offer" => FirstStep(q, row) = "save"
<1>1. q.kind \in {"add", "edit"} => Effect(q, row).status = row.status
  BY DEF Effect, Row
<1>2. q.kind \in {"address", "reference", "comment"} =>
         /\ Effect(q, row).status = row.status
         /\ Effect(q, row).draft = row.draft
  BY DEF Effect, Row
<1>3. ASSUME q.kind \in {"submit", "status", "decide"},
             FirstStep(q, row) \in {"decide", "save"}
      PROVE  Effect(q, row) = row \/ Effect(q, row).draft
  <2>1. /\ q.kind # "submit"
        /\ q.code = row.status \/ row.draft
    BY <1>3 DEF FirstStep
  <2>2. CASE q.kind = "status"
    BY <2>1, <2>2 DEF Effect, StaffStatusRow, Row
  <2>3. CASE q.kind = "decide"
    BY <2>1, <2>3 DEF Effect, DecidedRow, Row
  <2> QED
    BY <1>3, <2>1, <2>2, <2>3
<1>4. FirstStep(q, row) # "mail" /\ (q.kind = "offer" => FirstStep(q, row) = "save")
  BY DEF FirstStep
<1> QED
  BY <1>1, <1>2, <1>3, <1>4

\* What is announced of a request that is not about the status.
LEMMA Announcements ==
    ASSUME NEW q \in Request
    PROVE  /\ q.kind \in {"new", "add", "edit", "address", "comment"}
                => Announcement(q) \notin StatusActions
           /\ q.kind \in {"submit", "status", "decide", "offer", "blank"}
                => Announcement(q) \in StatusActions
<1>1. q.kind \in {"new", "add", "edit", "address", "comment"}
        => Announcement(q) \notin StatusActions
  BY DEF Announcement, StatusActions
<1>2. q.kind \in {"submit", "status", "decide", "offer", "blank"}
        => Announcement(q) \in StatusActions
  BY DEF Announcement, StatusActions
<1> QED
  BY <1>1, <1>2

LEMMA AnnouncedStep ==
    ASSUME TypeInv, Structure, NEW r \in Requests, Does(r), NEW o \in Ids,
           Undisturbed(o), o \in live', Spared(o, {"overlap", "abort", "redraft"})',
           o \in live => Announced(o)
    PROVE  Announced(o)'
<1>t. /\ req[r] \in Request /\ req[r].row \in Row /\ orders[o] \in Row /\ TypeOK
  BY DEF TypeInv, TypeOK, Request
<1>n. Spared(o, {"overlap", "abort"})' /\ "redraft" \notin marks'[o]
  BY DEF Spared
<1>b. /\ \A s \in Requests \ {r} : (BusyOn(s, o)' <=> BusyOn(s, o)) /\ req'[s] = req[s]
      /\ ~BusyOn(r, o) /\ ~BusyOn(r, o)' => (Quiet(o)' <=> Quiet(o))
      /\ BusyOn(r, o)' => ~Quiet(o)'
  BY OthersBusy
<1>f. req'[r] = Free => ~BusyOn(r, o)'
  BY DEF Free, BusyOn, Active
\* What this step leaves said.
<1>w. ASSUME logs' = logs \/ \E e : /\ logs' = Append(logs, e)
                                    /\ e.order # o \/ e.action \notin StatusActions,
             tasks' = tasks \/ \E t : tasks' = Append(tasks, t) /\ t.order # o
      PROVE  /\ \A v : LastLogged(o, v) => LastLogged(o, v)'
             /\ \A v : LastMailed(o, v) => LastMailed(o, v)'
  <2>1. \A v : LastLogged(o, v) => LastLogged(o, v)'
    <3>1. CASE logs' = logs
      BY <3>1 DEF LastLogged
    <3>2. ASSUME NEW e, logs' = Append(logs, e), e.order # o \/ e.action \notin StatusActions
          PROVE  \A v : LastLogged(o, v) => LastLogged(o, v)'
      BY <1>t, <3>2, OtherLog
    <3> QED
      BY <1>w, <3>1, <3>2
  <2>2. \A v : LastMailed(o, v) => LastMailed(o, v)'
    <3>1. CASE tasks' = tasks
      BY <3>1 DEF LastMailed
    <3>2. ASSUME NEW t, tasks' = Append(tasks, t), t.order # o
          PROVE  \A v : LastMailed(o, v) => LastMailed(o, v)'
      BY <1>t, <3>2, OtherMail
    <3> QED
      BY <1>w, <3>1, <3>2
  <2> QED
    BY <2>1, <2>2
\* r is the only request at work on the order, if any is.
<1>h. ASSUME \A s \in Requests : BusyOn(s, o)' => s = r,
             ~BusyOn(r, o)' => Told(o, orders[o])',
             BusyOn(r, o)' =>
               /\ req'[r].kind \in {"new", "add", "edit"} =>
                    /\ Told(o, orders[o])' /\ req'[r].row.status = orders'[o].status
                    /\ req'[r].kind = "new" => req'[r].row.status = "WRQ"
               /\ req'[r].kind \in {"address", "reference", "comment"} =>
                    Told(o, req[r].row)'
               /\ req'[r].kind \in {"submit", "status", "decide"}
                  /\ req'[r].pc \in {"decide", "save"} => Told(o, req[r].row)'
               /\ Making(r)' /\ req'[r].pc # "save" => req'[r].row = orders'[o]
               /\ req'[r].pc = "mail" => LastLogged(o, req[r].row.status)'
      PROVE  Announced(o)'
  BY <1>b, <1>h DEF Announced
<1>1. CASE Elsewhere(r, o)
  <2>1. /\ orders'[o] = orders[o] /\ ~BusyOn(r, o) /\ ~BusyOn(r, o)' /\ Announced(o)
        /\ \A v : LastLogged(o, v) => LastLogged(o, v)'
        /\ \A v : LastMailed(o, v) => LastMailed(o, v)'
    BY <1>1, <1>w DEF Elsewhere
  <2>2. Told(o, orders[o]) => Told(o, orders[o])'
    BY <2>1 DEF Told
  <2>3. ASSUME NEW s \in Requests, BusyOn(s, o)'
        PROVE  /\ req'[s].kind \in {"new", "add", "edit"} =>
                    /\ Told(o, orders[o])' /\ req'[s].row.status = orders'[o].status
                    /\ req'[s].kind = "new" => req'[s].row.status = "WRQ"
               /\ req'[s].kind \in {"address", "reference", "comment"} =>
                    Told(o, req[s].row)'
               /\ req'[s].kind \in {"submit", "status", "decide"}
                  /\ req'[s].pc \in {"decide", "save"} => Told(o, req[s].row)'
               /\ Making(s)' /\ req'[s].pc # "save" => req'[s].row = orders'[o]
               /\ req'[s].pc = "mail" => LastLogged(o, req[s].row.status)'
    <3>1. s # r /\ BusyOn(s, o) /\ req'[s] = req[s]
      BY <1>b, <2>1, <2>3
    <3>2. Told(o, req[s].row) => Told(o, req[s].row)'
      BY <2>1, <3>1 DEF Told
    <3>3. Making(s)' <=> Making(s)
      BY <3>1 DEF Making
    <3>4. LastLogged(o, req[s].row.status) => LastLogged(o, req[s].row.status)'
      BY <2>1, <3>1
    <3> QED
      BY <2>1, <2>2, <3>1, <3>2, <3>3, <3>4 DEF Announced
  <2>4. Quiet(o)' => Told(o, orders[o])'
    BY <1>b, <2>1, <2>2 DEF Announced
  <2> QED
    BY <2>3, <2>4 DEF Announced
<1>2. CASE Born(r, o)
  <2>1. /\ \A s \in Requests : BusyOn(s, o)' => s = r
        /\ BusyOn(r, o)'
    BY <1>2, <1>b DEF Born, DoCreate, BusyOn, Active
  <2>2. CASE req[r].kind = "new"
    <3>1. /\ req'[r].kind = "new" /\ req'[r].pc = "saveNew"
          /\ orders'[o] = CreatedRow /\ req'[r].row = RequestRow(CreatedRow)
      BY <1>2, <2>2 DEF Born, DoCreate
    <3>2. orders'[o].status = "WRQ" /\ req'[r].row.status = "WRQ"
      BY <3>1 DEF RequestRow, CreatedRow
    <3> QED
      BY <1>h, <2>1, <3>1, <3>2 DEF Told, Making
  <2>3. CASE req[r].kind = "blank"
    <3>1. req'[r].kind = "blank" /\ req'[r].pc = "save"
      BY <1>2, <2>3 DEF Born, DoCreate
    <3> QED
      BY <1>h, <2>1, <3>1
  <2> QED
    BY <1>2, <2>2, <2>3 DEF Born, DoCreate
<1>3. CASE TakesUp(r, o)
  <2>1. /\ orders'[o] = orders[o] /\ SameRequest(r) /\ req[r].order = o
        /\ req[r].kind \in OnRow /\ KeepsWord
        /\ req'[r].row = Effect(req[r], orders[o])
        /\ req'[r].pc = FirstStep(req[r], orders[o])
        /\ \A s \in Requests : ~BusyOn(s, o)
        /\ Told(o, orders[o])
    BY <1>3 DEF TakesUp, DoLoad, KeepsRows, Quiet, Announced
  <2>2. /\ \A v : LastLogged(o, v) => LastLogged(o, v)'
        /\ \A v : LastMailed(o, v) => LastMailed(o, v)'
    BY <1>w, <2>1 DEF KeepsWord
  <2>3. Told(o, orders[o])'
    BY <2>1, <2>2 DEF Told
  <2>4. /\ req[r].kind \in {"add", "edit"} => req'[r].row.status = orders[o].status
        /\ req[r].kind \in {"address", "reference", "comment"} =>
             /\ req'[r].row.status = orders[o].status
             /\ req'[r].row.draft = orders[o].draft
        /\ /\ req[r].kind \in {"submit", "status", "decide"}
           /\ req'[r].pc \in {"decide", "save"}
           => req'[r].row = orders[o] \/ req'[r].row.draft
        /\ req'[r].pc # "mail"
        /\ req[r].kind = "offer" => req'[r].pc = "save"
    BY <1>t, <2>1, EffectSilent
  <2>5. /\ req[r].kind \in {"address", "reference", "comment"} => Told(o, req[r].row)'
        /\ /\ req[r].kind \in {"submit", "status", "decide"}
           /\ req'[r].pc \in {"decide", "save"}
           => Told(o, req[r].row)'
    BY <2>1, <2>3, <2>4 DEF Told
  <2>6. req[r].kind \notin {"new", "blank"} /\ req'[r].kind = req[r].kind
    BY <2>1 DEF OnRow, SameRequest
  <2> QED
    BY <1>b, <1>h, <2>1, <2>3, <2>4, <2>5, <2>6 DEF Making
<1>4. CASE GoesOn(r, o)
  <2>0. /\ BusyOn(r, o) /\ req[r].order = o /\ Active(r) /\ req[r].pc \in Path(req[r].kind)
        /\ \A s \in Requests : BusyOn(s, o)' => s = r
        /\ Announced(o)
    BY <1>4, <1>b DEF GoesOn, BusyOn, OnPath, Structure
  <2>a. /\ req[r].kind \in {"new", "add", "edit"} =>
             /\ Told(o, orders[o]) /\ req[r].row.status = orders[o].status
             /\ req[r].kind = "new" => req[r].row.status = "WRQ"
        /\ req[r].kind \in {"address", "reference", "comment"} =>
             Told(o, req[r].row)
        /\ req[r].kind \in {"submit", "status", "decide"}
           /\ req[r].pc \in {"decide", "save"} => Told(o, req[r].row)
        /\ Making(r) /\ req[r].pc # "save" => req[r].row = orders[o]
        /\ req[r].pc = "mail" => LastLogged(o, req[r].row.status)
    BY <2>0 DEF Announced
  <2>p. /\ req[r].pc = "saveNew" => req[r].kind \in {"new", "add"}
        /\ req[r].pc \in {"saveDraft", "item"} => req[r].kind \in {"new", "add", "edit"}
        /\ req[r].pc = "save" => req[r].kind \in {"address", "reference", "comment",
                                  "submit", "status", "decide", "offer", "blank"}
        /\ req[r].pc = "announce" => req[r].kind \in {"new", "add", "edit", "address",
                                  "comment", "submit", "status", "decide", "offer", "blank"}
        /\ req[r].pc = "mail" => req[r].kind \in {"submit", "status", "decide", "offer", "blank"}
        /\ req[r].pc = "decide" => req[r].kind = "decide"
        /\ req[r].pc \in {"offerRow", "offerItems"} => req[r].kind \in {"offer", "blank"}
    BY <2>0 DEF Path
  <2>m. Making(r) <=> req[r].kind \in {"offer", "blank"}
    BY DEF Making
  <2>n. (Making(r))' <=> req'[r].kind \in {"offer", "blank"}
    BY DEF Making
  <2>1. CASE DoSave(r)
    <3>1. /\ orders'[o] = req[r].row
          /\ req[r].kind \in {"add", "edit"} => req[r].row.draft = orders[o].draft
      BY <1>n, <2>0, <2>1 DEF DoSave
    <3>2. /\ \A v : LastLogged(o, v) => LastLogged(o, v)'
          /\ \A v : LastMailed(o, v) => LastMailed(o, v)'
      BY <1>w, <2>1 DEF DoSave, KeepsWord
    <3>3. CASE req[r].kind \in {"new", "add", "edit"}
      <4>1. Told(o, orders[o])'
        BY <2>a, <3>1, <3>2, <3>3 DEF Told
      <4>2. /\ req'[r].kind = req[r].kind /\ req'[r].row.status = req[r].row.status
            /\ req'[r].pc # "mail"
        BY <1>t, <2>1, <2>p, <3>3 DEF DoSave, MovesTo, SameRequest, Row
      <4> QED
        BY <1>h, <2>0, <2>a, <2>n, <3>1, <3>3, <4>1, <4>2
    <3>4. CASE Making(r)
      <4>1. MovesTo(r, "offerRow")
        BY <2>1, <2>m, <2>p, <3>4 DEF DoSave
      <4>2. BusyOn(r, o)' /\ req'[r].row = orders'[o] /\ req'[r].kind \in {"offer", "blank"}
            /\ req'[r].pc = "offerRow"
        BY <2>0, <2>m, <3>1, <3>4, <4>1 DEF MovesTo, SameRequest, BusyOn, Active
      <4> QED
        BY <1>h, <2>0, <4>2
    <3>5. CASE req[r].kind \in {"address", "reference", "comment", "submit", "status", "decide"}
      <4>1. req[r].pc = "save" /\ req'[r] = Free
        BY <2>1, <2>m, <2>p, <3>5 DEF DoSave
      <4>2. Told(o, req[r].row)
        BY <2>a, <3>5, <4>1
      <4>3. Told(o, orders[o])'
        BY <3>1, <3>2, <4>2 DEF Told
      <4> QED
        BY <1>f, <1>h, <2>0, <4>1, <4>3
    <3> QED
      BY <2>1, <2>m, <2>p, <3>3, <3>4, <3>5 DEF DoSave
  <2>2. CASE DoItem(r)
    <3>1. /\ orders'[o] = orders[o] /\ req'[r].row = req[r].row /\ SameRequest(r)
          /\ req'[r].pc = "announce" /\ req[r].pc = "item" /\ KeepsWord
      BY <2>2 DEF DoItem, KeepsRows, MovesTo
    <3>2. Told(o, orders[o])'
      BY <2>a, <2>p, <3>1 DEF Told, LastLogged, LastMailed, KeepsWord
    <3> QED
      BY <1>h, <2>0, <2>a, <2>n, <2>p, <3>1, <3>2 DEF SameRequest
  <2>3. CASE DoAnnounce(r)
    <3>1. PICK e : /\ logs' = Append(logs, e)
                   /\ e.order = req[r].order /\ e.status = req[r].row.status
                   /\ e.action = Announcement(req[r])
      BY <2>3 DEF DoAnnounce
    <3>2. /\ orders'[o] = orders[o] /\ tasks' = tasks /\ req[r].pc = "announce"
          /\ EndsOrMovesTo(r, AfterAnnounce(req[r]))
      BY <2>3 DEF DoAnnounce, KeepsRows
    <3>3. CASE req[r].kind \in {"new", "add", "edit", "address", "comment"}
      <4>1. /\ \A v : LastLogged(o, v) => LastLogged(o, v)'
            /\ \A v : LastMailed(o, v) => LastMailed(o, v)'
        BY <1>t, <1>w, <3>1, <3>2, <3>3, Announcements
      <4>2. CASE req[r].kind \in {"new", "add", "edit"}
        <5>1. req'[r] = Free
          BY <3>2, <4>2 DEF EndsOrMovesTo, AfterAnnounce
        <5>2. Told(o, orders[o])'
          BY <2>a, <3>2, <4>1, <4>2 DEF Told
        <5> QED
          BY <1>f, <1>h, <2>0, <5>1, <5>2
      <4>3. CASE req[r].kind \in {"address", "comment"}
        <5>1. MovesTo(r, "save")
          BY <3>2, <4>3 DEF EndsOrMovesTo, AfterAnnounce
        <5>2. /\ req'[r].kind = req[r].kind /\ req'[r].row = req[r].row
              /\ req'[r].pc = "save" /\ BusyOn(r, o)'
          BY <2>0, <5>1 DEF MovesTo, SameRequest, BusyOn, Active
        <5>3. Told(o, req[r].row)'
          BY <2>a, <4>1, <4>3, <5>2 DEF Told
        <5> QED
          BY <1>h, <2>0, <2>n, <4>3, <5>2, <5>3
      <4> QED
        BY <3>3, <4>2, <4>3
    <3>4. CASE req[r].kind \in {"submit", "status", "decide", "offer", "blank"}
      <4>1. MovesTo(r, "mail")
        BY <3>2, <3>4 DEF EndsOrMovesTo, AfterAnnounce
      <4>2. /\ req'[r].kind = req[r].kind /\ req'[r].row = req[r].row
            /\ req'[r].pc = "mail" /\ BusyOn(r, o)'
        BY <2>0, <4>1 DEF MovesTo, SameRequest, BusyOn, Active
      <4>3. LastLogged(o, e.status)'
        BY <1>t, <2>0, <3>1, <3>4, Announcements, NewLog
      <4>4. LastLogged(o, req[r].row.status)'
        BY <3>1, <4>2, <4>3
      <4> QED
        BY <1>h, <2>0, <2>a, <2>m, <2>n, <3>2, <3>4, <4>2, <4>4
    <3> QED
      BY <2>p, <3>2, <3>3, <3>4
  <2>4. CASE DoMail(r)
    <3>1. PICK t : /\ tasks' = Append(tasks, t)
                   /\ t.order = req[r].order /\ t.status = req[r].row.status
      BY <2>4 DEF DoMail
    <3>2. /\ orders'[o] = orders[o] /\ logs' = logs /\ req[r].pc = "mail"
          /\ EndsOrMovesTo(r, AfterMail(req[r]))
      BY <2>4 DEF DoMail, KeepsRows
    <3>3. \A v : v = req[r].row.status => LastLogged(o, v)' /\ LastMailed(o, v)'
      <4>1. LastMailed(o, t.status)'
        BY <1>t, <2>0, <3>1, NewMail
      <4>2. LastLogged(o, req[r].row.status)
        BY <2>a, <3>2
      <4>3. \A v : LastLogged(o, v) => LastLogged(o, v)'
        BY <3>2 DEF LastLogged
      <4> QED
        BY <3>1, <4>1, <4>2, <4>3
    <3>4. CASE req[r].kind \in {"offer", "blank"}
      <4>1. req'[r] = Free
        BY <3>2, <3>4 DEF EndsOrMovesTo, AfterMail
      <4>2. req[r].row = orders[o]
        BY <2>a, <2>m, <3>2, <3>4
      <4>3. Told(o, orders[o])'
        BY <3>2, <3>3, <4>2 DEF Told
      <4> QED
        BY <1>f, <1>h, <2>0, <4>1, <4>3
    <3>5. CASE req[r].kind \in {"submit", "status", "decide"}
      <4>1. /\ req'[r].kind = req[r].kind /\ req'[r].row = req[r].row
            /\ req'[r].pc \in {"save", "decide"} /\ BusyOn(r, o)'
        BY <2>0, <3>2, <3>5 DEF EndsOrMovesTo, AfterMail, MovesTo, SameRequest, BusyOn, Active
      <4>2. Told(o, req[r].row)'
        BY <3>3, <4>1 DEF Told
      <4> QED
        BY <1>h, <2>0, <2>n, <3>5, <4>1, <4>2
    <3> QED
      BY <2>p, <3>2, <3>4, <3>5
  <2>5. CASE DoDecide(r)
    <3>1. /\ orders'[o] = orders[o] /\ KeepsWord /\ req[r].pc = "decide"
          /\ req'[r].pc = "save" /\ req'[r].row = req[r].row /\ SameRequest(r)
          /\ req[r].kind = "decide"
      BY <2>5, <2>p DEF DoDecide, KeepsRows, MovesTo
    <3>2. Told(o, req[r].row)'
      BY <2>a, <3>1 DEF Told, LastLogged, LastMailed, KeepsWord
    <3>3. BusyOn(r, o)' /\ req'[r].kind = "decide"
      BY <2>0, <3>1 DEF SameRequest, BusyOn, Active
    <3> QED
      BY <1>h, <2>0, <2>n, <3>1, <3>2, <3>3
  <2>6. CASE DoOffer(r) \/ DoOfferItems(r)
    <3>1. /\ orders'[o] = orders[o] /\ req[r].pc \in {"offerRow", "offerItems"}
          /\ req'[r].pc \in {"offerItems", "announce"}
          /\ req'[r].row = req[r].row /\ SameRequest(r)
      BY <2>6 DEF DoOffer, DoOfferItems, KeepsRows, MovesTo
    <3>2. req[r].kind \in {"offer", "blank"} /\ req'[r].row = orders'[o]
      BY <2>a, <2>m, <2>p, <3>1
    <3>3. BusyOn(r, o)' /\ req'[r].kind \in {"offer", "blank"}
      BY <2>0, <3>1, <3>2 DEF SameRequest, BusyOn, Active
    <3> QED
      BY <1>h, <2>0, <3>1, <3>2, <3>3
  <2> QED
    BY <1>4, <2>1, <2>2, <2>3, <2>4, <2>5, <2>6 DEF GoesOn
<1> QED
  BY <1>n, <1>1, <1>2, <1>3, <1>4, SpecialSteps


-----------------------------------------------------------------------------
(* The invariant and what follows from it *)

LEMMA HistoryInit == Init => HistoryInv
<1> SUFFICES ASSUME Init PROVE HistoryInv
  OBVIOUS
<1>1. \A r \in Requests : req[r] = Free
  BY DEF Init
<1>2. Free.pc = "free" /\ Free.order = 0
  BY DEF Free, NoId
<1>3. live = {} /\ offers = {} /\ \A o \in Ids : marks[o] = {}
  BY DEF Init
<1>4. \A r \in Requests : ~Active(r)
  BY <1>1, <1>2 DEF Active
<1>5. Structure
  <2>1. OnPath /\ OneAtATime
    BY <1>3, <1>4 DEF OnPath, OneAtATime
  <2>2. Fresh /\ Keys
    BY <1>1, <1>2, <1>3 DEF Fresh, Keys, Init
  <2>3. Aimed
    BY <1>1, <1>2 DEF Aimed, Aims
  <2> QED
    BY <2>1, <2>2, <2>3 DEF Structure
<1>6. ASSUME NEW o \in Ids PROVE Undisturbed(o)
  BY <1>3, <1>4 DEF Undisturbed, BusyOn, Quiet
<1> QED
  BY <1>3, <1>5, <1>6 DEF HistoryInv

LEMMA HistoryStep == TypeInv /\ HistoryInv /\ [Next]_vars => HistoryInv'
<1> SUFFICES ASSUME TypeInv, HistoryInv, [Next]_vars PROVE HistoryInv'
  OBVIOUS
<1>1. CASE Next
  <2>r. PICK r \in Requests : Does(r)
    BY <1>1, StepDoes
  <2>t. TypeInv' /\ (live' \subseteq Ids)
    BY NextType DEF TypeInv, TypeOK
  <2>s. Structure
    BY DEF HistoryInv
  <2>m. \A o \in Ids : \A h : Spared(o, h)' => Spared(o, h)
    BY <2>r, MarksGrow
  <2>o. /\ \A o : Spared(o, {"overlap", "abort"}) => Spared(o, {"overlap"})
        /\ \A o : Spared(o, {"overlap", "abort", "redraft"})
                    => Spared(o, {"overlap", "abort"})
        /\ \A o : Spared(o, {"overlap", "abort"})' => Spared(o, {"overlap"})'
    BY DEF Spared
  <2>1. Structure'
    BY <2>r, <2>s, StructureStep
  <2>2. ASSUME NEW o \in Ids, Spared(o, {"overlap"})'
        PROVE  Undisturbed(o)'
    <3>1. Undisturbed(o)
      BY <2>2, <2>m DEF HistoryInv
    <3> QED
      BY <2>2, <2>r, <2>s, <3>1, UndisturbedStep
  <2>3. ASSUME NEW o \in live', Spared(o, {"overlap", "abort"})'
        PROVE  Numbered(o)' /\ Decided(o)'
    <3>1. o \in Ids
      BY <2>t
    <3>2. Spared(o, {"overlap", "abort"}) /\ Spared(o, {"overlap"})
      BY <2>3, <2>m, <2>o, <3>1
    <3>3. Undisturbed(o) /\ (o \in live => Numbered(o) /\ Decided(o))
      BY <3>1, <3>2 DEF HistoryInv
    <3>4. Numbered(o)'
      BY <2>3, <2>r, <2>s, <3>1, <3>3, NumberedStep
    <3>5. Decided(o)'
      BY <2>3, <2>r, <2>s, <3>1, <3>3, DecidedStep
    <3> QED
      BY <3>4, <3>5
  <2>4. ASSUME NEW o \in live', Spared(o, {"overlap", "abort", "redraft"})'
        PROVE  Announced(o)'
    <3>1. o \in Ids
      BY <2>t
    <3>2. Spared(o, {"overlap", "abort", "redraft"}) /\ Spared(o, {"overlap"})
      BY <2>4, <2>m, <2>o, <3>1
    <3>3. Undisturbed(o) /\ (o \in live => Announced(o))
      BY <3>1, <3>2 DEF HistoryInv
    <3> QED
      BY <2>4, <2>r, <2>s, <3>1, <3>3, AnnouncedStep
  <2> QED
    BY <2>1, <2>2, <2>3, <2>4 DEF HistoryInv
<1>2. CASE UNCHANGED vars
  <2>1. Structure'
    BY <1>2 DEF vars, HistoryInv, Structure, OnPath, Fresh, Keys, Aimed, Aims,
       OneAtATime, Active
  <2>s. \A o, h : Spared(o, h)' <=> Spared(o, h)
    BY <1>2 DEF vars, Spared
  <2>q. \A o : Quiet(o)' <=> Quiet(o)
    BY <1>2 DEF vars, Quiet, BusyOn, Active
  <2>b. \A o, r : BusyOn(r, o)' <=> BusyOn(r, o)
    BY <1>2 DEF vars, BusyOn, Active
  <2>f. \A o : OffersOf(o)' = OffersOf(o)
    BY <1>2 DEF vars, OffersOf
  <2>2. \A o : Undisturbed(o) => Undisturbed(o)'
    BY <1>2, <2>q, <2>b DEF vars, Undisturbed
  <2>3. \A o : Numbered(o) => Numbered(o)'
    BY <1>2, <2>q, <2>b, <2>f DEF vars, Numbered, Reached, Whole, Versions, Making
  <2>4. \A o : Decided(o) => Decided(o)'
    BY <1>2, <2>q, <2>b, <2>f DEF vars, Decided, Has
  <2>5. \A o, row : Told(o, row) => Told(o, row)'
    BY <1>2 DEF vars, Told, LastLogged, LastMailed
  <2>6. \A o, s : LastLogged(o, s) => LastLogged(o, s)'
    BY <1>2 DEF vars, LastLogged
  <2>7. \A o : Announced(o) => Announced(o)'
    BY <1>2, <2>q, <2>b, <2>5, <2>6 DEF vars, Announced, Making
  <2>8. live' = live
    BY <1>2 DEF vars
  <2> QED
    BY <2>1, <2>2, <2>3, <2>4, <2>7, <2>8, <2>s DEF HistoryInv
<1> QED
  BY <1>1, <1>2

LEMMA HistoryInvariant == Spec => [](TypeInv /\ HistoryInv)
<1>1. Init => TypeInv /\ HistoryInv
  BY InitType, HistoryInit
<1>2. TypeInv /\ HistoryInv /\ [Next]_vars => (TypeInv /\ HistoryInv)'
  BY NextType, HistoryStep
<1> QED
  BY <1>1, <1>2, PTL DEF Spec

\* Although order.save() inserts a row it does not find, an order deleted while
\* no handler was at work on it does not come back (DeletedStaysDeleted),
\* however many requests were already under way for it.
THEOREM DeletedStays == Spec => []DeletedStaysDeleted
<1>1. HistoryInv => DeletedStaysDeleted
  BY DEF HistoryInv, DeletedStaysDeleted, Undisturbed
<1> QED
  BY <1>1, HistoryInvariant, PTL

\* The read-modify-write of offer_version in OfferSerializer.create numbers the
\* offers of an order 1, 2, .. and each gets its items, unless handlers overlap
\* on the order or one stops half way (OffersNumbered).
THEOREM NumbersKept == Spec => []OffersNumbered
<1>1. ASSUME TypeInv, HistoryInv PROVE OffersNumbered
  <2> SUFFICES ASSUME NEW o \in live, Spared(o, {"overlap", "abort"})
               PROVE  /\ \A f, g \in OffersOf(o) : f.version = g.version => f = g
                      /\ {f.version : f \in OffersOf(o)} \subseteq 1 .. orders[o].fv
                      /\ Quiet(o) => /\ {f.version : f \in OffersOf(o)} = 1 .. orders[o].fv
                                     /\ \A f \in OffersOf(o) : f.complete
    BY DEF OffersNumbered
  <2>1. Numbered(o)
    BY <1>1 DEF HistoryInv
  <2>2. o \in Ids /\ orders[o].fv \in Nat /\ \A r \in Requests : req[r].row.fv \in Nat
    BY <1>1 DEF TypeInv, TypeOK, Request, Row
  <2>3. CASE Quiet(o)
    BY <2>1, <2>3 DEF Numbered, Reached, Whole, Versions
  <2>4. CASE ~Quiet(o)
    <3>1. PICK r \in Requests : BusyOn(r, o)
      BY <2>4 DEF Quiet
    <3>2. PICK n \in Int : Reached(o, n) /\ n <= orders[o].fv
      BY <2>1, <2>2, <3>1 DEF Numbered
    <3> QED
      BY <2>2, <2>4, <3>2 DEF Reached, Versions
  <2> QED
    BY <2>3, <2>4
<1> QED
  BY <1>1, HistoryInvariant, PTL

\* A decision is written on the offer before it is written on the order, and
\* a page may send it long after another one: an order that shows a decision has
\* an offer with it, unless handlers overlap or one stops half way
\* (DecisionOnOffer).
THEOREM DecisionsOnOffers == Spec => []DecisionOnOffer
<1>1. HistoryInv => DecisionOnOffer
  BY DEF HistoryInv, DecisionOnOffer, Decided, Has, Quiet
<1> QED
  BY <1>1, HistoryInvariant, PTL

\* The log entry and the mail task precede the save of the order: once no handler
\* is at work, the last status told is the order's (StatusAnnounced).
THEOREM StatusTold == Spec => []StatusAnnounced
<1>1. HistoryInv => StatusAnnounced
  BY DEF HistoryInv, StatusAnnounced, Announced, Told
<1> QED
  BY <1>1, HistoryInvariant, PTL

\* What a step makes of a row of table Order.
LEMMA RowChange ==
    ASSUME TypeInv, HistoryInv, NEW r \in Requests, Does(r), NEW o \in live,
           o \in live', Spared(o, {"overlap"})'
    PROVE  /\ orders'[o] \in {orders[o]} \cup Results(orders[o])
           /\ \/ DoSave(r) /\ req[r].order = o
              \/ orders'[o] = orders[o]
<1>t. o \in Ids /\ nextOrder \in Nat
  BY DEF TypeInv, TypeOK
<1>1. CASE DoSave(r) /\ req[r].order = o
  <2>1. BusyOn(r, o) /\ orders'[o] = req[r].row
    BY <1>1 DEF DoSave, BusyOn, Active
  <2>2. Undisturbed(o)
    BY <1>t, MarksGrow DEF HistoryInv
  <2> QED
    BY <1>1, <2>1, <2>2 DEF Undisturbed
<1>2. CASE DoSave(r) /\ req[r].order # o
  BY <1>t, <1>2 DEF DoSave
<1>3. CASE DoCreate(r)
  <2>1. o # nextOrder
    BY <1>t DEF HistoryInv, Structure, Fresh
  <2> QED
    BY <1>t, <1>3, <2>1 DEF DoCreate
<1>4. CASE DoDelete(r)
  BY <1>t, <1>4 DEF DoDelete
<1>5. CASE KeepsRows
  BY <1>5 DEF KeepsRows
<1> QED
  BY <1>1, <1>2, <1>3, <1>4, <1>5, OthersStay

\* Model.save writes every column of a row read before: unless another handler
\* was at work on the order, each save applies one operation to the row as it
\* is in the table, so no update is lost (NoLostUpdate).
THEOREM NoUpdateLost == Spec => NoLostUpdate
<1> DEFINE Kept == \A o \in live \cap live' :
        "overlap" \notin marks'[o] =>
            orders'[o] \in {orders[o]} \cup Results(orders[o])
<1>1. TypeInv /\ HistoryInv /\ [Next]_vars => [Kept]_vars
  <2> SUFFICES ASSUME TypeInv, HistoryInv, Next, NEW o \in live, o \in live',
                      "overlap" \notin marks'[o]
               PROVE  orders'[o] \in {orders[o]} \cup Results(orders[o])
    OBVIOUS
  <2>1. PICK r \in Requests : Does(r)
    BY StepDoes
  <2>2. Spared(o, {"overlap"})'
    BY DEF Spared
  <2> QED
    BY <2>1, <2>2, RowChange
<1> QED
  BY <1>1, HistoryInvariant, PTL DEF Spec, NoLostUpdate


-----------------------------------------------------------------------------
(* One worker *)

\* The table's operations are those of the handlers.
LEMMA TableResults == \A row : Table!Results(row) = Results(row)
  BY DEF Table!Results, Results, Table!RequestRow, RequestRow,
     Table!OfferedRow, OfferedRow, Table!BlankRow, BlankRow,
     Table!SubmittedRow, SubmittedRow, Table!StaffStatusRow, StaffStatusRow,
     Table!DecidedRow, DecidedRow, Table!Customers, Customers,
     Table!Decisions, Decisions

LEMMA TableInitially == Init => Table!TableInit
  BY DEF Init, Table!TableInit, Ids, Table!CreatedRow, CreatedRow,
     Table!Null, Null

LEMMA TableStep ==
    ASSUME OneWorker, TypeInv, HistoryInv, [Next]_vars
    PROVE  [Table!TableNext]_(Table!tableVars)
<1>1. CASE UNCHANGED vars
  BY <1>1 DEF vars, Table!tableVars
<1>2. CASE Next
  <2>r. PICK r \in Requests : Does(r)
    BY <1>2, StepDoes
  <2>t. /\ orders \in [Ids -> Row] /\ orders' \in [Ids -> Row]
        /\ live \subseteq Ids /\ nextOrder \in Nat /\ MaxOrders \in Nat
    BY <1>2, NextType, BoundsAssumption DEF TypeInv, TypeOK
  <2>s. \A o \in Ids : Spared(o, {"overlap"}) /\ Spared(o, {"overlap"})'
    BY <2>r, StructureStep DEF HistoryInv, Structure, OneAtATime, Spared
  <2>1. CASE DoCreate(r)
    <3>1. PICK row \in {CreatedRow, BlankCreatedRow} : orders'[nextOrder] = row
      BY <2>1 DEF DoCreate
    <3>2. orders' = [orders EXCEPT ![nextOrder] = row]
      BY <2>1, <2>t, <3>1 DEF DoCreate
    <3>3. row \in {Table!CreatedRow, Table!BlankCreatedRow}
      BY <3>1 DEF Table!CreatedRow, CreatedRow, Table!Null, Null,
         Table!BlankCreatedRow, BlankCreatedRow
    <3>4. nextOrder <= MaxOrders /\ live' = live \cup {nextOrder}
          /\ nextOrder' = nextOrder + 1
      BY <2>1, <2>t DEF DoCreate, Ids
    <3>5. Table!Create
      BY <3>2, <3>3, <3>4 DEF Table!Create
    <3> QED
      BY <3>5 DEF Table!TableNext
  <2>2. CASE DoDelete(r)
    <3>1. orders' = [orders EXCEPT ![req[r].order] = CreatedRow]
      BY <2>2, <2>t DEF DoDelete
    <3>2. CreatedRow = Table!CreatedRow
      BY DEF Table!CreatedRow, CreatedRow, Table!Null, Null
    <3>3. req[r].order \in live /\ live' = live \ {req[r].order}
          /\ nextOrder' = nextOrder
      BY <2>2 DEF DoDelete
    <3>4. Table!Delete(req[r].order)
      BY <3>1, <3>2, <3>3 DEF Table!Delete
    <3> QED
      BY <3>3, <3>4 DEF Table!TableNext
  <2>3. CASE DoSave(r)
    <3> DEFINE o == req[r].order
    <3>1. BusyOn(r, o)
      BY <2>3 DEF DoSave, BusyOn, Active
    <3>2. o \in Ids
      BY <3>1 DEF TypeInv, WellFormed, BusyOn, Active
    <3>3. o \in live
      BY <2>s, <3>1, <3>2 DEF HistoryInv, Undisturbed, Quiet
    <3>4. live' = live /\ nextOrder' = nextOrder
      BY <2>3, <3>3 DEF DoSave
    <3>5. orders'[o] \in {orders[o]} \cup Results(orders[o])
      BY <2>r, <2>s, <3>2, <3>3, <3>4, RowChange
    <3>6. orders' = [orders EXCEPT ![o] = orders'[o]]
      BY <2>3, <2>t, <3>2 DEF DoSave
    <3>7. CASE orders'[o] = orders[o]
      <4>1. orders' = orders
        BY <2>t, <3>2, <3>6, <3>7
      <4> QED
        BY <3>4, <4>1 DEF Table!tableVars
    <3>8. CASE orders'[o] \in Results(orders[o])
      <4>1. Table!Update(o)
        BY <3>4, <3>6, <3>8, TableResults DEF Table!Update
      <4> QED
        BY <3>3, <4>1 DEF Table!TableNext
    <3> QED
      BY <3>5, <3>7, <3>8
  <2>4. CASE KeepsRows
    BY <2>4 DEF KeepsRows, Table!tableVars
  <2> QED
    BY <2>r, <2>1, <2>2, <2>3, <2>4, OthersStay
<1> QED
  BY <1>1, <1>2

\* With the one synchronous worker of the Procfile table Order implements
\* OrderTable (TableRefined): whatever requests are lost half way, and whatever
\* pages they act on, every change applies one operation to the row in the table.
THEOREM OneWorkerTable == OneWorker => (Spec => TableRefined)
<1> SUFFICES ASSUME OneWorker PROVE Spec => TableRefined
  OBVIOUS
<1>1. TypeInv /\ HistoryInv /\ [Next]_vars => [Table!TableNext]_(Table!tableVars)
  BY TableStep
<1> QED
  BY <1>1, TableInitially, HistoryInvariant, PTL
     DEF Spec, TableRefined, Table!TableSpec
=============================================================================
