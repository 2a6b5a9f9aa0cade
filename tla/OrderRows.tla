------------------------------ MODULE OrderRows ------------------------------
(***************************************************************************)
(* A row of table Order (orders/models.py) and what the handlers of        *)
(* orders/serializers.py and orders/views.py assign to it.  The columns    *)
(* left out (number, total, dates, modified_by, the users that changed a   *)
(* status) are written and never read by the handlers.                     *)
(***************************************************************************)
EXTENDS Integers

CONSTANTS
    Employees,     \* company users below access_level '6'
    Managers,      \* company users with access_level '6' and above
    Nobody,        \* a null user column
    StaffCodes     \* the status codes Optiz users pick in "Update Status"

ASSUME StaffCodesAssumption ==
    StaffCodes \subseteq {"INP", "COM", "INV", "CAN", "BOR", "ARC"}
ASSUME UsersAssumption ==
    /\ Employees \cap Managers = {}
    /\ Nobody \notin Employees \cup Managers

Customers == Employees \cup Managers
Null      == -1             \* order_version before the first save

\* The codes the handlers and the client assign to the three status columns.
Decisions  == {"APV", "REF"}
Codes      == {"WRQ", "APN", "PEN", "OFR", "OSB"} \cup Decisions \cup StaffCodes

Row == [draft : BOOLEAN, status : Codes, comp : Codes, optiz : Codes,
        ov : Nat \cup {Null}, fv : Nat, offer : BOOLEAN,
        approver : Customers \cup {Nobody}, addr : BOOLEAN, ref : BOOLEAN]

\* What Order.objects.create stores: the defaults of the model.
CreatedRow ==
    [draft |-> FALSE, status |-> "WRQ", comp |-> "PEN", optiz |-> "PEN",
     ov |-> Null, fv |-> 0, offer |-> FALSE, approver |-> Nobody,
     addr |-> FALSE, ref |-> FALSE]

\* ReqItemViewSet.perform_create on the row it has just created.
RequestRow(row) ==
    [row EXCEPT !.ov = 0, !.draft = TRUE, !.status = "WRQ",
                !.comp = "WRQ", !.optiz = "WRQ"]

\* OfferSerializer.create: the row a blank offer creates, and what it adds to
\* it in memory before the part common to both kinds of offer.
BlankCreatedRow    == [CreatedRow EXCEPT !.addr = TRUE]
BlankRow(row, ref) == [row EXCEPT !.ov = 1, !.ref = ref]

\* Mutants: the version counts down; a second offer keeps the first's version.
OfferedRowCountsDown(row) ==
    [row EXCEPT !.fv = @ - 1, !.offer = TRUE, !.status = "OFR", !.optiz = "OSB"]

OfferedRowSameVersion(row) ==
    [row EXCEPT !.ov = IF row.fv >= 1 THEN @ + 1 ELSE @, !.fv = 1,
                !.offer = TRUE, !.status = "OFR", !.optiz = "OSB"]

\* OfferSerializer.create: the assignments common to both kinds of offer.
OfferedRow(row) ==
    [row EXCEPT !.ov = IF row.fv >= 1 THEN @ + 1 ELSE @,
                !.fv = @ + 1, !.offer = TRUE,
                !.status = "OFR", !.optiz = "OSB"]

\* OrderSerializer.update, order_draft branch: access_level >= '6' submits to
\* Optiz, any other user asks the management.  The comparison on line 271
\* assigns nothing, so company_approval_status stays as it is.
SubmittedRow(row, u) ==
    IF u \in Managers
      THEN [row EXCEPT !.draft = FALSE, !.comp = "PEN", !.status = "PEN",
                       !.optiz = "PEN", !.approver = u, !.ov = @ + 1]
      ELSE [row EXCEPT !.draft = FALSE,
                       !.status = IF row.comp = "APN" THEN @ ELSE "APN"]

\* OrderSerializer.update, order_status branch with optiz_status (orderStat).
StaffStatusRow(row, s) ==
    IF s = row.status THEN row ELSE [row EXCEPT !.status = s, !.optiz = s]

\* Mutant: company_approval_status is not assigned.
DecidedRowStatusOnly(row, s, u) ==
    IF s = row.status THEN row ELSE [row EXCEPT !.status = s, !.approver = u]

\* OrderSerializer.update, order_status branch without it (offerApvl).
DecidedRow(row, s, u) ==
    IF s = row.status THEN row
    ELSE [row EXCEPT !.status = s, !.comp = s, !.approver = u]

-----------------------------------------------------------------------------
(* What a step of a handler makes of a row *)

Results(row) ==
    {RequestRow(row), OfferedRow(row)}
    \cup {OfferedRow(BlankRow(row, ref)) : ref \in BOOLEAN}
    \cup {[row EXCEPT !.draft = d] : d \in BOOLEAN}
    \cup {SubmittedRow(row, u) : u \in Customers}
    \cup {StaffStatusRow(row, s) : s \in StaffCodes}
    \cup {DecidedRow(row, s, u) : s \in Decisions, u \in Customers}
    \cup {[row EXCEPT !.addr = TRUE], [row EXCEPT !.ref = TRUE]}

=============================================================================
