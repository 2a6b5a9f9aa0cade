----------------------------- MODULE OrderTable -----------------------------
(***************************************************************************)
(* What the order core promises of table Order when requests do not        *)
(* disturb each other: ids are never reused, a deleted order stays deleted,*)
(* and every other change applies one operation to the row as it is in the *)
(* table at that moment.  Nothing is lost, whatever happens to a request   *)
(* half way.                                                               *)
(***************************************************************************)
EXTENDS OrderRows

CONSTANT MaxOrders

VARIABLES
    live,        \* ids of the rows
    rows,        \* their columns
    nextOrder    \* the next id

tableVars == <<live, rows, nextOrder>>

TableInit ==
    /\ live = {}
    /\ rows = [o \in 1 .. MaxOrders |-> CreatedRow]
    /\ nextOrder = 1

Create ==
    /\ nextOrder <= MaxOrders
    /\ live' = live \cup {nextOrder}
    /\ \E row \in {CreatedRow, BlankCreatedRow} :
          rows' = [rows EXCEPT ![nextOrder] = row]
    /\ nextOrder' = nextOrder + 1

Update(o) ==
    /\ \E row \in Results(rows[o]) : rows' = [rows EXCEPT ![o] = row]
    /\ UNCHANGED <<live, nextOrder>>

Delete(o) ==
    /\ live' = live \ {o}
    /\ rows' = [rows EXCEPT ![o] = CreatedRow]
    /\ UNCHANGED nextOrder

TableNext == Create \/ \E o \in live : Update(o) \/ Delete(o)

TableSpec == TableInit /\ [][TableNext]_tableVars

=============================================================================
