------------------------------ MODULE MCOrders ------------------------------
(***************************************************************************)
(* Instances of Orders for TLC.  Each question sends the kinds of request  *)
(* that matter to it.                                                      *)
(***************************************************************************)
EXTENDS Orders, TLC

CONSTANTS r1, r2, employee, manager

MCRequests  == {r1, r2}
MCEmployees == {employee}
MCManagers  == {manager}

\* The slots are interchangeable.
SlotSymmetry == Permutations(MCRequests)

=============================================================================
