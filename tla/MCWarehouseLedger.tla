------------------------- MODULE MCWarehouseLedger -------------------------
(* A small instance of all warehouse operations. *)
EXTENDS WarehouseLedger, TLC, Functions

CONSTANTS o1, o2, hubA, hubB

TwoOrders == {o1, o2}
TwoHubs == {hubA, hubB}

(* No contract names a destination hub: neither hubs nor orders are told apart. *)
NoDestination == [o \in Orders |-> NoHub]

Interchangeable == Permutations(Hubs) \cup Permutations(Orders)

(* The orders share two packages and two invoices; four if they leave on    *)
(* one vehicle, perhaps from two hubs.                                      *)
Total(f) == FoldFunction(+, 0, f)
OnlyLeaving == \A t \in Trips, o \in Orders : LiveLine(t, o) => line[t][o].kind \in Dispatch
Small ==
  /\ Total([o \in Orders |-> order[o].total]) <= 2
  /\ Total([o \in Orders |-> Len(ledger[o])]) <= IF OnlyLeaving THEN 4 ELSE 2

SmallSpec == Init /\ [][Next /\ Small']_vars
=============================================================================
