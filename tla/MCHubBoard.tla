----------------------------- MODULE MCHubBoard -----------------------------
(* Small instances of the warehouse screens. *)
EXTENDS HubBoard

CONSTANTS o1, hubA, hubB

OneOrder == {o1}
TwoHubs == {hubA, hubB}

(* Contracts name no destination hub. *)
NoDestination == [o \in Orders |-> NoHub]
Interchangeable == Permutations(Hubs) \cup Permutations(Orders)

(* The bounds together allow too much: an order on two trips, or more of    *)
(* its packages on one.                                                     *)
Born == {o \in Orders : ~IsUnborn(o)}
Size(trips, quantity, packages, invoices) ==
  /\ lastTrip <= trips
  /\ \A o \in Born :
       /\ order[o].total <= packages
       /\ Len(ledger[o]) <= invoices
       /\ \A i \in DOMAIN ledger[o] : ledger[o][i].qty <= quantity
       /\ \A t \in Codes : line[t][o].qty <= quantity
Small == Size(2, 1, 2, 2) \/ Size(1, 2, 3, 3)

SmallSpec == BoardInit /\ [][BoardNext /\ Small']_board
=============================================================================
