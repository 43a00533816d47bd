------------------------------ MODULE HubStock ------------------------------
(***************************************************************************)
(* What the warehouse promises, without orders' counters, invoices or       *)
(* trips: how many packages of each order every hub holds, and how many of  *)
(* them its saved outbound notes plan to ship.                              *)
(***************************************************************************)
EXTENDS Naturals

CONSTANTS Orders, Hubs

VARIABLES stock, planned

Quantities == [Orders -> [Hubs -> Nat]]
Covered == \A o \in Orders, h \in Hubs : planned[o][h] <= stock[o][h]

Init ==
  /\ stock = [o \in Orders |-> [h \in Hubs |-> 0]]
  /\ planned = [o \in Orders |-> [h \in Hubs |-> 0]]

(* No other hub is touched. *)
OnlyAt(h) == \A o \in Orders : \A g \in Hubs \ {h} : stock'[o][g] = stock[o][g]

Receive(h) ==
  /\ stock' \in Quantities
  /\ OnlyAt(h)
  /\ \A o \in Orders : stock'[o][h] >= stock[o][h]

Ship(h) ==
  /\ stock' \in Quantities
  /\ OnlyAt(h)
  /\ \A o \in Orders : stock'[o][h] <= stock[o][h]

(* Plans are revised at any time, and always remain covered. *)
Replan == planned' \in Quantities /\ Covered'

Next == \E h \in Hubs : (Receive(h) \/ Ship(h)) /\ Replan

Spec == Init /\ [][Next]_<<stock, planned>>
=============================================================================
