----------------------- MODULE MCWarehouseCorrections -----------------------
(***************************************************************************)
(* Corrections of invoices and trips on small instances, each kind of work  *)
(* with the sizes it needs.  What is done beside the daily routine is chosen *)
(* at the start of a behaviour.                                             *)
(***************************************************************************)
EXTENDS WarehouseCorrections

CONSTANTS o1, o2, hubA, hubB

OneOrder == {o1}
TwoOrders == {o1, o2}
TwoHubs == {hubA, hubB}

(* No contract names a destination hub, so hubs and orders are alike. *)
NoDestination == [o \in Orders |-> NoHub]
Interchangeable == Permutations(Hubs) \cup Permutations(Orders)

VARIABLE work

Size(trips, quantity, packages, invoices) ==
  /\ lastTrip <= trips
  /\ \A o \in Orders :
       /\ order[o].total <= packages
       /\ Len(ledger[o]) <= invoices
       /\ \A i \in DOMAIN ledger[o] : ledger[o][i].qty <= quantity
       /\ \A t \in Codes : line[t][o].qty <= quantity

(* An orderly administrator: single invoices corrected, or dispatches taken *)
(* back.  In the last world goods are handed in at the gates of two hubs    *)
(* and leave on two vehicles without a note or a hub passed by, while       *)
(* invoices are corrected.                                                  *)
VehiclesOnlyLeave ==
  /\ \A t \in Trips, o \in Orders : LiveLine(t, o) => ~(line[t][o].kind = "INBOUND" \/ PendingOut(t, o))
  /\ \A t \in Trips, h \in Hubs : stop[t][h] = "COMPLETED" =>
       \E o \in Orders : \E i \in DOMAIN ledger[o] : ledger[o][i].trip = t /\ ledger[o][i].hub = h

OrderlyInit == CorrectionsInit /\ work \in {"invoices", "taking back", "vehicles leave"}
OrderlyWork ==
  \/ work = "invoices" /\ (Routine \/ CarefulCorrection) /\ Size(1, 2, 2, 2)'
  \/ work = "taking back" /\ (Routine \/ TakeBack) /\ Size(2, 1, 1, 2)'
  \/ /\ work = "vehicles leave"
     /\ Routine \/ CarefulCorrection
     /\ Size(2, 1, 2, 4)' /\ VehiclesOnlyLeave'
AdministratorSpec == OrderlyInit /\ [][OrderlyWork /\ UNCHANGED work]_<<everything, work>>

(* Two orders on one vehicle that is loaded on the road, or one order under *)
(* whatever the handlers accept: corrections and dispatches taken back, or  *)
(* loading and trips reopened.  The requests are those of users of a hub;   *)
(* all operations of MCWarehouseLedger has administrators without one.      *)
HubDaily == HubNext /\ origins' = origins \cup FirstLoaded
Entered == {o \in Orders : ~IsUnborn(o)}

OnTheRoadInit == CorrectionsInit /\ work \in {"loading", "corrections", "reopening"}
OnTheRoadWork ==
  \/ work = "loading" /\ (Routine \/ Loading) /\ Size(1, 1, 1, 1)'
  \/ /\ work = "corrections"
     /\ HubDaily \/ InvoiceCorrection \/ TakeBack
     /\ Cardinality(Entered') <= 1 /\ Size(1, 1, 2, 2)'
  \/ /\ work = "reopening"
     /\ HubDaily \/ Loading \/ Rollback
     /\ Cardinality(Entered') <= 1 /\ Size(1, 1, 1, 2)'
OnTheRoadSpec == OnTheRoadInit /\ [][OnTheRoadWork /\ UNCHANGED work]_<<everything, work>>

-----------------------------------------------------------------------------
(* Corrections that leave every hub what it dispatched, and dispatches taken *)
(* back, keep every counter of an order what its invoices say, through any  *)
(* number of corrections between the daily handlers: dispatched and         *)
(* received packages are the sums of the invoices, what remains is what the *)
(* hubs hold, and no hub ships what it never received.                      *)
CorrectionsKeepTheBooks == CountersMatchLedger /\ RemainingIsStock /\ HubStockNonNegative

(* Where nothing is rolled back, an order on the road is on a live line of  *)
(* the trip it names, whatever is loaded, received or redirected meanwhile. *)
LoadedOrdersRide == work = "loading" => RidesItsTrip

(* Corrections without care and dispatches taken back leave no contract     *)
(* total below what was received: the recount of a correction sets both.    *)
CorrectedTotalsCover == work = "corrections" => TotalCoversInbound

(* Loading on the road and trips reopened keep every line on the road       *)
(* invoiced.                                                                *)
RoadStaysInvoiced == work # "corrections" => RoadIsInvoiced
=============================================================================
