--------------------------- MODULE MCTripTimeline ---------------------------
(***************************************************************************)
(* One trip of two orders: up to its confirmation at the pace of people, or *)
(* through cancellations and rollbacks as fast as the server answers.       *)
(***************************************************************************)
EXTENDS TripTimeline
CONSTANTS o1, o2
TwoOrders == {o1, o2}

VARIABLE hands

HandsInit == Init /\ hands \in {"people", "scripts"}
HandsNext ==
  /\ \/ hands = "people" /\ ForwardNext /\ (told' # told /\ told # <<>> => now - Last(told).at >= 3)
     \/ hands = "scripts" /\ Next /\ now' <= 1
  /\ UNCHANGED hands

-----------------------------------------------------------------------------
(* When people work on the trip, six seconds and more apart, the history    *)
(* reconstructed from what the handlers leave behind (getTripHistory) is    *)
(* the real one until the trip is confirmed or cancelled: no save, receipt  *)
(* or dispatch is missing or has another's time, and the one step that may  *)
(* be invented is a save at the time a draft order was changed elsewhere.   *)
HistoryIsTrue == hands = "people" => TimelineIsHistory

(* warehouse.service.ts:7912 "Retrieve complete chronological history &     *)
(* operational audit trail of a Trip (SD...), including draft creation,     *)
(* draft modifications": no step of it is invented.                         *)
NoStepInvented == hands = "people" => NothingInvented
=============================================================================
