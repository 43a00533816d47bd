---------------------------- MODULE MCFleetDesk ----------------------------
(***************************************************************************)
(* The fleet desk with a few orders, clerks and notes.  A behaviour is one  *)
(* of three days, chosen at its start: requests about one order that never  *)
(* overlap, overlapping requests that plan its vehicles, and the removal of *)
(* two orders that share an outbound note.                                  *)
(***************************************************************************)
EXTENDS FleetDesk, TLC

CONSTANTS o1, o2, c1, c2, n1

TwoOrders == {o1, o2}
TwoClerks == {c1, c2}
OneNote == {n1}
Interchangeable == Permutations(Clerks)

VARIABLE day

Busy == {c \in Clerks : ~IsIdle(c)}
OnlyFirstOrder ==
  /\ LinesOf(o2) = {}
  /\ \A c \in Clerks : "order" \in DOMAIN req[c] => req[c].order = o1

DayNext ==
  /\ \/ day = "no overlap" /\ Next /\ Cardinality(Busy') <= 1 /\ OnlyFirstOrder'
     \/ day = "planning" /\ DispatchNext /\ OnlyFirstOrder'
     \/ day = "removing" /\ RemovalNext
  /\ UNCHANGED day

DayInit == Init /\ day \in {"no overlap", "planning", "removing"}
DaySpec ==
  /\ DayInit
  /\ [][DayNext]_<<vars, day>>
  /\ Fairness

-----------------------------------------------------------------------------
(* The last two orders of a note, removed by two clerks at the same time:   *)
(* whichever request comes last finds the note empty and takes its stop     *)
(* along; no stop is left that no line of the note leads to.                *)
NoteGoesWithItsLastOrder == day = "removing" => NoGhostStop

(* Requests that do not overlap never leave a pending line of a removed     *)
(* order, in whichever order the desk plans, confirms and removes.          *)
NoPlanOutlivesItsOrder == day = "no overlap" => RemovedOrderHasNoPlan

(* Requests that do not overlap change the contract quantity of an order    *)
(* that has left DRAFT only by an override and its adjustment invoice.      *)
OneContract == [][day = "no overlap" => KeepsContract]_vars
=============================================================================
