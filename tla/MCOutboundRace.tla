--------------------------- MODULE MCOutboundRace ---------------------------
(***************************************************************************)
(* Two clerks at two hubs.  A behaviour is one of two shifts, chosen at its *)
(* start: dispatches to other hubs only, on two trips, or everything the    *)
(* clerks may do at once, on one.                                           *)
(***************************************************************************)
EXTENDS OutboundRace, TLC

CONSTANTS o1, hubA, hubB, clerk1, clerk2

OneOrder == {o1}
TwoHubs == {hubA, hubB}
TwoClerks == {clerk1, clerk2}
NoDestination == [o \in Orders |-> NoHub]
Interchangeable == Permutations(Hubs) \cup Permutations(Clerks)

VARIABLE shift

OneTrip == INSTANCE OutboundRace WITH MaxTrips <- 1

ShiftInit == RaceInit /\ shift \in {"transfers", "anything"}
ShiftSpec ==
  /\ ShiftInit
  /\ [][/\ \/ shift = "transfers" /\ DeskNext(Hubs)
           \/ shift = "anything" /\ OneTrip!RaceNext
        /\ UNCHANGED shift]_<<raceVars, shift>>

(* Dispatches to other hubs and to customers at once. *)
BothKindsInit == RaceInit /\ shift = "both kinds"
BothKindsSpec ==
  BothKindsInit /\ [][DeskNext(Hubs \cup {NoHub}) /\ UNCHANGED shift]_<<raceVars, shift>>

(* Everything at once, of as many orders and trips as the constants say.    *)
AnythingInit == RaceInit /\ shift = "anything"
AnythingSpec == AnythingInit /\ [][RaceNext /\ UNCHANGED shift]_<<raceVars, shift>>

-----------------------------------------------------------------------------
(* Two clerks who dispatch from the same hub to other hubs never send more  *)
(* than the hub has: the second waits for the counter of the invoice codes  *)
(* and reads the stock only then.                                           *)
TransfersNeverOversell == shift = "transfers" => HubStockNonNegative
=============================================================================
