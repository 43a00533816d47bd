------------------------ MODULE WarehouseCorrections ------------------------
(***************************************************************************)
(* What may happen to a trip and its invoices outside the daily routine     *)
(* (src/orders/warehouse.service): goods are loaded onto a trip that is     *)
(* already on the road, a line is sent to another destination, and an       *)
(* administrator deletes, restores or corrects an invoice or reopens a      *)
(* whole trip.  The tables and the daily handlers are those of              *)
(* WarehouseLedger.                                                         *)
(***************************************************************************)
EXTENDS WarehouseLedger, SequencesExt

VARIABLE origins   \* the stops inserted with stopType ORIGIN, as <<trip, hub>>

everything == <<order, ledger, line, stop, lastTrip, origins>>

-----------------------------------------------------------------------------
(* One invoice: deleteTransaction, restoreTransaction,                      *)
(* updateTransactionQuantity.                                               *)

SumOf(rows, kinds) == QtyOf(rows, {i \in DOMAIN rows : rows[i].live /\ rows[i].kind \in kinds})

CorrectedStatus(inb, outb) ==
  IF inb = 0 THEN "PENDING"
  ELSE IF outb = 0 THEN "STORED"
  ELSE IF inb = outb THEN "COMPLETED_OUTBOUND" ELSE "PARTIALLY_DELIVERED"

(* Mutants: the dispatched, the contract quantity is not recounted. *)
RecountedInbound(o, rows) ==
  [order[o] EXCEPT !.total = SumOf(rows, Receipt), !.inb = SumOf(rows, Receipt),
                   !.rem = Monus(SumOf(rows, Receipt), SumOf(rows, Dispatch)),
                   !.status = CorrectedStatus(SumOf(rows, Receipt), SumOf(rows, Dispatch))]
RecountedStock(o, rows) ==
  [order[o] EXCEPT !.inb = SumOf(rows, Receipt), !.outb = SumOf(rows, Dispatch),
                   !.rem = Monus(SumOf(rows, Receipt), SumOf(rows, Dispatch)),
                   !.status = CorrectedStatus(SumOf(rows, Receipt), SumOf(rows, Dispatch))]

(* Every counter of the order recomputed from its invoices. *)
Recounted(o, rows) ==
  LET inb == SumOf(rows, Receipt)
      outb == SumOf(rows, Dispatch)
  IN [order[o] EXCEPT !.total = inb, !.inb = inb, !.outb = outb, !.rem = Monus(inb, outb),
                      !.status = CorrectedStatus(inb, outb)]

Balanced(rows) == SumOf(rows, Dispatch) <= SumOf(rows, Receipt)

(* The invoices of o become rows, if the sums over all hubs allow it. *)
Correct(o, rows) ==
  /\ IsLive(o)
  /\ Balanced(rows)
  /\ ledger' = [ledger EXCEPT ![o] = rows]
  /\ order' = [order EXCEPT ![o] = Recounted(o, rows)]
  /\ UNCHANGED <<stop, lastTrip>>

DeleteTransaction(o, i) ==
  /\ ledger[o][i].live
  /\ Correct(o, [ledger[o] EXCEPT ![i].live = FALSE])
  /\ UNCHANGED line

RestoreTransaction(o, i) ==
  /\ ~ledger[o][i].live
  /\ Correct(o, [ledger[o] EXCEPT ![i].live = TRUE])
  /\ UNCHANGED line

(* The allocation line of the invoice's trip takes the new quantity too. *)
UpdateTransactionQuantity(o, i, q) ==
  LET t == ledger[o][i].trip IN
  /\ ledger[o][i].live
  /\ Correct(o, [ledger[o] EXCEPT ![i].qty = q])
  /\ line' = IF t # NoTrip /\ LiveLine(t, o) THEN [line EXCEPT ![t][o].qty = q] ELSE line

-----------------------------------------------------------------------------
(* A whole trip: rollbackTrip. *)

StopIsLive(t, h) == stop[t][h] \in {"PENDING", "COMPLETED"}
At(h, at) == at = NoHub \/ h = at

(* Which side of the trip is reopened: the dispatch, if the trip carries an *)
(* outbound line or starts at the administrator's hub.                      *)
ReopensDispatch(t, at) ==
  \/ \E o \in LiveLines(t) : line[t][o].kind \in Dispatch
  \/ at # NoHub /\ <<t, at>> \in origins /\ StopIsLive(t, at)

ReversedKinds(t, at) == IF ReopensDispatch(t, at) THEN Dispatch ELSE Receipt
Reverses(r, t, at) == r.live /\ r.trip = t /\ r.kind \in ReversedKinds(t, at) /\ At(r.hub, at)

(* The handler gives the dispatches of an order back invoice by invoice: q   *)
(* packages in all.                                                         *)
Undispatch(ord, q) ==
  IF q = 0 THEN ord ELSE [ord EXCEPT !.outb = Monus(@, q), !.rem = @ + q, !.status = "INBOUND"]

(* An order with nothing left waits again: at its origin, or on the trip. *)
Unreceive(ord, r) ==
  LET rem == Monus(ord.rem, r.qty)
      left == [ord EXCEPT !.inb = Monus(@, r.qty), !.rem = rem]
  IN IF rem # 0 THEN left
     ELSE IF ord.origin # NoHub /\ r.hub \notin {NoHub, ord.origin}
          THEN [left EXCEPT !.status = "IN_TRANSIT", !.trip = r.trip]
     ELSE [left EXCEPT !.status = "WAITING"]

RolledBackOrder(o, t, at) ==
  LET q == QtyOf(ledger[o], {i \in DOMAIN ledger[o] : Reverses(ledger[o][i], t, at)})
      ord == Undispatch(order[o], q)
  IN IF ~IsLive(o) THEN order[o]
     ELSE IF ~ReopensDispatch(t, at)
          THEN FoldLeft(Unreceive, order[o], SelectSeq(ledger[o], LAMBDA r : Reverses(r, t, at)))
     ELSE IF (q > 0 \/ LiveLine(t, o)) /\ ord.trip = t THEN [ord EXCEPT !.trip = NoTrip]
     ELSE ord

ReopenedAsItWas(l) == l   \* mutant: the lines keep their status
ReopenedLine(l) == [l EXCEPT !.status = "PENDING"]

(* at is the administrator's hub or the one in the request; it may be null. *)
RollbackTrip(t, at) ==
  /\ LiveLines(t) # {} \/ \E h \in Hubs : StopIsLive(t, h)
  /\ order' = [o \in Orders |-> RolledBackOrder(o, t, at)]
  /\ ledger' = [o \in Orders |-> [i \in DOMAIN ledger[o] |->
                  IF Reverses(ledger[o][i], t, at) THEN [ledger[o][i] EXCEPT !.live = FALSE]
                  ELSE ledger[o][i]]]
  /\ stop' = [stop EXCEPT ![t] = [h \in Hubs |-> IF StopIsLive(t, h) /\ At(h, at) THEN "PENDING" ELSE @[h]]]
  /\ line' = [line EXCEPT ![t] = [o \in Orders |->
                IF LiveLine(t, o) THEN ReopenedLine(@[o]) ELSE @[o]]]
  /\ UNCHANGED lastTrip

-----------------------------------------------------------------------------
(* Loading a trip that is on the road.  OneLine is a bound of the model: an *)
(* order has at most one line on a trip.                                    *)

OneLine(t, o) == ~LiveLine(t, o)

(* appendOrderToTrip, HUB_OUTBOUND: an order of the hub, or a new one, goes *)
(* on to hub `to`.                                                          *)
AppendOrderToTrip(h, admin, t, o, q, to) ==
  /\ MayEditStop(t, h, admin)
  /\ LiveLines(t) # {}
  /\ IsUnborn(o) \/ IsLive(o)
  /\ OneLine(t, o) /\ Fits(o)
  /\ order' = [order EXCEPT ![o] =
                 IF IsUnborn(o) THEN [NewOrder(h, "IN_TRANSIT", q, q) EXCEPT !.inb = 0, !.trip = t]
                 ELSE [@ EXCEPT !.status = "IN_TRANSIT", !.trip = t]]
  /\ line' = [line EXCEPT ![t][o] = Line("IN_TRANSIT", "TRANSFER", h, q)]
  /\ ledger' = [ledger EXCEPT ![o] = Append(@, Row("TRANSFER", h, t, q))]
  /\ stop' = [stop EXCEPT ![t] = [g \in Hubs |->
                IF StopIsLive(t, g) \/ g \notin {h, to} THEN @[g]
                ELSE IF g = h THEN "COMPLETED" ELSE "PENDING"]]
  /\ UNCHANGED lastTrip

(* appendOrderToTrip, ROADSIDE_INBOUND: goods picked up on the way to h are *)
(* invoiced at once, at no hub.                                             *)
PickUpOnTheRoad(h, admin, t, o, q) ==
  /\ MayEditStop(t, h, admin)
  /\ LiveLines(t) # {}
  /\ IsUnborn(o) /\ Fits(o)
  /\ order' = [order EXCEPT ![o] =
                 [NewOrder(NoHub, "IN_TRANSIT", q, q) EXCEPT !.inb = 0, !.trip = t]]
  /\ line' = [line EXCEPT ![t][o] = Line("IN_TRANSIT", "INBOUND", NoHub, q)]
  /\ ledger' = [ledger EXCEPT ![o] = Append(@, Row("INBOUND", NoHub, t, q))]
  /\ stop' = [stop EXCEPT ![t][h] = IF StopIsLive(t, h) THEN @ ELSE "PENDING"]
  /\ UNCHANGED lastTrip

(* appendStoredOrdersToTrip: everything that remains of the chosen orders. *)
WholeLoad(o) == IF order[o].rem > 0 THEN order[o].rem ELSE order[o].total

AppendStoredOrdersToTrip(h, admin, t, S) ==
  /\ MayEditStop(t, h, admin)
  /\ LiveLines(t) # {}
  /\ \A o \in S : IsLive(o) /\ ~IsDraft(o) /\ OneLine(t, o) /\ Fits(o)
  /\ \A o \in S : Reserved(o, h, t) < WholeLoad(o)
  /\ order' = [o \in Orders |-> IF o \notin S THEN order[o]
                 ELSE LET outb == order[o].outb + WholeLoad(o)
                      IN [order[o] EXCEPT !.status = "IN_TRANSIT", !.trip = t, !.outb = outb,
                                          !.rem = Monus(order[o].total, outb)]]
  /\ line' = [line EXCEPT ![t] = [o \in Orders |->
                IF o \in S THEN Line("IN_TRANSIT", "TRANSFER", h, WholeLoad(o)) ELSE @[o]]]
  /\ ledger' = [o \in Orders |-> IF o \in S THEN Append(ledger[o], Row("TRANSFER", h, t, WholeLoad(o)))
                                 ELSE ledger[o]]
  /\ UNCHANGED <<stop, lastTrip>>

(* updateTripOrderDestination: the line is redirected, and its packages are *)
(* invoiced again at the hub of the user.  The stop row of a cancelled stop *)
(* still holds the unique key: inserting it again fails.                    *)
UpdateTripOrderDestination(h, admin, t, o, to) ==
  /\ MayEditStop(t, h, admin)
  /\ LiveLine(t, o) /\ IsLive(o) /\ Fits(o)
  /\ to # NoHub => stop[t][to] # "DELETED"
  /\ line' = [line EXCEPT ![t][o].kind = OutKind(to)]
  /\ stop' = [stop EXCEPT ![t] = [g \in Hubs |-> IF g = to /\ @[g] = "NONE" THEN "PENDING" ELSE @[g]]]
  /\ ledger' = [ledger EXCEPT ![o] =
                  Append(@, Row(IF stop[t][h] = "COMPLETED" THEN "ADJUSTMENT" ELSE "TRANSFER",
                                h, t, line[t][o].qty))]
  /\ UNCHANGED <<order, lastTrip>>

-----------------------------------------------------------------------------
(* A stop is an origin when a dispatch or a dispatch note of its hub is the *)
(* first to name it; the type of a stop row is never rewritten.             *)
LoadedAt(t, h) ==
  \E o \in Orders : /\ line'[t][o] # line[t][o]
                    /\ line'[t][o].status # "DELETED"
                    /\ line'[t][o].kind \in Dispatch /\ line'[t][o].hub = h
FirstLoaded ==
  {at \in Trips \X Hubs : LET t == at[1]
                              h == at[2]
                          IN stop[t][h] = "NONE" /\ stop'[t][h] # "NONE" /\ LoadedAt(t, h)}

Routine == RoutineNext /\ origins' = origins \cup FirstLoaded

(* Everything the daily handlers accept, routine or not.  Of the stops an   *)
(* administrator's dispatch inserts, only that of its first order is an     *)
(* origin.                                                                  *)
Daily ==
  \/ HubNext /\ origins' = origins \cup FirstLoaded
  \/ \E load \in Cargo, to \in Hubs \cup {NoHub}, d \in Codes \cup {NoTrip} :
       \E at \in [DOMAIN load -> Hubs], first \in DOMAIN load :
         /\ AdminOutbound(at, first, load, to, d)
         /\ origins' = origins \cup {x \in {<<TripFor(d), at[first]>>} : stop[x[1]][x[2]] = "NONE"}

(* An administrator corrects single invoices. *)
InvoiceCorrection ==
  /\ \E o \in Orders : \E i \in DOMAIN ledger[o] :
       \/ DeleteTransaction(o, i)
       \/ RestoreTransaction(o, i)
       \/ \E q \in 1 .. MaxQty : UpdateTransactionQuantity(o, i, q)
  /\ UNCHANGED origins

(* The handlers compare sums over all hubs only: taking out a receipt at one *)
(* hub passes while another hub has the packages.  A careful administrator  *)
(* leaves no hub with more dispatched than received.                        *)
CarefulCorrection == InvoiceCorrection /\ HubStockNonNegative'

Loading ==
  /\ \E h \in Hubs, admin \in BOOLEAN, t \in Codes :
       \/ \E o \in Orders, q \in 1 .. MaxQty, to \in Hubs \ {h} : AppendOrderToTrip(h, admin, t, o, q, to)
       \/ \E o \in Orders, q \in 1 .. MaxQty : PickUpOnTheRoad(h, admin, t, o, q)
       \/ \E S \in (SUBSET Orders) \ {{}} : AppendStoredOrdersToTrip(h, admin, t, S)
       \/ \E o \in Orders, to \in Hubs \cup {NoHub} : UpdateTripOrderDestination(h, admin, t, o, to)
  /\ UNCHANGED origins

Rollback == \E t \in Codes, at \in Hubs \cup {NoHub} : RollbackTrip(t, at) /\ UNCHANGED origins

(* A dispatch taken back: the vehicle did not leave, or has returned.       *)
TakeBack ==
  \E t \in Codes, at \in Hubs \cup {NoHub} :
    ReopensDispatch(t, at) /\ RollbackTrip(t, at) /\ UNCHANGED origins

CorrectionsInit == Init /\ origins = {}
InvoiceSpec == CorrectionsInit /\ [][Routine \/ InvoiceCorrection]_everything
OrderlySpec == CorrectionsInit /\ [][Routine \/ CarefulCorrection \/ TakeBack]_everything
RollbackSpec == CorrectionsInit /\ [][Routine \/ Rollback]_everything
LoadingSpec == CorrectionsInit /\ [][Routine \/ Loading]_everything

(* Whatever the handlers accept: invoices corrected without care and        *)
(* dispatches taken back; trips loaded on the road and reopened.            *)
CorrectionSpec == CorrectionsInit /\ [][Daily \/ InvoiceCorrection \/ TakeBack]_everything
ReopeningSpec == CorrectionsInit /\ [][Daily \/ Loading \/ Rollback]_everything

-----------------------------------------------------------------------------
(* Properties. *)

(* An order on the road is on a live line of the trip it names, whatever is *)
(* received, redirected, loaded or taken out of a note meanwhile: the next  *)
(* hub that looks for it finds it on that vehicle.  Only goods picked up on *)
(* the road can lose their vehicle, when a hub leaves them out of its note  *)
(* (warehouse.service.ts:3133 takes out the lines of no hub), and the order *)
(* then names none.                                                         *)
PickedUp(o) == RowsAt(o, Receipt, NoHub) # {}
RidesItsTrip ==
  \A o \in Orders : IsLive(o) /\ order[o].status = "IN_TRANSIT" =>
    IF order[o].trip = NoTrip THEN PickedUp(o) ELSE LiveLine(order[o].trip, o)

(* A line shown on the road has its invoice on that trip, the one it was    *)
(* loaded with or the one of its pick-up: however trips are loaded on the   *)
(* road, redirected and reopened, no vehicle is on the way with packages    *)
(* nobody booked.                                                           *)
RoadIsInvoiced ==
  \A t \in Trips, o \in Orders : line[t][o].status = "IN_TRANSIT" =>
    RowsOn(o, IF line[t][o].hub = NoHub THEN Receipt ELSE Dispatch, t) # {}

(* What the source says of itself, and these handlers do not keep. *)

(* warehouse.service.ts:6929 "Hoàn tác số lượng tồn kho, trạng thái đơn hàng *)
(* và chuyển trip/stop về PENDING" (undo the stock quantities and move trip  *)
(* and stop back to PENDING): a stop reopened has no invoice of its hub left *)
(* on the trip.                                                              *)
ReopenedStopIsUndone ==
  [][\A t \in Trips, h \in Hubs : stop[t][h] = "COMPLETED" /\ stop'[t][h] = "PENDING" =>
       \A o \in Orders, i \in 1 .. MaxInvoices : i \in DOMAIN ledger'[o] =>
         LET r == ledger'[o][i] IN ~(r.live /\ r.trip = t /\ r.hub = h)]_everything
=============================================================================
