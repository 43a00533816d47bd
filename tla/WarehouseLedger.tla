--------------------------- MODULE WarehouseLedger ---------------------------
(***************************************************************************)
(* The daily operations of the hub warehouses (src/orders/warehouse.service *)
(* and the operational ledger it writes): intake of goods, receipt of a     *)
(* vehicle, dispatch of a vehicle, and the drafts of each.                  *)
(*                                                                          *)
(* The same packages are recorded three times: on the order (cached         *)
(* counters), in the invoice ledger (one row per order, hub and trip) and   *)
(* on the trip (allocation lines and one stop per hub).  Every handler      *)
(* updates all three inside one database transaction; here a handler is one *)
(* action.  What happens between the statements of two concurrent handlers  *)
(* is the subject of another module.                                        *)
(***************************************************************************)
EXTENDS PackageSums, Sequences

CONSTANTS
  Orders,        \* order codes; each has at most one row
  Hubs,          \* hub warehouses
  NoHub,         \* a null hub reference
  Destination,   \* contract destination hub of each order, or NoHub
  MaxTrips,      \* bound on the trip codes allocated
  MaxQty,        \* bound on a quantity typed by a user
  MaxTotal,      \* bound on the contract total that drafts add to
  MaxInvoices    \* bound on the ledger rows of an order

ASSUME OrdersAssumption == IsFiniteSet(Orders)
ASSUME HubsAssumption == NoHub \notin Hubs
ASSUME DestinationAssumption == Destination \in [Orders -> Hubs \cup {NoHub}]
ASSUME BoundsAssumption == {MaxTrips, MaxQty, MaxTotal, MaxInvoices} \subseteq Nat

VARIABLES
  order,     \* the order table: contract total, cached counters, status
  ledger,    \* order_inventory_transaction rows of each order, oldest first
  line,      \* trip table: allocation line of an order on a trip code
  stop,      \* trip_stop table: status of a trip at a hub
  lastTrip   \* trip_code_sd_seq: codes SD1 .. SD<lastTrip> exist

vars == <<order, ledger, line, stop, lastTrip>>

Trips == 1 .. MaxTrips
NoTrip == 0
Codes == 1 .. lastTrip

(* Invoice kinds, and which of them carry packages into and out of a hub.   *)
(* An adjustment carries none, but a hub that has one has a ledger.         *)
Receipt == {"INBOUND"}
Dispatch == {"OUTBOUND", "TRANSFER"}
Kinds == Receipt \cup Dispatch \cup {"ADJUSTMENT"}

DraftLike == {"DRAFT", "PENDING", "WAITING"}

(* The statuses past the draft.  The daily handlers write the first two; the *)
(* others come from loading on the road and from corrections.               *)
Stored == {"INBOUND", "COMPLETED_INBOUND", "IN_TRANSIT", "STORED", "PARTIALLY_DELIVERED",
           "COMPLETED_OUTBOUND"}
Unborn == "NONE"

NoOrder == [status |-> Unborn, live |-> FALSE, origin |-> NoHub, trip |-> NoTrip,
            total |-> 0, inb |-> 0, outb |-> 0, rem |-> 0]
NoLine == [status |-> "NONE", kind |-> "INBOUND", hub |-> NoHub, qty |-> 0]
DeletedLine == [NoLine EXCEPT !.status = "DELETED"]

(* Math.max(0, a - b) *)
Monus(a, b) == IF b < a THEN a - b ELSE 0
Maximum(a, b) == IF b < a THEN a ELSE b

-----------------------------------------------------------------------------
(* Queries over the ledger and over trip lines. *)

Rows(o, kinds) == {i \in DOMAIN ledger[o] : ledger[o][i].live /\ ledger[o][i].kind \in kinds}
RowsAt(o, kinds, h) == {i \in Rows(o, kinds) : ledger[o][i].hub = h}
RowsOn(o, kinds, t) == {i \in Rows(o, kinds) : ledger[o][i].trip = t}

Booked(o, kinds) == QtyOf(ledger[o], Rows(o, kinds))
BookedAt(o, kinds, h) == QtyOf(ledger[o], RowsAt(o, kinds, h))
BookedOn(o, kinds, t) == QtyOf(ledger[o], RowsOn(o, kinds, t))

HasLedgerAt(o, h) == RowsAt(o, Kinds, h) # {}
InTransit(o, t) == Monus(BookedOn(o, {"TRANSFER"}, t), BookedOn(o, Receipt, t))

LiveLine(t, o) == line[t][o].status \notin {"NONE", "DELETED"}
LiveLines(t) == {o \in Orders : LiveLine(t, o)}
PendingOut(t, o) == line[t][o].status = "PENDING" /\ line[t][o].kind \in Dispatch

(* Packages planned to leave h on other drafts than `except`. *)
ReservingTrips(o, h, except) == {t \in Trips \ {except} : PendingOut(t, o) /\ line[t][o].hub = h}
Reserved(o, h, except) == QtyOf([t \in Trips |-> line[t][o]], ReservingTrips(o, h, except))

IsDraft(o) == order[o].status \in DraftLike
IsLive(o) == order[o].live
IsUnborn(o) == order[o].status = Unborn

(* What a user types: some orders and a positive quantity for each. *)
Cargo == UNION {[S -> 1 .. MaxQty] : S \in (SUBSET Orders) \ {{}}}

Row(kind, h, t, q) == [kind |-> kind, hub |-> h, trip |-> t, qty |-> q, live |-> TRUE]
Line(status, kind, h, q) == [status |-> status, kind |-> kind, hub |-> h, qty |-> q]

Fits(o) == Len(ledger[o]) < MaxInvoices
Accepts(o, q, draft) == IF draft THEN order[o].total + q <= MaxTotal ELSE Fits(o)

(* Mutant: the upsert overwrites a completed stop. *)
UpsertDowngrading(stops, hubs, status) == [h \in Hubs |-> IF h \in hubs THEN status ELSE stops[h]]

(* upsertTripStop: a completed stop is never downgraded, a deleted one returns. *)
Upsert(stops, hubs, status) ==
  [h \in Hubs |-> IF h \in hubs /\ stops[h] # "COMPLETED" THEN status ELSE stops[h]]
AnyPending(stops) == \E h \in Hubs : stops[h] = "PENDING"

Init ==
  /\ order = [o \in Orders |-> NoOrder]
  /\ ledger = [o \in Orders |-> <<>>]
  /\ line = [t \in Trips |-> [o \in Orders |-> NoLine]]
  /\ stop = [t \in Trips |-> [h \in Hubs |-> "NONE"]]
  /\ lastTrip = 0

-----------------------------------------------------------------------------
(* Order entry and gate intake. *)

NewOrder(h, status, total, stocked) ==
  [NoOrder EXCEPT !.status = status, !.live = TRUE, !.origin = h,
                  !.total = total, !.inb = stocked, !.rem = stocked]

(* OrdersService.create: a contract typed at the office.  It opens with its *)
(* whole quantity counted as inbound, before any hub has seen a package.    *)
CreateOrder(o, h, q) ==
  /\ IsUnborn(o)
  /\ order' = [order EXCEPT ![o] = NewOrder(h, "DRAFT", q, q)]
  /\ UNCHANGED <<ledger, line, stop, lastTrip>>

(* Mutant: goods added to a stored order raise what remains, not what came in. *)
IntakeUncounted(o, h, q, draft) ==
  LET ord == order[o] IN
  IF IsUnborn(o) THEN NewOrder(h, IF draft THEN "DRAFT" ELSE "INBOUND", q, IF draft THEN 0 ELSE q)
  ELSE IF draft THEN [ord EXCEPT !.total = @ + q]
  ELSE IF IsDraft(o) THEN [ord EXCEPT !.total = q, !.inb = q, !.rem = q, !.status = "INBOUND"]
  ELSE [ord EXCEPT !.total = @ + q, !.rem = @ + q, !.status = "INBOUND"]

(* The order record after q packages arrive at the gate of h. *)
Intake(o, h, q, draft) ==
  LET ord == order[o] IN
  IF IsUnborn(o) THEN NewOrder(h, IF draft THEN "DRAFT" ELSE "INBOUND", q, IF draft THEN 0 ELSE q)
  ELSE IF draft THEN [ord EXCEPT !.total = @ + q]
  ELSE IF IsDraft(o) THEN [ord EXCEPT !.total = q, !.inb = q, !.rem = q, !.status = "INBOUND"]
  ELSE [ord EXCEPT !.total = @ + q, !.inb = @ + q, !.rem = @ + q, !.status = "INBOUND"]

(* A customer hands goods in without a vehicle: no trip, no stop. *)
QuickCreateInbound(o, h, q, draft) ==
  /\ IsUnborn(o) \/ IsLive(o)
  /\ Accepts(o, q, draft)
  /\ order' = [order EXCEPT ![o] = Intake(o, h, q, draft)]
  /\ ledger' = IF draft THEN ledger
               ELSE [ledger EXCEPT ![o] = Append(@, Row("INBOUND", h, NoTrip, q))]
  /\ UNCHANGED <<line, stop, lastTrip>>

(* A vehicle at the gate: every item on one fresh trip code.  One item may  *)
(* be a draft while its neighbour is not; the stop stays pending only when  *)
(* all of them are.                                                         *)
BatchCreateInbound(h, got, drafts) ==
  LET S == DOMAIN got
      t == lastTrip + 1
      stocked == S \ drafts
  IN
  /\ lastTrip < MaxTrips
  /\ drafts \subseteq S
  /\ \A o \in S : IsUnborn(o) \/ IsLive(o)
  /\ \A o \in S : Accepts(o, got[o], o \in drafts)
  /\ lastTrip' = t
  /\ order' = [o \in Orders |-> IF o \in S THEN Intake(o, h, got[o], o \in drafts) ELSE order[o]]
  /\ ledger' = [o \in Orders |-> IF o \in stocked
                                 THEN Append(ledger[o], Row("INBOUND", h, t, got[o]))
                                 ELSE ledger[o]]
  /\ line' = [line EXCEPT ![t] = [o \in Orders |->
                IF o \in S THEN Line(IF o \in drafts THEN "PENDING" ELSE "COMPLETED", "INBOUND", h, got[o])
                ELSE @[o]]]
  /\ stop' = [stop EXCEPT ![t] = Upsert(@, {h}, IF stocked = {} THEN "PENDING" ELSE "COMPLETED")]

-----------------------------------------------------------------------------
(* Receiving a vehicle: confirmInbound. *)

MayEditStop(t, h, admin) == t # NoTrip /\ stop[t][h] = "COMPLETED" => admin

Own(o, h, admin) == order[o].origin \in {NoHub, h} \/ admin
EditableDraft(o, h, admin) == IsDraft(o) /\ Own(o, h, admin)
Locked(o, h, admin) == IsLive(o) /\ ~EditableDraft(o, h, admin)

(* The trip a receipt row is booked on: the one in the request, else, for a *)
(* locked contract, the one the order is riding.                            *)
TripOf(o, h, admin, t) == IF t = NoTrip /\ Locked(o, h, admin) THEN order[o].trip ELSE t

(* The live receipt of o on trip t at hub h already in the ledger, if any. *)
ReceiptsOf(o, t, h) == IF t = NoTrip THEN {} ELSE RowsAt(o, Receipt, h) \cap RowsOn(o, Receipt, t)
ResubmittedAgain(o, t, h) == FALSE   \* mutant: a second submission is not recognised
Duplicate(o, t, h) == ReceiptsOf(o, t, h) # {}
TheReceipt(o, t, h) == CHOOSE i \in ReceiptsOf(o, t, h) : TRUE

(* A draft of this hub becomes stock with whatever quantity was typed. *)
ReceiveDraft(o, h, q) ==
  [order[o] EXCEPT !.status = "INBOUND", !.total = q, !.inb = q, !.rem = q, !.outb = 0,
                   !.trip = NoTrip, !.origin = IF @ = NoHub THEN h ELSE @]

(* Mutants: the total is not raised; what was dispatched is not subtracted. *)
ReceiveFlatTotal(o, t, q) ==
  LET inb == order[o].inb + q
  IN [order[o] EXCEPT !.status = "INBOUND", !.inb = inb, !.rem = Monus(inb, order[o].outb)]
ReceiveGross(o, t, q) ==
  LET inb == order[o].inb + q
  IN [order[o] EXCEPT !.status = "INBOUND", !.inb = inb, !.total = Maximum(@, inb), !.rem = inb]

(* A locked contract only grows its counters. *)
ReceiveLocked(o, t, q) ==
  LET ord == order[o]
      inb == ord.inb + q
      unloaded == BookedOn(o, {"TRANSFER"}, t) = 0 \/ InTransit(o, t) <= q
  IN [ord EXCEPT !.status = "INBOUND", !.inb = inb, !.total = Maximum(@, inb),
                 !.rem = Monus(inb, ord.outb),
                 !.trip = IF t # NoTrip /\ @ = t /\ unloaded THEN NoTrip ELSE @]

(* A second receipt for the same trip and hub: an administrator corrects    *)
(* the first one, anybody else changes nothing.                             *)
CorrectReceipt(o, old, q) ==
  LET inb == Monus(order[o].inb + q, old)
  IN IF q = old THEN order[o]
     ELSE [order[o] EXCEPT !.inb = inb, !.total = Maximum(@, inb), !.rem = Monus(inb, order[o].outb)]

ReceivedOrder(o, h, admin, t, q) ==
  LET c == TripOf(o, h, admin, t) IN
  IF IsUnborn(o) THEN NewOrder(h, "INBOUND", q, q)
  ELSE IF EditableDraft(o, h, admin) THEN ReceiveDraft(o, h, q)
  ELSE IF ~Duplicate(o, c, h) THEN ReceiveLocked(o, c, q)
  ELSE IF admin THEN CorrectReceipt(o, ledger[o][TheReceipt(o, c, h)].qty, q)
  ELSE order[o]

(* Rows of the request whose loop iteration ends early: no line, no invoice. *)
Skipped(o, h, admin, t) == Locked(o, h, admin) /\ Duplicate(o, TripOf(o, h, admin, t), h)

ReceivedLedger(o, h, admin, t, q) ==
  LET c == TripOf(o, h, admin, t) IN
  IF ~Skipped(o, h, admin, t) THEN Append(ledger[o], Row("INBOUND", h, c, q))
  ELSE IF admin THEN [ledger[o] EXCEPT ![TheReceipt(o, c, h)].qty = q]
  ELSE ledger[o]

(* The allocation line of a received order on its trip. *)
ReceivedLine(c, o, h, admin, t, q, keep) ==
  IF Skipped(o, h, admin, t)
  THEN IF admin /\ LiveLine(c, o) THEN [line[c][o] EXCEPT !.qty = q] ELSE line[c][o]
  ELSE IF LiveLine(c, o)
       THEN [line[c][o] EXCEPT !.qty = q, !.status = IF keep THEN @ ELSE "COMPLETED"]
       ELSE Line(IF keep THEN "PENDING" ELSE "COMPLETED", "INBOUND", h, q)

(* Mutant: lines loaded at the hub are taken out too. *)
RemovedOfAnyKind(t, h, S, keep) ==
  IF t = NoTrip \/ keep THEN {} ELSE {o \in LiveLines(t) \ S : line[t][o].hub \in {NoHub, h}}

(* Lines of the trip the user took out of the note before submitting it:    *)
(* those of this hub, and those picked up at none.                          *)
Removed(t, h, S, keep) ==
  IF t = NoTrip \/ keep THEN {}
  ELSE {o \in LiveLines(t) \ S : line[t][o].kind = "INBOUND" /\ line[t][o].hub \in {NoHub, h}}

(* A draft with neither another line nor a receipt came into being with the *)
(* vehicle and had no goods: it goes.                                       *)
Orphan(o, t) ==
  /\ IsLive(o) /\ IsDraft(o)
  /\ \A u \in Trips \ {t} : ~LiveLine(u, o)
  /\ Rows(o, Receipt) = {}

RemovedOrder(o, t) ==
  IF Orphan(o, t) THEN [order[o] EXCEPT !.live = FALSE]
  ELSE IF IsLive(o) /\ order[o].trip = t THEN [order[o] EXCEPT !.trip = NoTrip]
  ELSE order[o]

(* The stops of a processed trip, and the sweep that completes its lines    *)
(* once no stop is pending.                                                 *)
ReceivedStops(c, h, keep) == Upsert(stop[c], {h}, IF keep THEN "PENDING" ELSE "COMPLETED")
Sweep(l, done) == IF done /\ l.status \notin {"NONE", "DELETED"} THEN [l EXCEPT !.status = "COMPLETED"] ELSE l

ConfirmInbound(h, admin, t, got, keep) ==
  LET S == DOMAIN got
      gone == Removed(t, h, S, keep)
      on(c) == {o \in S : TripOf(o, h, admin, t) = c}
      processed == {c \in Trips : on(c) # {}}
  IN
  /\ MayEditStop(t, h, admin)
  /\ \A o \in S : IsUnborn(o) \/ IsLive(o)
  /\ \A o \in S : Skipped(o, h, admin, t) \/ Fits(o)
  /\ order' = [o \in Orders |-> IF o \in S THEN ReceivedOrder(o, h, admin, t, got[o])
                                ELSE IF o \in gone THEN RemovedOrder(o, t) ELSE order[o]]
  /\ ledger' = [o \in Orders |-> IF o \in S THEN ReceivedLedger(o, h, admin, t, got[o]) ELSE ledger[o]]
  /\ stop' = [c \in Trips |-> IF c \in processed THEN ReceivedStops(c, h, keep) ELSE stop[c]]
  /\ line' = [c \in Trips |-> [o \in Orders |->
                LET l == IF o \in on(c) THEN ReceivedLine(c, o, h, admin, t, got[o], keep)
                         ELSE IF c = t /\ o \in gone THEN DeletedLine ELSE line[c][o]
                IN Sweep(l, c \in processed /\ ~keep /\ ~AnyPending(ReceivedStops(c, h, keep)))]]
  /\ UNCHANGED lastTrip

(* targetStatus KEEP: the receiving note is saved, nothing is received. *)
DraftedOrder(o, h, admin, q) ==
  IF IsUnborn(o) THEN NewOrder(h, "DRAFT", q, q)
  ELSE IF IsDraft(o) THEN [order[o] EXCEPT !.total = q, !.origin = IF @ = NoHub THEN h ELSE @]
  ELSE IF Own(o, h, admin)
       THEN [order[o] EXCEPT !.total = q, !.inb = q, !.rem = Monus(q, order[o].outb),
                             !.origin = IF @ = NoHub THEN h ELSE @]
  ELSE order[o]

SaveInboundDraft(h, admin, t, got) ==
  LET S == DOMAIN got
      gone == Removed(t, h, S, FALSE)
  IN
  /\ MayEditStop(t, h, admin)
  /\ \A o \in S : IsUnborn(o) \/ IsLive(o)
  /\ order' = [o \in Orders |-> IF o \in S THEN DraftedOrder(o, h, admin, got[o])
                                ELSE IF o \in gone THEN RemovedOrder(o, t) ELSE order[o]]
  /\ line' = [line EXCEPT ![t] = [o \in Orders |->
                IF o \in gone THEN DeletedLine
                ELSE IF o \notin S THEN @[o]
                ELSE IF LiveLine(t, o) THEN [@[o] EXCEPT !.qty = got[o]]
                ELSE Line("PENDING", "INBOUND", h, got[o])]]
  /\ stop' = [stop EXCEPT ![t] = Upsert(@, {h}, "PENDING")]
  /\ UNCHANGED <<ledger, lastTrip>>

-----------------------------------------------------------------------------
(* Dispatching a vehicle: confirmOutbound and its drafts. *)

(* discardOutboundDraftLines: what makes trip t an outbound draft of hub h; *)
(* for a user without a hub, h = NoHub, one of any hub will do.             *)
OutboundDraft(t, h) ==
  /\ LiveLines(t) # {}
  /\ \A o \in LiveLines(t) : PendingOut(t, o) /\ h \in {NoHub, line[t][o].hub}
  /\ \A o \in Orders : RowsOn(o, Dispatch, t) = {}

(* Stock the handler grants: the hub's ledger, or the order's own remaining *)
(* counter when the hub has no ledger row of the order.                     *)
StockIn(o, h) == IF HasLedgerAt(o, h) THEN BookedAt(o, Receipt, h) ELSE order[o].rem
StockOut(o, h) == IF HasLedgerAt(o, h) THEN BookedAt(o, Dispatch, h) ELSE 0
(* Mutant: plans not subtracted. *)
AvailableUnreserved(o, h, draft) == Monus(StockIn(o, h), StockOut(o, h))
Available(o, h, draft) == Monus(StockIn(o, h), StockOut(o, h) + Reserved(o, h, draft))

OutKind(to) == IF to = NoHub THEN "OUTBOUND" ELSE "TRANSFER"

(* Where a dispatch writes: a fresh code, or the code of the saved draft. *)
TripFor(draft) == IF draft = NoTrip THEN lastTrip + 1 ELSE draft

(* Mutant: the lines stay plans. *)
PlannedForever(t, h, load, to, status) ==
  [o \in Orders |-> IF o \in DOMAIN load THEN Line("PENDING", OutKind(to), h, load[o])
                    ELSE IF LiveLine(t, o) THEN DeletedLine ELSE line[t][o]]

(* Lines of trip t once the old planned ones are dropped. *)
Planned(t, h, load, to, status) ==
  [o \in Orders |-> IF o \in DOMAIN load THEN Line(status, OutKind(to), h, load[o])
                    ELSE IF LiveLine(t, o) THEN DeletedLine ELSE line[t][o]]

(* Mutant: the trip is not recorded, the status is one nobody writes.    *)
DispatchedOut(o, t, q, to) ==
  [order[o] EXCEPT !.outb = @ + q, !.rem = Monus(@, q), !.status = "DELIVERED"]

DispatchedOrder(o, t, q, to) ==
  LET rem == Monus(order[o].rem, q)
  IN [order[o] EXCEPT !.outb = @ + q, !.rem = rem,
                      !.status = IF rem = 0 THEN "COMPLETED_INBOUND" ELSE "INBOUND",
                      !.trip = IF to = NoHub THEN @ ELSE t]

(* Receiving stops: the hub chosen for the trip and every contract destination. *)
Targets(S, h, to) ==
  IF to = NoHub THEN {} ELSE (({to} \cup {Destination[o] : o \in S}) \ {h, NoHub})

ConfirmOutbound(h, load, to, draft) ==
  LET S == DOMAIN load
      t == TripFor(draft)
  IN
  /\ t <= MaxTrips
  /\ draft # NoTrip => OutboundDraft(draft, h)
  /\ \A o \in S : IsLive(o) /\ ~IsDraft(o) /\ Fits(o)
  /\ \A o \in S : load[o] <= Available(o, h, draft)
  /\ lastTrip' = IF draft = NoTrip THEN t ELSE lastTrip
  /\ order' = [o \in Orders |-> IF o \in S THEN DispatchedOrder(o, t, load[o], to) ELSE order[o]]
  /\ ledger' = [o \in Orders |-> IF o \in S THEN Append(ledger[o], Row(OutKind(to), h, t, load[o]))
                                 ELSE ledger[o]]
  /\ line' = [line EXCEPT ![t] = Planned(t, h, load, to, "IN_TRANSIT")]
  /\ stop' = [stop EXCEPT ![t] = Upsert(Upsert(@, {h}, "COMPLETED"), Targets(S, h, to), "PENDING")]

(* A draft order is granted its remaining counter: no hub holds it yet. *)
DraftAvailable(o, h, draft) ==
  IF IsDraft(o) THEN Monus(order[o].rem, Reserved(o, h, draft)) ELSE Available(o, h, draft)

SaveOutboundDraft(h, load, to, draft) ==
  LET S == DOMAIN load
      t == TripFor(draft)
  IN
  /\ t <= MaxTrips
  /\ draft # NoTrip => OutboundDraft(draft, h)
  /\ \A o \in S : IsLive(o) /\ load[o] <= DraftAvailable(o, h, draft)
  /\ lastTrip' = IF draft = NoTrip THEN t ELSE lastTrip
  /\ line' = [line EXCEPT ![t] = Planned(t, h, load, to, "PENDING")]
  /\ stop' = [stop EXCEPT ![t] = Upsert(@, {h} \cup ({to} \ {NoHub}), "PENDING")]
  /\ UNCHANGED <<order, ledger>>

(* A SUPER_ADMIN without a hub dispatches each order from the hub that keeps *)
(* it, at[o]: order.currentHubId, which this module leaves out, or its      *)
(* origin.  Only the hub of the first order gets the trip's origin stop.    *)
PlannedFrom(t, at, load, to, status) ==
  [o \in Orders |-> IF o \in DOMAIN load THEN Line(status, OutKind(to), at[o], load[o])
                    ELSE IF LiveLine(t, o) THEN DeletedLine ELSE line[t][o]]

AdminConfirmOutbound(at, first, load, to, draft) ==
  LET S == DOMAIN load
      t == TripFor(draft)
  IN
  /\ t <= MaxTrips
  /\ draft # NoTrip => OutboundDraft(draft, NoHub)
  /\ \A o \in S : IsLive(o) /\ ~IsDraft(o) /\ Fits(o)
  /\ \A o \in S : load[o] <= Available(o, at[o], draft)
  /\ lastTrip' = IF draft = NoTrip THEN t ELSE lastTrip
  /\ order' = [o \in Orders |-> IF o \in S THEN DispatchedOrder(o, t, load[o], to) ELSE order[o]]
  /\ ledger' = [o \in Orders |-> IF o \in S THEN Append(ledger[o], Row(OutKind(to), at[o], t, load[o]))
                                 ELSE ledger[o]]
  /\ line' = [line EXCEPT ![t] = PlannedFrom(t, at, load, to, "IN_TRANSIT")]
  /\ stop' = [stop EXCEPT ![t] =
                Upsert(Upsert(@, {at[first]}, "COMPLETED"), Targets(S, at[first], to), "PENDING")]

AdminSaveOutboundDraft(at, first, load, to, draft) ==
  LET t == TripFor(draft) IN
  /\ t <= MaxTrips
  /\ draft # NoTrip => OutboundDraft(draft, NoHub)
  /\ \A o \in DOMAIN load : IsLive(o) /\ load[o] <= DraftAvailable(o, at[o], draft)
  /\ lastTrip' = IF draft = NoTrip THEN t ELSE lastTrip
  /\ line' = [line EXCEPT ![t] = PlannedFrom(t, at, load, to, "PENDING")]
  /\ stop' = [stop EXCEPT ![t] = Upsert(@, {at[first]} \cup ({to} \ {NoHub}), "PENDING")]
  /\ UNCHANGED <<order, ledger>>

DropAny(stops, hubs) == [h \in Hubs |-> IF h \in hubs THEN "DELETED" ELSE stops[h]]   \* mutant

DropPending(stops, hubs) ==
  [h \in Hubs |-> IF h \in hubs /\ stops[h] = "PENDING" THEN "DELETED" ELSE stops[h]]

CancelOutboundDraft(h, t) ==
  /\ OutboundDraft(t, h)
  /\ line' = [line EXCEPT ![t] = [o \in Orders |-> IF LiveLine(t, o) THEN DeletedLine ELSE @[o]]]
  /\ stop' = [stop EXCEPT ![t] = DropPending(@, Hubs)]
  /\ UNCHANGED <<order, ledger, lastTrip>>

-----------------------------------------------------------------------------
(* Cancelling an inbound draft, and the transit step. *)

(* The pending packages of o once the pending lines of trip t are gone. *)
StillPending(o, t) ==
  QtyOf([u \in Trips |-> line[u][o]], {u \in Trips \ {t} : line[u][o].status = "PENDING"})

(* Mutant: transfers are forgotten when the counters are rebuilt. *)
ReconciledWithoutTransfers(o, t) ==
  IF ~IsLive(o) \/ Rows(o, Kinds) = {} THEN order[o]
  ELSE [order[o] EXCEPT !.inb = Booked(o, Receipt), !.outb = Booked(o, {"OUTBOUND"})]

(* reconcileOrderQuantities: counters rebuilt from the ledger. *)
Reconciled(o, t) ==
  LET inb == Booked(o, Receipt)
      outb == Booked(o, Dispatch)
      rem == Monus(inb, outb)
  IN IF ~IsLive(o) \/ Rows(o, Kinds) = {} THEN order[o]
     ELSE [order[o] EXCEPT !.inb = inb, !.outb = outb, !.rem = rem,
             !.total = inb + StillPending(o, t),
             !.status = IF rem = 0 /\ outb > 0 THEN "COMPLETED_INBOUND"
                        ELSE IF inb > 0 THEN "INBOUND" ELSE @]

(* Mutant: orders already in stock are deleted with the trip. *)
CancelledAll(o, t) == IF line[t][o].status = "PENDING" THEN [order[o] EXCEPT !.live = FALSE] ELSE order[o]

(* Every draft order that ever had a line on the trip goes; the stored      *)
(* orders with a pending line on it are reconciled.                         *)
CancelledOrder(o, t) ==
  LET draft == order[o].status \in {"DRAFT", "PENDING"} IN
  IF draft /\ line[t][o].status # "NONE" THEN [order[o] EXCEPT !.live = FALSE]
  ELSE IF ~draft /\ line[t][o].status = "PENDING" THEN Reconciled(o, t)
  ELSE order[o]

CancelInboundDraft(h, t) ==
  /\ stop[t][h] = "PENDING" \/ \E o \in Orders : line[t][o].status = "PENDING"
  /\ order' = [o \in Orders |-> CancelledOrder(o, t)]
  /\ line' = [line EXCEPT ![t] = [o \in Orders |-> IF @[o].status = "PENDING" THEN DeletedLine ELSE @[o]]]
  /\ stop' = [stop EXCEPT ![t] = DropPending(@, {h})]
  /\ UNCHANGED <<ledger, lastTrip>>

(* A vehicle passes a hub.  A soft-deleted stop row still occupies the      *)
(* unique key, so the insert fails and nothing changes.                     *)
UpdateTransitStep(h, t) ==
  /\ stop[t][h] \in {"NONE", "PENDING"}
  /\ \A o \in LiveLines(t) : IsLive(o) => ~IsDraft(o)
  /\ stop' = [stop EXCEPT ![t][h] = "COMPLETED"]
  /\ UNCHANGED <<order, ledger, line, lastTrip>>

-----------------------------------------------------------------------------
(* What an administrator without a hub dispatches or plans to. *)
AdminOutbound(at, first, load, to, draft) ==
  /\ to # at[first]
  /\ AdminConfirmOutbound(at, first, load, to, draft) \/ AdminSaveOutboundDraft(at, first, load, to, draft)

(* Everything the handlers accept, of users who dispatch from their own hub. *)
HubNext ==
  \/ \E o \in Orders, h \in Hubs \cup {NoHub}, q \in 1 .. MaxQty : CreateOrder(o, h, q)
  \/ \E o \in Orders, h \in Hubs, q \in 1 .. MaxQty, d \in BOOLEAN : QuickCreateInbound(o, h, q, d)
  \/ \E h \in Hubs, got \in Cargo, drafts \in SUBSET Orders : BatchCreateInbound(h, got, drafts)
  \/ \E h \in Hubs, admin \in BOOLEAN, t \in Codes \cup {NoTrip}, got \in Cargo, keep \in BOOLEAN :
       ConfirmInbound(h, admin, t, got, keep)
  \/ \E h \in Hubs, admin \in BOOLEAN, t \in Codes, got \in Cargo : SaveInboundDraft(h, admin, t, got)
  \/ \E h \in Hubs, load \in Cargo, to \in Hubs \cup {NoHub}, d \in Codes \cup {NoTrip} :
       to # h /\ ConfirmOutbound(h, load, to, d)
  \/ \E h \in Hubs, load \in Cargo, to \in Hubs \cup {NoHub}, d \in Codes \cup {NoTrip} :
       to # h /\ SaveOutboundDraft(h, load, to, d)
  \/ \E h \in Hubs \cup {NoHub}, t \in Codes : CancelOutboundDraft(h, t)
  \/ \E h \in Hubs, t \in Codes : CancelInboundDraft(h, t)
  \/ \E h \in Hubs, t \in Codes : UpdateTransitStep(h, t)

(* Everything the handlers accept. *)
Next ==
  \/ HubNext
  \/ \E load \in Cargo, to \in Hubs \cup {NoHub}, d \in Codes \cup {NoTrip} :
       \E at \in [DOMAIN load -> Hubs], first \in DOMAIN load : AdminOutbound(at, first, load, to, d)

Spec == Init /\ [][Next]_vars

(* Routine use by hub staff: no administrator corrections; a draft whose    *)
(* contract was typed at the office is received by its own hub; a trip is   *)
(* received only once it has left; a note is saved back only on orders not  *)
(* yet in stock; a hub dispatches only what it has ledger rows for.  The    *)
(* README says what goes wrong without each of these.                       *)
OwnDrafts(h, got) ==
  \A o \in DOMAIN got : IsLive(o) /\ IsDraft(o) => Own(o, h, FALSE) \/ order[o].inb = 0
NotYetStored(h, got) == \A o \in DOMAIN got : IsLive(o) /\ ~IsDraft(o) => ~Own(o, h, FALSE)
Arrived(t, got) == t # NoTrip => \A o \in DOMAIN got : ~PendingOut(t, o)
Holds(h, load) == \A o \in DOMAIN load : ~IsDraft(o) /\ HasLedgerAt(o, h)

RoutineNext ==
  \/ \E o \in Orders, h \in Hubs \cup {NoHub}, q \in 1 .. MaxQty : CreateOrder(o, h, q)
  \/ \E o \in Orders, h \in Hubs, q \in 1 .. MaxQty, d \in BOOLEAN : QuickCreateInbound(o, h, q, d)
  \/ \E h \in Hubs, got \in Cargo, drafts \in SUBSET Orders : BatchCreateInbound(h, got, drafts)
  \/ \E h \in Hubs, t \in Codes \cup {NoTrip}, got \in Cargo, keep \in BOOLEAN :
       OwnDrafts(h, got) /\ Arrived(t, got) /\ ConfirmInbound(h, FALSE, t, got, keep)
  \/ \E h \in Hubs, t \in Codes, got \in Cargo :
       NotYetStored(h, got) /\ Arrived(t, got) /\ SaveInboundDraft(h, FALSE, t, got)
  \/ \E h \in Hubs, load \in Cargo, to \in Hubs \cup {NoHub}, d \in Codes \cup {NoTrip} :
       to # h /\ Holds(h, load) /\ ConfirmOutbound(h, load, to, d)
  \/ \E h \in Hubs, load \in Cargo, to \in Hubs \cup {NoHub}, d \in Codes \cup {NoTrip} :
       to # h /\ Holds(h, load) /\ SaveOutboundDraft(h, load, to, d)
  \/ \E h \in Hubs, t \in Codes : CancelOutboundDraft(h, t)
  \/ \E h \in Hubs, t \in Codes : CancelInboundDraft(h, t)
  \/ \E h \in Hubs, t \in Codes : UpdateTransitStep(h, t)

RoutineSpec == Init /\ [][RoutineNext]_vars

-----------------------------------------------------------------------------
(* Properties. *)

OrderRecord ==
  [status : {Unborn} \cup DraftLike \cup Stored, live : BOOLEAN, origin : Hubs \cup {NoHub},
   trip : Nat, total : Nat, inb : Nat, outb : Nat, rem : Nat]
RowRecord == [kind : Kinds, hub : Hubs, trip : Nat, qty : Nat, live : BOOLEAN]
LineRecord ==
  [status : {"NONE", "DELETED", "PENDING", "IN_TRANSIT", "COMPLETED"}, kind : Kinds,
   hub : Hubs \cup {NoHub}, qty : Nat]

(* The tables hold what their column types allow. *)
TypeOK ==
  /\ order \in [Orders -> OrderRecord]
  /\ ledger \in [Orders -> Seq(RowRecord)]
  /\ line \in [Trips -> [Orders -> LineRecord]]
  /\ stop \in [Trips -> [Hubs -> {"NONE", "DELETED", "PENDING", "COMPLETED"}]]
  /\ lastTrip \in 0 .. MaxTrips

(* The cached counters of a stored order are the sums of its ledger rows,   *)
(* and a draft has neither rows nor dispatched packages, whichever order    *)
(* the handlers of the two hubs run in (operational-ledger: the invoice     *)
(* ledger is the source of truth, the counters are a cache).                *)
CountersMatchLedger ==
  \A o \in Orders : IsLive(o) =>
    IF IsDraft(o) THEN Rows(o, Kinds) = {} /\ order[o].outb = 0
    ELSE order[o].inb = Booked(o, Receipt) /\ order[o].outb = Booked(o, Dispatch)

(* What the order still shows as remaining is exactly what is left in all   *)
(* hubs together: the Math.max(0, ..) of the handlers never hides a loss.   *)
RemainingIsStock ==
  \A o \in Orders : IsLive(o) /\ ~IsDraft(o) => order[o].rem + Booked(o, Dispatch) = Booked(o, Receipt)

(* No hub ships packages it never received. *)
HubStockNonNegative ==
  \A o \in Orders, h \in Hubs : BookedAt(o, Dispatch, h) <= BookedAt(o, Receipt, h)

(* The outbound drafts of a hub never plan more than the hub holds, however *)
(* drafts and dispatches of the same order interleave: every saved draft    *)
(* can be confirmed.                                                        *)
StockCoversReservations ==
  \A o \in Orders, h \in Hubs :
    BookedAt(o, Dispatch, h) + Reserved(o, h, NoTrip) <= BookedAt(o, Receipt, h)

(* The contract total is never below what has been received: every handler  *)
(* that raises inboundQuantity raises totalQuantity with it.                *)
TotalCoversInbound ==
  \A o \in Orders : IsLive(o) /\ ~IsDraft(o) => order[o].inb <= order[o].total

(* A vehicle is received at most once per order and hub, however often      *)
(* confirmInbound is submitted, by whom, and whatever was drafted, corrected *)
(* or dispatched in between.                                                *)
OneReceiptPerStop ==
  \A o \in Orders, t \in Trips, h \in Hubs : Cardinality(ReceiptsOf(o, t, h)) <= 1

(* Once a trip has a dispatch invoice none of its lines is still a plan, so *)
(* no package is both shipped and reserved on it.                           *)
DispatchLeavesDraft ==
  \A t \in Trips : (\E o \in Orders : RowsOn(o, Dispatch, t) # {}) => \A o \in Orders : ~PendingOut(t, o)

(* A line on the road has its invoice, and the hub its trip set out from is *)
(* closed to everybody but an administrator: the line's own hub, unless an  *)
(* administrator dispatched orders of several hubs on one trip, whose only  *)
(* origin stop is then that of another line.                                *)
LeftFrom(t, p) ==
  /\ LiveLine(t, p) /\ line[t][p].kind \in Dispatch
  /\ stop[t][line[t][p].hub] = "COMPLETED"
InTransitIsInvoiced ==
  \A t \in Trips, o \in Orders : line[t][o].status = "IN_TRANSIT" =>
    /\ RowsOn(o, Dispatch, t) # {}
    /\ \E p \in Orders : LeftFrom(t, p)

(* Only an order that never moved a package is ever removed. *)
DeletedOrderHasNoStock ==
  \A o \in Orders : ~IsLive(o) => Rows(o, Kinds) = {}

(* A processed stop stays processed: nothing short of a rollback reopens it. *)
CompletedStopSticks ==
  [][\A t \in Trips, h \in Hubs : stop[t][h] = "COMPLETED" => stop'[t][h] = "COMPLETED"]_vars

(* What the source says of itself, and the handlers do not keep. *)

(* warehouse.service.ts:4342 "[soft-delete the DRAFT/PENDING orders] that   *)
(* belong entirely to this trip": an order removed leaves no live line.     *)
DeletedOrderHasNoLine ==
  \A o \in Orders, t \in Trips : LiveLine(t, o) => IsLive(o)

(* warehouse.service.ts:3615 "Trips with draft orders can only stay PENDING". *)
DraftTripStaysPending ==
  \A t \in Trips, o \in Orders, h \in Hubs :
    LiveLine(t, o) /\ line[t][o].hub = h /\ IsLive(o) /\ IsDraft(o) => stop[t][h] # "COMPLETED"

(* warehouse.service.ts:3853 "Trip stops: origin [processed]; every         *)
(* receiving hub on the route [pending]": a vehicle on the road to another  *)
(* hub has a stop there.                                                    *)
ShippedTripHasStop ==
  \A o \in Orders, t \in Trips :
    line[t][o].status = "IN_TRANSIT" /\ line[t][o].kind = "TRANSFER" =>
      \E h \in Hubs \ {line[t][o].hub} : stop[t][h] \in {"PENDING", "COMPLETED"}

(* warehouse.service.ts:2742 "Locked contract: record an Inbound Receipt,   *)
(* never touch contract fields": a vehicle that delivers what it loaded     *)
(* leaves the contract total alone.                                         *)
TransferKeepsContract ==
  [][\A o \in Orders, t \in Trips, h \in Hubs :
       /\ InTransit(o, t) > 0 /\ line[t][o].hub # h
       /\ ledger'[o] = Append(ledger[o], Row("INBOUND", h, t, InTransit(o, t)))
       => order'[o].total = order[o].total]_vars

-----------------------------------------------------------------------------
(* The promise made to the hubs: see HubStock. *)
StockAt == [o \in Orders |-> [h \in Hubs |-> BookedAt(o, Receipt, h) - BookedAt(o, Dispatch, h)]]
PlannedAt == [o \in Orders |-> [h \in Hubs |-> Reserved(o, h, NoTrip)]]
Promise == INSTANCE HubStock WITH stock <- StockAt, planned <- PlannedAt

(* Routine operations implement the stock promise: in one step packages     *)
(* enter or leave one hub, no more leave than the hub holds, and every plan *)
(* of every hub stays covered.                                              *)
ImplementsHubStock == Promise!Spec
=============================================================================
