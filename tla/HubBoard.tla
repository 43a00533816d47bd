------------------------------ MODULE HubBoard ------------------------------
(***************************************************************************)
(* What the warehouse screens show a hub manager                            *)
(* (src/orders/warehouse.service: getOrders, getKpiStats, getOutboundTrips, *)
(* getInboundTrips, getTripManifest, getAvailableOutboundOrders,            *)
(* getInboundReceiptData): each screen derives its rows and quantities from *)
(* the tables of WarehouseLedger by a query of its own.  The tables change  *)
(* by the daily handlers; the properties say whether the screens tell the   *)
(* truth about them and agree with each other and with the handlers.        *)
(***************************************************************************)
EXTENDS WarehouseCorrections

VARIABLE held   \* order.currentHubId: the hub said to hold the order

board == <<order, ledger, line, stop, lastTrip, origins, held>>

WaitingStatuses == DraftLike \cup {"PENDING_INBOUND"}
StoredStatuses == {"INBOUND", "STORED"}
DispatchedStatuses == {"COMPLETED_INBOUND", "COMPLETED_OUTBOUND"}

-----------------------------------------------------------------------------
(* The status of an order as one hub sees it: hubStatusSql, hubScopeSql. *)

HubStock(o, h) == BookedAt(o, Receipt, h) - BookedAt(o, Dispatch, h)
HubDispatched(o, h) == RowsAt(o, Dispatch, h) # {}

HeldAt(o) == IF held[o] = NoHub THEN order[o].origin ELSE held[o]
LocalDraft(o, h) == IsDraft(o) /\ HeldAt(o) = h

(* Mutant: only the contract's destination expects the vehicle. *)
ExpectedAtDestination(o, h) ==
  order[o].trip # NoTrip /\ stop[order[o].trip][h] = "PENDING" /\ Destination[o] = h

(* The order rides a trip that stops here and at no better destination. *)
PendingInbound(o, h) ==
  LET t == order[o].trip
      d == Destination[o]
  IN t # NoTrip /\ stop[t][h] = "PENDING" /\ (d \in {h, NoHub} \/ ~StopIsLive(t, d))

HubStatus(o, h) ==
  IF LocalDraft(o, h) THEN "DRAFT"
  ELSE IF HubStock(o, h) > 0 THEN "INBOUND"
  ELSE IF PendingInbound(o, h) THEN "PENDING_INBOUND"
  ELSE IF \/ HubDispatched(o, h)
          \/ order[o].rem = 0 \/ order[o].total <= order[o].outb
          \/ order[o].status \in StoredStatuses
       THEN "COMPLETED_INBOUND"
  ELSE order[o].status

(* Mutant: orders a hub has invoices of are out of its sight. *)
InContractScope(o, h) == h \in {order[o].origin, Destination[o], held[o]}

InScope(o, h) ==
  \/ h \in {order[o].origin, Destination[o], held[o]}
  \/ HasLedgerAt(o, h)
  \/ order[o].trip # NoTrip /\ StopIsLive(order[o].trip, h)

-----------------------------------------------------------------------------
(* The order list and its tabs: getOrders, getKpiStats. *)

Listed(h) == {o \in Orders : IsLive(o) /\ InScope(o, h)}
InTab(h, statuses) == {o \in Listed(h) : HubStatus(o, h) \in statuses}

StoredTab(h) == {o \in InTab(h, StoredStatuses) : HubStock(o, h) > 0}
KpiStored(h) == Cardinality(InTab(h, StoredStatuses))

(* flow OUTBOUND_LOOKUP: the orders a manager may put on an outbound note. *)
Lookup(h) == InTab(h, StoredStatuses \cup DraftLike)

(* computeHubView: stock less what the hub's saved notes already plan. *)
Effective(o, h) == Monus(HubStock(o, h), Reserved(o, h, NoTrip))

(* The row grouped by code: its total covers what came in and what is here. *)
GroupTotal(o, h) == Maximum(order[o].total, Maximum(order[o].inb, HubStock(o, h)))
GroupRemaining(o, h) ==
  IF HubStatus(o, h) \in WaitingStatuses \/ (order[o].inb = 0 /\ HubStock(o, h) = 0) THEN 0
  ELSE IF HubStock(o, h) < 0 THEN 0
  ELSE IF GroupTotal(o, h) < HubStock(o, h) THEN GroupTotal(o, h) ELSE HubStock(o, h)

-----------------------------------------------------------------------------
(* The trip boards: getOutboundTrips, getInboundTrips, getTripManifest. *)

Shipped(t) == \E o \in Orders : RowsOn(o, Dispatch, t) # {}
SavedNotes(h) ==
  {t \in Trips : ~Shipped(t) /\ \E o \in Orders : PendingOut(t, o) /\ line[t][o].hub = h}

(* Mutant: this note's own packages are not given back. *)
ShownEffective(o, h, t) == Effective(o, h)
(* What a line of a saved note shows as available: its own packages are     *)
(* given back to the stock that its reservation reduced.                    *)
ShownAvailable(o, h, t) == Effective(o, h) + line[t][o].qty

InboundTrips(h) == {t \in Trips : StopIsLive(t, h) /\ <<t, h>> \notin origins}

Loaded(o, t) == BookedOn(o, Dispatch, t)
ManifestInTransit(o, t) == Monus(Loaded(o, t), BookedOn(o, Receipt, t))

-----------------------------------------------------------------------------
(* The list of a hub's orders to load, and the printed receiving slip.      *)

OffersToLoad(h, t) ==
  {o \in Orders :
     /\ IsLive(o)
     /\ held[o] = h \/ (held[o] = NoHub /\ order[o].origin = h) \/ HasLedgerAt(o, h)
     /\ \/ order[o].status \in StoredStatuses
        \/ IsDraft(o) /\ (order[o].origin = h \/ held[o] \in {h, NoHub})
     /\ order[o].rem > 0 /\ order[o].trip # t
     /\ Reserved(o, h, t) < order[o].rem}

UnloadedAt(t, h) == \E o \in Orders : RowsOn(o, Receipt, t) \cap RowsAt(o, Receipt, h) # {}
SlipIsPrinted(t, h) ==
  /\ \/ IF StopIsLive(t, h) THEN stop[t][h] = "COMPLETED" ELSE \E g \in Hubs : stop[t][g] = "COMPLETED"
     \/ UnloadedAt(t, h)
  /\ \E o \in LiveLines(t) : IsLive(o)

-----------------------------------------------------------------------------
(* The daily handlers with the hub they write into the order. *)

Holding(S, h) == held' = [o \in Orders |-> IF o \in S THEN h ELSE held[o]]
New(S) == {o \in S : IsUnborn(o)}

(* The last packages of the order leave the hub that held it. *)
Emptied(load, h) ==
  {o \in DOMAIN load : held[o] = h /\ Monus(StockIn(o, h), StockOut(o, h)) <= load[o]}

BoardNext ==
  /\ \/ \E o \in Orders, h \in Hubs \cup {NoHub}, q \in 1 .. MaxQty :
          CreateOrder(o, h, q) /\ UNCHANGED held
     \/ \E o \in Orders, h \in Hubs, q \in 1 .. MaxQty, d \in BOOLEAN :
          QuickCreateInbound(o, h, q, d) /\ Holding(IF d THEN New({o}) ELSE {o}, h)
     \/ \E h \in Hubs, got \in Cargo, drafts \in SUBSET Orders :
          /\ BatchCreateInbound(h, got, drafts)
          /\ Holding((DOMAIN got \ drafts) \cup New(DOMAIN got), h)
     \/ \E h \in Hubs, t \in Codes \cup {NoTrip}, got \in Cargo, keep \in BOOLEAN :
          /\ OwnDrafts(h, got) /\ Arrived(t, got) /\ ConfirmInbound(h, FALSE, t, got, keep)
          /\ Holding({o \in DOMAIN got : ~Skipped(o, h, FALSE, t)}, h)
     \/ \E h \in Hubs, t \in Codes, got \in Cargo :
          /\ NotYetStored(h, got) /\ Arrived(t, got) /\ SaveInboundDraft(h, FALSE, t, got)
          /\ Holding(New(DOMAIN got), h)
     \/ \E h \in Hubs, load \in Cargo, to \in Hubs \cup {NoHub}, d \in Codes \cup {NoTrip} :
          /\ to # h /\ Holds(h, load) /\ ConfirmOutbound(h, load, to, d)
          /\ Holding(Emptied(load, h), NoHub)
     \/ \E h \in Hubs, load \in Cargo, to \in Hubs \cup {NoHub}, d \in Codes \cup {NoTrip} :
          to # h /\ Holds(h, load) /\ SaveOutboundDraft(h, load, to, d) /\ UNCHANGED held
     \/ /\ \E h \in Hubs, t \in Codes :
             CancelOutboundDraft(h, t) \/ CancelInboundDraft(h, t) \/ UpdateTransitStep(h, t)
        /\ UNCHANGED held
  /\ origins' = origins \cup FirstLoaded

BoardInit == CorrectionsInit /\ held = [o \in Orders |-> NoHub]
BoardSpec == BoardInit /\ [][BoardNext]_board

-----------------------------------------------------------------------------
(* Properties. *)

(* Whatever the daily handlers did, a hub's "Lưu kho" tab lists exactly the *)
(* orders the invoice ledger says it holds: none is out of the manager's    *)
(* scope or hidden behind another status.  The KPI card counts the same     *)
(* orders, and the row grouped by code shows the same packages.             *)
StoredTabIsStock ==
  \A h \in Hubs :
    LET here == {o \in Orders : IsLive(o) /\ HubStock(o, h) > 0} IN
    /\ StoredTab(h) = here
    /\ KpiStored(h) = Cardinality(here)
    /\ \A o \in here : GroupRemaining(o, h) = HubStock(o, h)

(* The quantity a saved note shows as available is the quantity the         *)
(* confirmation of that note will accept, however many other notes and      *)
(* dispatches of the same order came in between.                            *)
NoteShowsAvailable ==
  \A h \in Hubs : \A t \in SavedNotes(h) : \A o \in LiveLines(t) :
    IsLive(o) /\ PendingOut(t, o) /\ line[t][o].hub = h => ShownAvailable(o, h, t) = Available(o, h, t)

Expects(o, h, t) ==
  /\ IsLive(o) /\ ManifestInTransit(o, t) > 0 /\ stop[t][h] = "PENDING"
  /\ InTransit(o, t) > 0
  /\ Destination[o] \in {h, NoHub} \/ ~StopIsLive(t, Destination[o])

(* The vehicle the order was loaded on last. *)
LastVehicle(o, t) == \E i \in RowsOn(o, {"TRANSFER"}, t) : \A j \in Rows(o, {"TRANSFER"}) : j <= i

(* Packages a manifest says are on the road are announced to the hub that   *)
(* is to unload them: the trip is on its inbound board, and the order, if   *)
(* this is the vehicle it was loaded on last, is waiting there unless part  *)
(* of it is already in stock.                                               *)
ComingIsAnnounced ==
  \A o \in Orders, h \in Hubs, t \in Trips : Expects(o, h, t) =>
    /\ t \in InboundTrips(h)
    /\ LastVehicle(o, t) => o \in InTab(h, {"PENDING_INBOUND"} \cup StoredStatuses)

(* What the source says of itself, and these screens do not keep. *)

(* operational-ledger.service.ts:315 "on a trip heading to this hub, not    *)
(* yet received (Chờ nhập kho)": with nothing in stock, packages on the     *)
(* road to the hub make the order a waiting one.                            *)
OnTheRoadIsWaiting ==
  \A o \in Orders, h \in Hubs, t \in Trips :
    Expects(o, h, t) /\ HubStock(o, h) <= 0 => HubStatus(o, h) = "PENDING_INBOUND"

(* operational-ledger.service.ts:316 "this hub dispatched everything it     *)
(* held (Đã xuất kho)": the label of a hub that dispatched.                 *)
DispatchedHere ==
  \A h \in Hubs : \A o \in InTab(h, {"COMPLETED_INBOUND"}) : HubDispatched(o, h)

(* warehouse.service.ts:335 "rows selectable on an outbound note — stock    *)
(* held at the viewer hub (Lưu kho) or a local draft".                      *)
LookupIsLocal ==
  \A h \in Hubs : \A o \in Lookup(h) : HubStock(o, h) > 0 \/ LocalDraft(o, h)

(* warehouse.service.ts:6242 "Lấy danh sách các đơn hàng đang lưu tại kho   *)
(* hiện tại sẵn sàng để xuất lên chuyến xe" (the orders in stock at the     *)
(* current hub, ready to be loaded on the trip).                            *)
OffersStockOfTheHub ==
  \A h \in Hubs, t \in Codes : \A o \in OffersToLoad(h, t) : ~IsDraft(o) => HubStock(o, h) > 0

(* warehouse.service.ts:5752 "chưa hoàn tất kiểm đếm dỡ hàng để in phiếu    *)
(* nhập kho" (counting and unloading is not finished, the slip cannot be    *)
(* printed): a slip printed for a trip at a hub has packages unloaded there. *)
SlipHasReceipt ==
  \A h \in Hubs, t \in Codes : SlipIsPrinted(t, h) => UnloadedAt(t, h)
=============================================================================
