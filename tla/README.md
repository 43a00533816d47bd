# A TLA+ model of the logistics backend

This directory specifies the backend under `src/src` (NestJS, TypeORM, PostgreSQL,
Redis): the hub warehouses, the office and the fleet desk, accounts and sessions,
the counters codes are drawn from, the figures kept in Redis, mail and notices.
TLC checks the specifications on small instances; TLAPS proves most of what it
checks of the warehouse, of its clerks at work at once, of the fleet desk, the
accounts, the codes, mails, notices and figures, for any number of orders, hubs,
clerks, users ..

The same package is recorded three times in this system. The order row caches
counters, the invoice ledger has one row per movement, and the trip tables say
which vehicle carries what and which hub has processed it. Some twenty handlers,
up to 900 lines each, keep the three in step by hand, most of them without a lock.
Whether a long mix of them, and two of them at once, really do is the question
this project asks first.

## 1. Inventory

### Components, their state and their operations

| Component | State | Operations | Modelled |
|---|---|---|---|
| Hub warehouse, daily operations (`orders/warehouse.service.ts`) | `order`, `order_inventory_transaction`, `trip`, `trip_stop`, sequence `trip_code_sd_seq` | `quickCreateInboundOrder`, `batchCreateInboundOrders`, `confirmInbound`, `confirmOutbound`, `saveOutboundDraft`, `cancelOutboundDraft`, `cancelInboundDraft`, `updateTransitStep`, `appendOrderToTrip`, `appendStoredOrdersToTrip`, `updateTripOrderDestination` | yes, but for trip codes a user types |
| Administrator corrections (same file) | the same tables | `rollbackTrip`, `deleteTransaction`, `restoreTransaction`, `updateTransactionQuantity` | yes |
| Lists, KPI, boards, slips, history (same file) | none | read-only queries | the screens; not paging, search, export files |
| Operational ledger (`orders/operational-ledger.service.ts`) | none of its own | `upsertTripStop`, stock queries, status SQL, invoice codes | yes |
| Reconciliation (`orders/order-activity-log.service.ts`) | activity log | `reconcileOrderQuantities`, log writes | yes; the log only as far as the history reads it |
| Codes (`orders/order-code.service.ts`, `OrdersService.generateOrderCode`) | `order_code_counter` | draw a code, offer a code | yes |
| Orders, office (`orders/orders.service.ts`) | `order` | `create`, `update`, `adminOverride`, `submit`, `markNoVehicle`, `remove` | yes |
| Trips, fleet (`trips/trips.service.ts`) | `trip`, `order.status` | `create`, `createSplit`, `confirm`, `update`, `remove` | yes |
| Statistics caches (`redis/redis-cache.service.ts` and its callers) | Redis keys with a lifetime | get, set, delete by pattern | yes |
| Accounts and sessions (`auth`, `users`, `session`) | `user`, `session` | sign-up, confirmation, login, external login, refresh, reset, edit, logout, removal | yes |
| Notifications (`notifications` and its senders) | `notification` rows, sockets, unread cache | create, read, push | senders and unread count; not the socket push |
| Mail (`mail`, `mailer`) | BullMQ queue in Redis | queue, attempts, provider fallback, cleaning | yes |
| Hubs | `hub` | prefix and activity matter to codes | those two |
| Sibling orders (`consolidateSiblingOrdersByCode`, `mergeOutboundItemsForOrder`) | rows that share a code | merge | no: see section 6 |
| Vehicles, drivers, roles, files, i18n, configuration, seeds, migrations | reference data, none or external | row writes | no protocol to model |

### How they interact

Handlers call each other in process and share PostgreSQL tables and Redis; nothing
else is shared. A warehouse handler opens one transaction, reads an order row and
the ledger, writes the order, an invoice, a line and the stops, commits, then
deletes cached figures without waiting. No handler asks for a row lock; the rows an
upsert or an update has written stay locked until the transaction ends, and the
counter of invoice codes, drawn early, makes some handlers wait for each other by
accident. The office and the fleet desk write the same `order` and `trip` rows
statement by statement, mostly without a transaction, and so do the accounts.
A mail is queued in Redis or sent by the request itself; notices are sent by
promises nobody awaits.

### What is hard

- *Long sequences.* A draft at one hub, a receipt at another, a dispatch, a rollback
  and a cancellation each move the counters by their own rule; their clamps
  (`Math.max(0, ..)`) hide any disagreement.
- *Interleaving.* Whole rows are saved as they were loaded; checks are made before,
  or outside, the transaction that relies on them.
- *Retries and lost answers.* A receipt is submitted twice, a refresh is answered
  into the void, a provider delivers and reports an error.
- *Crashes.* The worker dies between sending and completing; senders and deletions
  under way are kept nowhere.
- *Plans against stock.* Saved outbound notes reserve packages that other notes and
  dispatches also want.
- *Cleaning up.* Removing a line, an order or a trip decides, from what it can see,
  whether something existed only for it.
- *Derived views.* The tab, the board and the history of a trip are reconstructed
  from columns and timestamps.
- *Waiting.* Counter rows are locked in different orders; requests must still end.

`PROJECT.json` lists each hazard with its line and the properties that cover it.

### What makes each component correct

- *Warehouse, ledger, reconciliation.* Counters are the sums of the invoices; what
  remains is what lies in the hubs; no hub ships what it does not hold; saved notes
  can all be confirmed; a vehicle is received once per order and hub; a processed
  stop stays processed; an order that moved packages is never deleted.
- *Corrections.* The same after any number of corrections between daily operations, as
  long as no correction leaves a hub with more dispatched than received.
- *Concurrent handlers.* Two of them never ship the same packages.
- *Screens.* A tab, a note or a board shows what the ledger holds, and what the
  handlers would accept; the history shows what was done.
- *Codes.* No code is given twice, and nobody waits for ever to get one.
- *Fleet desk and office.* An order is assigned when its last line is confirmed; a
  submitted contract stays; nothing is left of a removed order.
- *Accounts and sessions.* One live account per address; a stored password is hashed
  once; a token is exchanged once; an ended session answers nobody.
- *Figures.* A stale figure goes, within a minute or with its deletion.
- *Mail and notices.* A mail whose request was answered is delivered, given up or
  cleaned; it is not sent twice unless something broke; a notice reaches each
  recipient once, whatever happens to the others.

## 2. Modules

| Module | Models | A step is |
|---|---|---|
| `PackageSums` | the packages of a set of rows as a finite set: the `SUM` of the queries, without recursion, so that it can be proved about | - |
| `WarehouseLedger` | daily operations of the hubs | a handler |
| `HubStock` | the abstract promise: stock and planned packages of every order at every hub | a movement |
| `WarehouseCorrections` (extends `WarehouseLedger`) | loading on the road, redirection, corrections of invoices, rollback | a handler |
| `HubBoard` (extends `WarehouseCorrections`) | `currentHubId` and the queries of the screens | a handler |
| `OutboundRace` (extends `WarehouseLedger`) | the same handlers by several clerks at READ COMMITTED | a check or a commit |
| `TripTimeline` | the tables `getTripHistory` reads, and its reconstruction | a handler, with a clock |
| `FleetDesk` | `trips.service.ts` and the office's changes of orders | a statement |
| `Accounts` | `auth`, `users`, `session` | a statement |
| `CodeCounters` | counters in their transactions, with row locks | a statement |
| `SuggestedCodes` | the office form's offer | an offer or a save |
| `StatsCache` | cache-aside reads, deletions, expiry, the connection | a command of Redis |
| `MailQueue` | the queue, its worker, the mailer | a command or a send |
| `Notifications` | the senders of trip and order events | a notice or a mail |
| `WarehouseStock_proofs`, `WarehouseCorrections_proofs`, `OutboundRace_proofs`, `CodeCounters_proofs`, `FleetDesk_proofs`, `Accounts_proofs`, `MailQueue_proofs`, `Reads_proofs` | what is proved: section 5 | - |
| `MC...` | instances for TLC; each says what its behaviours may do. `MCReads` explores `StatsCache` and `TripTimeline` | - |

### `WarehouseLedger` and the code

| Variable | Code |
|---|---|
| `order[o]` | the `order` row of code `o`: `status`, `live` (no `deletedAt`), `origin` (`originHubId`), `trip` (`currentTripCode`), `total`, `inb`, `outb`, `rem` (the four quantities). `status = "NONE"` before the row exists |
| `ledger[o]` | its `order_inventory_transaction` rows in creation order: type, hub, trip code, quantity, `live` |
| `line[t][o]` | its `trip` row on code `t`: status, type, origin hub, `quantityAllocated` |
| `stop[t][h]` | `trip_stop` of code `t` at hub `h`; `DELETED` is a soft-deleted row, which still occupies the unique key |
| `lastTrip` | the sequence behind `SD1`, `SD2`, .. |

| Action | Handler | Worth knowing |
|---|---|---|
| `CreateOrder` | `OrdersService.create` | opens with its quantity already counted as inbound |
| `QuickCreateInbound` | `quickCreateInboundOrder` | an existing code is topped up; a draft becomes stock |
| `BatchCreateInbound` | `batchCreateInboundOrders` | one code for all items; draft and stored items may mix |
| `ConfirmInbound` | `confirmInbound` | a draft of this hub takes the typed quantity; a locked contract grows; a repeated receipt is skipped or, for an administrator, corrects the first; lines taken out of the note are dropped (those of this hub and those of none, `Removed`), with their order if nothing else speaks for it (`Orphan`); the stop is processed, and when none is pending the lines complete |
| `SaveInboundDraft` | `confirmInbound`, `targetStatus: KEEP` | nothing received; the note loses lines in the same way |
| `ConfirmOutbound` | `confirmOutbound` | stock of the hub less what other notes plan; confirming a saved note keeps its code |
| `SaveOutboundDraft` | `saveOutboundDraft` | the same check, planned lines, pending stops |
| `AdminConfirmOutbound`, `AdminSaveOutboundDraft` | the same two, for a SUPER_ADMIN without a hub | each order leaves from the hub that keeps it, `at[o]`; only the hub of the first gets the trip's origin stop |
| `CancelOutboundDraft`, `CancelInboundDraft` | the handlers of these names | the second deletes draft orders of the trip and reconciles the others |
| `UpdateTransitStep` | `updateTransitStep` | creates or processes a stop |

What a request may contain is enumerated: any non-empty set of orders, any quantity
up to `MaxQty`, any hub, any existing code or none, administrator or not. A request
the code rejects is a disabled action. `HubNext` are the requests of users who dispatch
from their own hub; `Next` adds those of an administrator without one.

`Spec` is everything the handlers accept. `RoutineSpec` adds the discipline the
handlers assume but do not check:

- no administrator correction of an earlier receipt (`admin` is FALSE): a correction
  below what was dispatched is clamped at zero;
- `OwnDrafts`: a draft typed at the office, with its packages counted before they
  arrive, is received by its own hub;
- `NotYetStored`: a note is saved (KEEP) only on orders not in stock, since saving
  overwrites the counters of a stored order with the typed quantity;
- `Arrived`: a note is received only once it has been dispatched;
- `Holds`: a hub dispatches, or plans, orders it has ledger rows for.

`RoutineNext` implies `HubNext`, hence `Next` (lemma `RoutineAllowed`), so every result about `Spec`
holds of it too. Section 4 lists what happens without each of these.

`HubStock` knows only how many packages of each order a hub holds and how many its
saved notes plan to ship: one hub at a time receives or ships, never below zero, and
every plan stays covered. `ImplementsHubStock` says that `RoutineSpec` implements it
under the mapping of `stock` to receipts less dispatches of the ledger and of
`planned` to the pending outbound lines.

### The other modules and the code

- `WarehouseCorrections` adds `origins`, the stops inserted as `ORIGIN`, which
  `rollbackTrip` asks for. `Recounted` is the recount the three invoice corrections
  share; `RollbackTrip` reverses dispatches or receipts, of one hub or of all, as
  `ReopensDispatch` decides. The handler gives a dispatch back invoice by invoice;
  `Undispatch` is the closed form, by the sum of the invoices. The receipts it takes
  back decide the order's status one after the other, so `Unreceive` stays a fold.
  `PickUpOnTheRoad`, `AppendOrderToTrip` and
  `AppendStoredOrdersToTrip` load a vehicle that has left.
- `HubBoard` adds `held` (`currentHubId`) to every daily handler that sets it, and
  translates each query: the status SQL and its scope (`HubStatus`, `InScope`), the
  tabs, the KPI card, grouped rows, the two trip boards, the manifest, the loading
  list, the receiving slip, the lookup.
- `OutboundRace` splits a handler where another's commit can come between: what it
  loads and checks, what it looks up on the way, what it commits. A request keeps in
  `req[c]` the copies of the orders it loaded, because `save` writes them whole.
  A receipt looks up the lines left out of the note and the orders to be removed in
  `SortOut`, and deletes those orders later by id; the cancellation of an inbound draft
  lists the pending lines and the stored orders in `ListPending`, and deletes later.
  `Locks` are the rows a dispatch has already written when it reads the stock: the
  counter of its invoice kind and, for a saved note, the note. `ReceiptLocks` are those
  of a receipt when it sorts out: the orders it books and the counter. `MayWrite` makes
  another request wait for them; `RollBack` ends a request that fails, or that
  PostgreSQL ends to break a circle. `GateIntake` is an intake of goods of a live order,
  at any hub, in one step.
- `TripTimeline` keeps lines and invoices with their timestamps, the logs, the time the
  note's stop was last changed (`upserted`), that of each order of a receiving note
  (`changed`, which `EditOrder` moves without the note) and, beside the program's state,
  `told`: what was really done with the note. A tick is two seconds, so the
  windows of 2.5, 3 and 5 seconds hold one, one and two.
- `FleetDesk` and `Accounts` give each clerk's request a record in `req[c]`: which
  statement is next and which row it loaded. `Server(c)` is what the server does by
  itself.
- `CodeCounters`: `txn[c]` is the list of counters a handler takes, in its order,
  those taken, and the row values to restore on rollback; `lock` is PostgreSQL's row
  lock, `Victim` its deadlock detection.
- `SuggestedCodes`: the codes in use are read in the order of their text (`AsText`),
  the last `Limit` of them; the offer is stepped past existing codes `Attempts` times.
- `StatsCache`: a statistic is a version number of the rows it counts; an entry has
  an age in half minutes; `sweep[k]` counts deletions under way; `link` is the
  connection, which is never restored after three failed attempts.
- `MailQueue`: a job is waiting, active, delayed, failed or completed, with attempts
  made and stalls; `work` is the worker of this server. BullMQ and Redis are external
  and modelled as the code uses them. A provider may deliver and report an error;
  each such answer counts against `MaxFaults`, like a crash or an outage.
- `Notifications`: a sender goes through its recipients in any order, a notice and a
  mail each; what a failure ends (`AfterFailure`) is the difference between the trip
  sender, one `try` around the loop, and the order senders, one around each step.

## 3. Runs

The instance of a run often holds several *worlds*, chosen in the initial state by a
variable of the MC module (`work`, `shift`, `day`, ..): each has the requests and the
sizes one question needs, so that one run answers a component's questions without the
product of all bounds. A property about one world names it.

| Run | Instance | Distinct states | Shows |
|---|---|---|---|
| `daily` (`MCHubBoard`) | `RoutineSpec` with the screens; 1 order, 2 hubs; 2 trips with single packages or 1 trip with quantities to 2 and 3 invoices | 56,487 | counters, stock and reservations agree, the screens show them, the stock promise is implemented |
| `all_operations` | `Spec`; 2 orders, 2 hubs, 1 trip, two packages and two invoices between them; administrators, with a hub and without | 68,205 | what survives every accepted use |
| `corrections` | `OrderlySpec`; 1 order, 2 hubs. *invoices*: 1 trip, quantities to 2, 2 invoices; *taking back*: 2 trips, 2 invoices; *vehicles leave*: goods at both hubs, 2 trips without a note, 4 invoices | 128,621 | counters stay the sums of the invoices, no hub is oversold |
| `on_the_road` | 2 hubs, 1 trip, single packages. *loading*: 2 orders, loaded on the road; *corrections*: 1 order, 2 invoices, everything the daily handlers accept, invoices corrected and dispatches taken back; *reopening*: the same with loading on the road and trips reopened. Users of a hub | 100,685 | an order points to a vehicle that carries it; the contract total covers what was received; a line on the road has its invoice |
| `race` | 2 clerks, 2 hubs, 1 order. *transfers*: dispatches to hubs, 2 trips; *anything*: every pair of handlers, 1 trip | 383,325 | transfers at once do not oversell; a line on the road keeps its invoice under every pair |
| `two_kinds_at_once` | 2 clerks dispatch to hubs and to customers | violated | both kinds at once oversell |
| `left_out` | 2 clerks, 2 hubs, 2 orders, 1 trip; *anything* | violated | an order left out of a receipt is deleted with goods |
| `reads` (`MCReads`) | the figures or the history, which share no table. Figures: 2 readers, *outages*: 1 figure, 2 changes; *swift*: 2 figures; *fair*: 2 figures, 2 changes. History: 2 orders, one trip, *people*: operations six seconds apart; *scripts*: at once or a tick apart, cancellations and rollbacks | 363,341 | stale figures go; history and status are true |
| `fleet` | 2 orders, 2 clerks, 2 lines, 1 note. *no overlap*, *planning*, *removing* | 215,358 | the desk and the office keep the contract and clean up |
| `accounts` | 2 accounts, addresses, sessions, clerks. *no overlap*, *accounts*, *sessions*, *faults* | 659,736 | one account per address, one exchange per token |
| `codes` | 2 clerks, 2 hubs that derive the same prefix. *counters*: two months, a prefix set for one hub or none, one order of the other; *managed*: 1 hub, its prefix and state edited; *offers*: 13 numbers, padding at 10, three rounds | 442,287 | codes differ, requests end, offers are free until the loop runs out |
| `mails` | *queue*: 2 mails, 3 jobs; notices with 5 accounts, 2 hubs, 2 faults; *trip*: any one event, restarts; *orders*: 2 order events | 214,771 | mails settle, notices arrive once |

TLC's deadlock check is off throughout: with codes, invoices, faults or time used up,
and nobody asking for anything, each of these systems may stop.

The properties:

- `CountersMatchLedger`: `inboundQuantity` and `outboundQuantity` of a stored order
  are the sums of its invoices; a draft has none. `RemainingIsStock`:
  `remainingQuantity` is what is left in all hubs together. `CorrectionsKeepTheBooks`:
  both, and no hub with more dispatched than received, through corrections of invoices
  and rollbacks of dispatches. The handlers compare sums over all hubs, which lets an
  administrator take a receipt away from under a dispatch of the same hub; the books
  then break at the next dispatch (section 4). `CarefulCorrection` leaves that out.
- `ImplementsHubStock`: the refinement of section 2. It contains
  `StockCoversReservations`: every saved note can be confirmed.
- `StoredTabIsStock`: the tab of stored orders, the KPI card and the grouped row show
  the stock of the hub's ledger. `NoteShowsAvailable`: a saved note shows what its
  confirmation would accept. `ComingIsAnnounced`: packages on the road are announced
  where they will be unloaded.
- `TotalCoversInbound`, `OneReceiptPerStop`, `DispatchLeavesDraft`,
  `InTransitIsInvoiced`, `DeletedOrderHasNoStock`, `CompletedStopSticks`: the contract
  total is never below what came in; a receipt is never booked twice; a dispatched
  trip has no planned line; a line on the road has its invoice, and its trip left from
  a processed stop (that of the line's own hub, unless an administrator dispatched orders
  of several hubs, `LeftFrom`); one request at a time, only an order that never moved is
  removed; no processed stop is reopened. `TypeOK`:
  the tables are well typed, no counter negative.
- `LoadedOrdersRide`, which is `RidesItsTrip` where nothing is rolled back: an order on
  the road is on a live line of the trip it points to. Goods picked up on the road have a
  line of no hub, which any hub may leave out of its note; their order then points to no
  trip (`PickedUp`). `CorrectedTotalsCover` is
  `TotalCoversInbound` under invoices corrected without care and dispatches taken back,
  `RoadStaysInvoiced` is `RoadIsInvoiced` (a line on the road has an invoice of its trip)
  under loading and reopening. A rollback may take the invoices of one hub only; what
  keeps this true is that it reopens every line of the trip.
- `TransfersNeverOversell`: two transfers at once, from a hub that has a ledger of the
  order. It rests on an accident, and the violated run shows which: the counter of the
  `TRANSFER` invoices is drawn before the stock is read. `LeftOutHadNoGoods`, violated:
  an order a receipt removes had no goods, which the receipt looked up before a gate
  took them in.
- `HistoryIsTrue`: all that was really done with a note is shown, each step once and at
  its time. Of a receiving note that was never saved again, a save is guessed from the
  last change of its lines, its pending stop and its draft orders, so an order changed
  elsewhere shows as a save of the note: that step and no other may be invented
  (`NoStepInvented`, section 4). `StatusIsTrue`: the status is the last
  operation's, rollbacks included.
- `LastConfirmationAssigns`: when all lines are confirmed, and requests have ended,
  the order is assigned. `OneContract`: quantity changes after submission only with an
  override and its adjustment invoice. `NoPlanOutlivesItsOrder`,
  `NoteGoesWithItsLastOrder`: a removal takes pending lines and the empty note's stop.
- `EmailIsUnique`; `PasswordAlwaysOpens`: what is stored is the single hash of what was
  typed; `OneExchange`, `OwnerKeepsToken`, `DeletedIsDeaf`: refresh rotation.
- `CodesDiffer`: two documents of one hub never carry the same code (`NoCodeTwice`,
  prefixes edited or not), and two of different hubs only if both print the same prefix
  (`OnlyNamesakesClash`, as long as none is edited). The derived prefix is not one to
  one: `HUB-X` and `HUB-X-01` both print `X`, and their two counters then print the same
  codes; an administrator keeps them apart by setting one. `ManagedRequestsEnd`.
  `OfferIsFree`: an offered number is free, unless the loop ran out (`Exhausted`): past
  the padding, with all the numbers it tried in use.
- `FiguresCatchUp`: once writers stop, the cache ends without a stale entry.
  `StaleFiguresLeave`: a stale entry has a deletion under way when nothing failed, and
  is gone within a minute otherwise.
- `AcceptedIsKept`, `EveryMailSettles`: a mail whose request was answered stays known
  until it is delivered, given up or cleaned, and gets there, unless the connection to
  Redis is given up (three failed reconnects) and nobody restarts the server.
  `NoDuplicateWithoutFault`.
  `NoticesArriveOnce`: nobody is told twice, the channels of an order event fail
  independently, a hub without manager is reported.

*Bounds.* Two hubs are enough for a transfer, a receipt at the wrong hub and a dispatch
from a hub that has nothing; two trips for an order planned in one vehicle and
dispatched in another; two orders for a load that leaves one out; two packages for a
partial movement; three invoices for receipt, dispatch and receipt elsewhere; two
clerks for a race, since each handler is overtaken by one other; two sessions and two
links for a token of another session; two months for a counter that starts again. Two
faults are a crash after a crash, or an outage during recovery. `Destination` is empty
in these runs: a contract destination only adds pending stops. *Symmetry* permutes
orders, hubs or clerks where no constant tells them apart; it is not used with
liveness. The history leaves out the initial states that differ from another by a swap
of its two orders (`FirstOf`).

*Fairness.* None in the warehouse: every action there is a request a person may or may
not send. Elsewhere only of what a machine has begun. `FleetDesk`: WF of each
request's next statement. `CodeCounters`: WF of commit, refusal and deadlock
detection, SF of taking a counter, since PostgreSQL grants a lock in the order of the
queue. `StatsCache`: WF of a begun query, store and deletion, and of Redis's clock
(in `reads`, where the figures are looked at).
`MailQueue`: of the requests begun, the worker, the delayed jobs, stalled jobs and
the reconnection, which succeeds or is given up, as BullMQ runs them. Requests, faults,
writers and restarts are never fair.

Each property has a mutant, a plausible slip in one definition (a reservation not
subtracted, a lock not taken, a hash rotated by id ..), and TLC finds the property
violated by it.

## 4. Where the code and its comments part

`two_kinds_at_once` is a run: `warehouse.service.ts:3563` says a dispatch "Validates
against the stock of the dispatching hub (invoice ledger)", and a transfer and a
delivery committed at once both ship the same packages.

`left_out` is another: a receipt deletes the draft orders left out of the note, since
"thực tế không có hàng" (there are no goods in fact, `:3173`). It has counted their other
lines and receipts at `:3139`, locks nothing and deletes by id at `:3175`. A gate of
another hub that books a receipt of such an order in between loses it: the invoice stays,
the order is deleted. One at a time the handlers never do this (`DeletedOrderHasNoStock`).

The modules also state what other comments, docs and tests say, next to the
specification TLC refutes each under; no run repeats these, a small `.cfg` with the
constants of the module's run does.

| Property | Specification | The source says | What happens |
|---|---|---|---|
| `HubStockNonNegative`; under `InvoiceSpec` also `RemainingIsStock` | `Spec`; `InvoiceSpec` | `warehouse.service.ts:3563`; `:7304` refuses what "would make the stock negative" | a hub without ledger rows is granted the order's remaining counter; invoice deletion compares sums over all hubs, and the clamp of the next dispatch hides the difference |
| `DeletedOrderHasNoLine` | `Spec` | `:4342`: orders deleted with a draft belong entirely to the trip | an order another trip carries is deleted |
| `DraftTripStaysPending` | `Spec`, 2 orders | `:3615`: trips with draft orders can only stay pending | a batch with a draft and a stored item closes the stop |
| `CountersMatchLedger` | `Spec` with a destination; `LoadingSpec`; `TransferDeskSpec` | `order-activity-log.service.ts:379`: inbound quantity must match inbound transactions | an office order is counted at entry and at receipt elsewhere; goods picked up on the road have an invoice and no count; two dispatches overwrite each other's counter |
| `TransferKeepsContract` | `RoutineSpec` with a destination | `:2742`: never touch contract fields | receiving a transfer raises the contract total |
| `ShippedTripHasStop` | `RoutineSpec`; `DeskSpec` | `:3853`: every receiving hub has a pending stop | the receiving hub cancels the arrival, or a note is cancelled while it is confirmed |
| `TotalCoversInbound` | `RollbackSpec` | `:6929`: undo the stock and the state of the order | 2 packages are handed in and 1 arrives on a first vehicle; 2 leave on a second; the first is rolled back, and the order, with nothing left, waits again (`:7124`) while its dispatch stands; a note saved for it (`:2669`) sets its contract to 1; the dispatch taken back stores it with 2 received of a contract of 1 |
| `ReopenedStopIsUndone` | `RollbackSpec` | `:6929`: undo the stock and move the stop back | a rollback by the receiving hub reopens its stop and leaves its receipt |
| `NoteShipsOnce`, `TransitRefusesDrafts` | `TransferDeskSpec`; `RaceSpec`, 2 orders | `:3958`, `:6676` | checks made before another request commits |
| `DispatchedHere`, `LookupIsLocal`, `OnTheRoadIsWaiting`, `OffersStockOfTheHub`, `SlipHasReceipt` | `BoardSpec` | `operational-ledger.service.ts:315`, `:316`, `warehouse.service.ts:335`, `:6242`, `:5752` | screens list orders of other hubs, or forget a second vehicle |
| `NoStepInvented` | `ReadsSpec` | `warehouse.service.ts:7912`: complete chronological history | without a logged save of a receiving note, a save is added at the last change of its lines, pending stops and draft orders (`:8391`), whoever changed them |
| `NothingForgotten`, `PartKeepsPending`, `BlockersBlock` | `Spec`, `PartsSpec`, `ForwardSpec` of `TripTimeline` | `:7912`, `:3271`, `:7914` | a rollback erases what it undid; a part taken off shows the trip processed; a blocker that does not block |
| `SplitReplacesPlan`, `ContractLocked`, `RemovedOrderHasNoPlan` | `DispatchSpec`, `ContractSpec`, `Spec` of `FleetDesk` | `trips.service.ts:121`, `orders-waybill-code.spec.ts:303`, `orders.service.ts:830` | two requests at once |
| `HeldTokenWorks` | `FaultSpec` | `docs/auth.md:220`: users who return never log in again | the answer of a refresh is lost |
| `OfferIsNext`, `OffersDiffer` | `QuietSpec`, `DeskSpec` | `orders.service.ts:922`, `:923` | past the padding the offer falls back; two users are offered one code |
| `PartiesAreTold` | `Spec` of `Notifications` | `trips.service.ts:193`: send to the parties concerned | the first failure ends the loop |

Two more are plain from the code: `getKpiStats` caches for 60 seconds
(`warehouse.service.ts:4503`) where `docs/redis-architecture.md:174` says 30, and
`attempts: 3` (`mail.service.ts:133`) is two retries where `:264` of the same doc says
three.

## 5. Proofs

For every set of hubs, trips, clerks, users .. and every bound:

| Theorem | Statement |
|---|---|
| *`WarehouseStock_proofs`*: `TypeCorrect`, `RoutineTypeCorrect` | `Spec => []TypeOK`, and the same of `RoutineSpec` |
| `ProcessedStopSticks` | `Spec => CompletedStopSticks` |
| `RoutineSound` | `RoutineSpec => [](TypeOK /\ AllSound)` |
| `CountersNeverDrift`, `RemainingIsExact`, `NoHubOversells` | `RoutineSpec => []CountersMatchLedger`, `[]RemainingIsStock`, `[]HubStockNonNegative` |
| `ContractCoversReceipts`, `ReceivedOnce`, `RemovedHadNoStock` | `Spec => []TotalCoversInbound`, `[]OneReceiptPerStop`, `[]DeletedOrderHasNoStock` |
| `ShippedIsNotPlanned`, `OnTheRoadIsInvoiced` | `Spec => []DispatchLeavesDraft`, `[]InTransitIsInvoiced` |
| `NotesStayCovered` | `RoutineSpec => []StockCoversReservations` |
| `RoutineKeepsPromise` | `RoutineSpec => ImplementsHubStock` |
| *`WarehouseCorrections_proofs`*: `OrderlyBooksAreKept` | `OrderlySpec => []CorrectionsKeepTheBooks` |
| `CorrectedContractsCover`, `CorrectedTotalsStayCovered` | `CorrectionSpec => []TotalCoversInbound`, `OnTheRoadSpec => []CorrectedTotalsCover` |
| `OrdersRideTheirTrips`, `LoadedOrdersRideAlong` | `LoadingSpec => []RidesItsTrip`, `OnTheRoadSpec => []LoadedOrdersRide` |
| `ReopenedTripsStayInvoiced`, `ReopenedRoadStaysInvoiced` | `ReopeningSpec => []RoadIsInvoiced`, `OnTheRoadSpec => []RoadStaysInvoiced` |
| `BoardIsRoutine` | `BoardSpec => RoutineSpec` |
| `StoredTabTellsTruth`, `NoteTellsTruth`, `ArrivalsAreAnnounced` | `BoardSpec => []StoredTabIsStock`, `[]NoteShowsAvailable`, `[]ComingIsAnnounced` |
| *`OutboundRace_proofs`*: `RaceTypeCorrect` | `RaceSpec => []RaceType` |
| `RacingVehiclesAreInvoiced` | `RaceSpec => []InTransitIsInvoiced` |
| `TransfersAloneNeverOversell`, `ShiftsNeverOversell` | `TransferDeskSpec => []HubStockNonNegative`, `ShiftSpec => []TransfersNeverOversell` |
| *`FleetDesk_proofs`*: `NoteGoesAlong`, `NoPlanIsLeft`, `ContractKept` | `DaySpec => []NoteGoesWithItsLastOrder`, `[]NoPlanOutlivesItsOrder`, `OneContract` |
| *`Accounts_proofs`*: `AddressesStayUnique`, `TokensExchangedOnce`, `DeletedSessionsAnswerNobody` | `Init /\ [][Anything]_vars => []EmailIsUnique`, `[]OneExchange`, `[]DeletedIsDeaf` |
| `EveryDayIsSafe` | the three of `Spec`, `FaultSpec` and `DaySpec` |
| `OwnersKeepTheirTokens`, `OwnersKeepTheirTokensAllDay` | `Init /\ [][Attended]_vars => []HeldTokenWorks`, `DaySpec => []OwnerKeepsToken` |
| `PasswordsStayOpen`, `PasswordsStayOpenAllDay` | `Init /\ [][Next]_vars /\ []Alone => []PasswordOpens`, `DaySpec => []PasswordAlwaysOpens` |
| *`MailQueue_proofs`*: `MailsComeOnce`, `AcceptedMailsAreKept` | `Spec \/ OfficeSpec => []NoDuplicateWithoutFault`, `[]AcceptedIsKept` |
| `NoticesComeOnce` | `OfficeSpec => []NoticesArriveOnce` |
| *`Reads_proofs`*: `StaleFiguresGo` | `ReadsSpec => []StaleFiguresLeave` |
| `ShownStatusIsTrue`, `ShownHistoryIsTrue` | `Spec \/ ReadsSpec => []StatusIsTrue`, `ReadsSpec => []HistoryIsTrue` |
| *`CodeCounters_proofs`*: `EachCodeOnce`, `OtherHubsOtherCodes` | `Spec => []NoCodeTwice`, `CodesSpec => []OnlyNamesakesClash` |
| `CodesStayApart` | `SourcesSpec => []CodesDiffer` |
| `OffersStayFree` | `SourcesSpec => OfferIsFree` |

`DaySpec`, `ShiftSpec`, `OnTheRoadSpec`, `OfficeSpec` and `ReadsSpec` are
the specifications the runs explore, all their worlds included; `AdministratorIsOrderly` says the same
of `OrderlySpec`. `WarehouseCorrections_proofs` also holds the screens of `HubBoard`,
`Reads_proofs` the figures of `StatsCache` and the history of `TripTimeline`.
`CorrectionSpec` and `ReopeningSpec` are everything the daily handlers accept (`Daily`),
the one with invoices corrected in any way and dispatches taken back, the other with
trips loaded on the road and rolled back in any way.

*Assumptions.* Each module names its own, and TLC evaluates them in the runs. Warehouse:
the orders are finitely many, the null hub is no hub, every contract destination is a
hub or none, the bounds are natural numbers. Codes: `INV` is not an operator's initials,
`NoPrefix` no prefix and `NoClerk` no clerk, every hub derives a prefix for each series,
there is at least one month, `MaxSeq` is a natural number; the office has finitely many
clerks, and the numbers of its form (bound, padding, codes read, rounds) are positive
and have one digit more than the padding at most (9999 in the code). Fleet: no note is the null note. Accounts: the null is no address and no
password. Mail: a mail of the queue is not one the request sends itself, the modes are
on or off, the event of a behaviour with one is an event. Some theorems ask for more:
those of the fleet desk that there is an order (`req` has to name one) and, where
requests do not overlap, finitely many clerks, since "at most one is busy" counts them;
so does `PasswordsStayOpenAllDay`. `ShownStatusIsTrue` and `ShownHistoryIsTrue` have
finitely many orders (a handler writes a row for each). `AcceptedMailsAreKept` holds of a server that sends, not
of one in development or with `MAIL_SIMULATE`, which report success without a copy.

*Sums.* A sum over rows is the cardinality of a finite set (`PackageSums`), so
adding, changing or leaving out a row is a fact about cardinalities, with no
induction.

*Counters* (`Sound`). `CountersMatchLedger` alone is not inductive: a dispatch
writes `rem` with a clamp, and a reconciliation rebuilds it from sums over all hubs
with another. The invariant `Sound(order[o], ledger[o])`, one order at a time, adds
`rem + outb = inb`, and that no *set* of hubs has shipped more than it received. A
dispatch is checked against one hub; what is needed of the clamp is about all of
them. Stated for single hubs the step from one to the other would be an induction
over hubs; stated for every subset of the hubs it is preserved directly, by splitting
a subset at the hub that acts, and its two instances (one hub, all hubs) give
`NoHubOversells` and the clamp. Each handler is then one of four cases: nothing but
a deletion of a draft (`KeptSound`), an order entered (`EnteredSound`), one receipt
(`ReceiptSound`), one dispatch (`DispatchSound`).

*What survives every accepted request* (`Clean`, `RoadOK`). The five theorems of
`Spec` hold without the discipline of `RoutineSpec`, administrators and resubmissions
included. None of the five is inductive. `Clean` strengthens the first three, one
order at a time: a draft or deleted order has no live invoice, a stored one has
received at most its contract, no row carries a trip code that was not yet allocated
(so a new code is a new receipt), and two live receipts alike in hub and trip are the
same row. `RoadOK` strengthens the last two, one trip at a time: where a hub has
shipped an order it plans none of it, and a line on the road has its dispatch invoice
and, on its trip, a line that left from a hub whose stop is processed. That line need not
be its own, and outlasts it: no receipt takes out a line that left a hub. `RoadOK` needs `Clean`, which says that a code just allocated has
nothing on it. Most handlers ship nothing; `QuietRoad` treats them at once.

*Plans and the stock promise* (`AllCovered`). What a hub shipped and what its pending
lines plan never exceed what it received. A dispatch of a saved note takes its own
plan out of the sum when it adds its invoice, and is checked against the others; that
its lines are no plan any more afterwards is `RoadOK`. A receipt on the trip an order is
riding could add packages to a plan behind a hub's back; `Riding` (that trip has a
dispatch invoice of the order) says that nothing on it is a plan any more. The refinement maps `stock` to receipts less
dispatches and `planned` to `PlanSum`; its steps are the same lemma read at the
abstract level, since every handler moves packages at one hub at most (`Moves`).

*Corrections* (`Books`). `Sound` of every order, as under routine use, and that every
invoice, deleted or not, carries packages: an order with nothing received then has no
invoice left, which is what makes its status after a recount (`PENDING`, a draft's)
sound. A correction is told only that no single *hub* is oversold; `Sound` is about
every set of hubs. `HubsTogether` closes the gap without an induction over hubs: of
the sets with the wrong sum, one with the fewest hubs would lose a hub and still be
wrong. A recount needs nothing else of the order it overwrites (`RecountSound`). A
dispatch taken back raises what remains by what `Undispatch` sums (`ReversedSums`).

*Corrections without care* (`Contracts`). Where any correction is made that the handlers
accept, hubs oversell and orders are not `Sound`, but the contract still covers what came
in. The invariant is `Clean` without its last part, since an invoice restored may stand
beside the one that replaced it: `Clean` has the set of trips received at most once as a
parameter, all of them for the daily handlers, none here. That every invoice carries
packages is needed again, for a reason of its own: a recount that finds no package makes
the order a draft, and a draft whose dispatch could still be taken back would be stored
with a contract a note has rewritten meanwhile. The rollback of a receipt makes just such
a draft, and there the property fails (section 4).

*Loading on the road* (`RidesWell`). `RidesItsTrip` asks for a live line, and a
receiving note takes live lines out of a trip. `RidesWell` says more: the order is on a
line that left a hub (`OUTBOUND`, `TRANSFER`), which nobody takes out, or of no hub
(`Aboard`). A note may take out a line of no hub; but such a line was picked up on the
road, so its order has the pick-up's invoice, which no daily or loading handler takes
back (`Roadside`), and the handler that takes the line takes the order's trip off. Every
other handler leaves the line aboard, and none of the day puts an order in transit
(`NobodyLeftBehind`); each loading handler puts the order and its line there
together (`LoadedAndAboard`).

*Trips reopened* (`RoadBooked`). A line stays at the hub it was loaded at, so which kind
of invoice stands for it never changes (`Carried`). Every handler that puts a line on the
road books it in the same step, no daily or loading handler takes an invoice out
(`Keeps`), and a rollback touches invoices and lines of one trip only: there it leaves no
line on the road (`RollbackTripBooked`). The argument reads four columns, so it needs no
type correctness, which loading does not keep (goods picked up are invoiced at no hub).

*Screens.* `BoardSpec` only adds columns the handlers write beside, so its tables go
through routine steps (`BoardIsRoutine`) and every invariant above holds of them.
Stored tab: a draft has no invoice, so asking for the draft first loses nothing. Note:
`LinesOK` says that a planned line has an allocated code, a stop and packages; with
`NotesStayCovered` the subtraction never clamps. Board: `OriginsOK` (an origin stop is
of the only hub that loads its trip and is processed once the trip was shipped) puts
the trip on the inbound board, `AllRide` (an order with packages left on the vehicle it
was loaded on last points to that vehicle) puts the order in the waiting tab.

*Clerks at once.* What a request carries is part of the invariants, for it will be
saved, and so is what `SortOut` and `ListPending` found. `OnRoad` is
`InTransitIsInvoiced` with the hub and the kind of the line; it survives because no
commit, whatever it loaded or looked up before, puts a line on the road without its
invoice, takes an invoice back or reopens a stop (`Parked`). `DeskOK` says that a dispatch to
a hub that has read the stock is still covered by it (`Backed`), that no two of them
leave from one hub, and that each is of orders its hub has rows of. It is preserved
because receipts only add, and a second dispatch waits for the counter of the hub's
transfer invoices before it reads. Dispatches to customers wait for another counter,
and there the invariant, and the property, fail (`two_kinds_at_once`).

*Fleet desk and office.* `GhostsFollowed`: while removals overlap, a pending note
without lines is in the hands of a request that has yet to look at its stop; the last
to do so finds no line. `OneDesk`, for requests that do not overlap: the one request
under way holds rows as the table has them (`Current`), and an order already removed
has pending lines only while its own removal is at them.

*Accounts.* `Addresses` adds to `EmailIsUnique` that each live account has an address;
every statement that writes one checks the index. `Tokens`: a hash handed out is behind
the one the session expects (so a token exchanged is not presented with success again),
and a request that began late has a session that ended, which no statement reopens.
`Held`: a session is refreshed by at most one request that has not answered yet, which
carries the hash expected; all others present older ones. `Hashed`: every stored
password is hashed once, and a request that carries a hashed one carries the row's own.

*Mail.* `Calm`, until the first fault: a mail has at most one job, the worker holds the
job that is active, and what may still be sent was not delivered. `Kept`, whatever
breaks: a job counts no more attempts than were made, the worker has made one more when
it reports a failure, and an accepted mail is delivered, cleaned or has a job.

*Notices* (`NoticesOK`). For each account, what a sender has done and what is left on
its list add up to one at most (`NoSecond`); the list names an account once because
nobody has two roles. An unmanaged hub of a trip is still to be looked at, its warnings
are under way, made, or one failed (`Reports`). An order's sender adds `Separate`: each
account has its notice, is still listed or its notice failed, and the same for the mail
of whoever was through with the notice. A failure moves one account out of one column;
a trip's sender, which stops there, does not have this invariant and need not.

*Figures.* With short queries (`YoungOK`): an entry has at most the age of what it says,
since a reader stores what was true in the half minute it asked in, and from then on
both grow together; an entry goes before it is two half minutes old. In fair weather
(`FairOK`): the cache is empty before Redis was reached, a reader about to store holds
the current version, and a commit adds a deletion for every key it makes stale.

*History of a trip* (`TripOK`). The status shown is read from three tables the handlers
change one by one. While the stop is open, every live line is pending and no invoice is
live; once it is closed, no live line is pending and there is one. The last operation
says which of the two it is, or that no line is left.

The history itself (`HistoryOK`). Every time the tables show is the time of an operation,
and of one that left rows of that sort (`OutboundTold`, `InboundTold`, `LogsTold`): notes
from the rows that are or were pending, deleted ones included, a receipt or dispatch from
its invoices, the saves of a receiving note from the log. At the pace of people those
times lie further apart than any window, so a window holds one of them (`BatchesApart`),
and the time of a row tells its operation. Times of orders are not of that kind; they are
what `EditsElsewhere` allows.

*Codes.* `EachCodeOnce` says that requests which lock their
counters, fail and roll back never give the same code to two orders or invoices of one
hub. The invariant `CodesInv`: a row is locked exactly by the request that remembers its
old value; no code, given or about to be, is ahead of its counter; and none of another
request is ahead of the value a rollback would put back. The last is what makes a
rollback safe, and it holds because of the lock. Counters are rows of a hub and codes
show its prefix only: `OtherHubsOtherCodes` adds that a code shows the prefix its hub
prints (`Shown`), so hubs that print different prefixes give different codes.

*Offers.* Codes sort as numbers up to the padding, and past it a number with one digit
more comes among those with the same beginning (`AsText`). So the number after the
largest one read can be in use only when the largest read is the last below the padding
or beyond it (`FreeBelowPad`); otherwise the first candidate is free. From there the loop
steps past numbers in use only (`Offered`), and its last candidate is offered whether it
exists or not: with three digits and twenty rounds, 1019 is the first number that can be
offered although it is in use.

*Only model-checked.* Liveness, which is out of the prover's reach:
`LastConfirmationAssigns`, `ManagedRequestsEnd`, `FiguresCatchUp`, `EveryMailSettles`.
Every other property of the passing runs is the statement of a theorem. The violated
properties of section 4 have counterexamples and no theorems.

## 6. Not modelled

- *Sibling orders.* `consolidateSiblingOrdersByCode` and `mergeOutboundItemsForOrder`
  merge live rows that share an order code. Every module has one row per code; with
  several, the counters of a code are spread over rows and most statements above would
  need rephrasing.
- *Trip codes typed by a user*, in quick and batch intake: the handler has no check on
  them. A `confirmInbound` with a plate and no code, which allocates one as the batch
  intake does; a KEEP without a code; quantities missing from a request, which fall
  back to the contract.
- *An administrator without a hub*, but for dispatches, plans and their cancellation: not
  the receipts, quick intakes and cancellations of arrivals of one. A dispatch of one is
  modelled for orders that some hub keeps (`at`): the column read first, `currentHubId`,
  is left out of `WarehouseLedger`, so `at` is any hub; an order with neither column
  set, dispatched from no hub, is not modelled. The screens, the routine specification,
  the `on_the_road` run and the clerks at once have users of a hub only (`CorrectionSpec`
  and `ReopeningSpec`, proved about, have administrators).
- Weights, volumes, plates, drivers, free text, `stopSequence`; the kind of a load is
  given for the whole load where the code lets a line differ.
- A code reused after its order was deleted; two lines of one order on one trip.
- The corrections and the loading handlers by two clerks at once (`OutboundRace` has
  the daily handlers, receipts by hub staff, and intakes in one step). Other row locks
  than those named in section 2 are left out, which only adds interleavings. The `race`
  run has one order: a receipt that leaves another out needs two, which TLC explores
  in `left_out`, as far as the violation, and the proofs for any number.
- Requests that overlap at the office and the fleet desk, where a property needs
  requests that do not (`OneContract`, `NoPlanOutlivesItsOrder`): two at once break
  both, as section 4 says of `ContractLocked` and `RemovedOrderHasNoPlan`.
- What ends a refresh under way: it may be answered from a session deleted while it
  ran. `DeletedIsDeaf` speaks of refreshes that begin after the deletion.
- Paging, search, export files and the transaction list.
- The socket push of notices: sent to whoever is connected, never repeated.
- Vehicles, drivers, roles, statuses, files, i18n, configuration, seeds and
  migrations: row writes without a protocol, framework wiring. Calls to external
  identity providers; what the backend does with their answer is in `Accounts`.

## 7. Plan

1. What a vehicle loaded on the road still carries, next to `RidesItsTrip`.
2. Corrections and loading interleaved with the daily handlers in `OutboundRace`.
3. Consolidation of sibling rows as a function on a set of rows, against the sums it
   must preserve.
