---------------------------- MODULE OutboundRace ----------------------------
(***************************************************************************)
(* Two clerks of the hub warehouses at work at the same time.  PostgreSQL   *)
(* runs every handler of src/orders/warehouse.service at READ COMMITTED and *)
(* no handler locks the rows it reads: between what a handler reads and     *)
(* what it commits, the handlers of other clerks commit.  A handler is      *)
(* split here where it matters: what it loads and checks first; for a       *)
(* dispatch, the stock it reads once it holds the counter of its invoice    *)
(* codes; and its commit, which saves the orders as they were loaded.       *)
(*                                                                          *)
(* The row locks that do exist are those of writes: the invoice counter of  *)
(* a hub and kind, the planned lines of a note that is confirmed or         *)
(* cancelled, and the orders a receipt has saved before it sorts out what   *)
(* was left on the vehicle.                                                 *)
(***************************************************************************)
EXTENDS WarehouseLedger

CONSTANT Clerks

VARIABLE req   \* the handler each clerk has under way

raceVars == <<order, ledger, line, stop, lastTrip, req>>

Idle == [op |-> "NONE"]
RaceInit == Init /\ req = [c \in Clerks |-> Idle]

Free(c) == req[c] = Idle
Begin(c, r) == req' = [req EXCEPT ![c] = r]
End(c) == req' = [req EXCEPT ![c] = Idle]

(* orderRepo.save(orders): whole rows, as they were loaded and changed. *)
Save(copies) == [o \in Orders |-> IF o \in DOMAIN copies THEN copies[o] ELSE order[o]]

-----------------------------------------------------------------------------
(* confirmOutbound. *)

(* The orders are loaded and the saved note is recognised; the code is      *)
(* drawn from a sequence, which no rollback takes back.                     *)
LoadDispatch(c, h, load, to, note) ==
  LET S == DOMAIN load
      t == TripFor(note)
  IN
  /\ Free(c) /\ t <= MaxTrips
  /\ note # NoTrip => OutboundDraft(note, h)
  /\ \A o \in S : IsLive(o) /\ ~IsDraft(o)
  /\ lastTrip' = IF note = NoTrip THEN t ELSE lastTrip
  /\ Begin(c, [op |-> "DISPATCH", checked |-> FALSE, hub |-> h, load |-> load, to |-> to,
               note |-> note, trip |-> t, seen |-> [o \in S |-> order[o].rem],
               copies |-> [o \in S |-> DispatchedOrder(o, t, load[o], to)]])
  /\ UNCHANGED <<order, ledger, line, stop>>

(* Mutant: the invoice code is drawn after the stock is read. *)
LocksNoteOnly(r) == {<<"note", r.note>>} \ {<<"note", NoTrip>>}

(* Rows a dispatch has written before it reads the stock: the lines of its  *)
(* note, and the counter of its invoice codes.                              *)
Locks(r) ==
  {<<r.hub, OutKind(r.to)>>} \cup ({<<"note", r.note>>} \ {<<"note", NoTrip>>})

(* Rows a receipt has written before it sorts out: the orders it books and  *)
(* the counter of its invoice codes.                                        *)
ReceiptLocks(r) ==
  {<<"order", o>> : o \in r.booked} \cup {<<r.hub, "INBOUND">> : o \in r.booked}

Checked(d) == req[d].op = "DISPATCH" /\ req[d].checked
Sorted(d) == req[d].op = "RECEIVE" /\ req[d].sorted

(* A row another transaction has written and not committed cannot be        *)
(* written.                                                                 *)
MayWrite(c, locks) ==
  \A d \in Clerks \ {c} :
    /\ Checked(d) => Locks(req[d]) \cap locks = {}
    /\ Sorted(d) => ReceiptLocks(req[d]) \cap locks = {}

(* Stock the handler grants; a hub without ledger falls back on the counter *)
(* of the order it loaded.                                                  *)
Granted(r, o) ==
  IF HasLedgerAt(o, r.hub) THEN Available(o, r.hub, r.note)
  ELSE Monus(r.seen[o], Reserved(o, r.hub, r.note))

CheckStock(c) ==
  LET r == req[c] IN
  /\ r.op = "DISPATCH" /\ ~r.checked
  /\ MayWrite(c, Locks(r))
  /\ IF \A o \in DOMAIN r.load : r.load[o] <= Granted(r, o)
     THEN Begin(c, [r EXCEPT !.checked = TRUE])
     ELSE End(c)
  /\ UNCHANGED vars

CommitDispatch(c) ==
  LET r == req[c]
      S == DOMAIN r.load
  IN
  /\ Checked(c)
  /\ MayWrite(c, {<<"order", o>> : o \in S})
  /\ \A o \in S : Fits(o)
  /\ order' = Save(r.copies)
  /\ ledger' = [o \in Orders |-> IF o \in S THEN Append(ledger[o], Row(OutKind(r.to), r.hub, r.trip, r.load[o]))
                                 ELSE ledger[o]]
  /\ line' = [line EXCEPT ![r.trip] = Planned(r.trip, r.hub, r.load, r.to, "IN_TRANSIT")]
  /\ stop' = [stop EXCEPT ![r.trip] =
                Upsert(Upsert(@, {r.hub}, "COMPLETED"), Targets(S, r.hub, r.to), "PENDING")]
  /\ End(c)
  /\ UNCHANGED lastTrip

-----------------------------------------------------------------------------
(* saveOutboundDraft on a fresh code, and cancelOutboundDraft. *)

LoadPlan(c, h, load, to) ==
  /\ Free(c) /\ lastTrip < MaxTrips
  /\ \A o \in DOMAIN load : IsLive(o) /\ load[o] <= DraftAvailable(o, h, NoTrip)
  /\ lastTrip' = lastTrip + 1
  /\ Begin(c, [op |-> "PLAN", hub |-> h, load |-> load, to |-> to, trip |-> lastTrip'])
  /\ UNCHANGED <<order, ledger, line, stop>>

CommitPlan(c) ==
  LET r == req[c] IN
  /\ r.op = "PLAN"
  /\ line' = [line EXCEPT ![r.trip] = Planned(r.trip, r.hub, r.load, r.to, "PENDING")]
  /\ stop' = [stop EXCEPT ![r.trip] = Upsert(@, {r.hub} \cup ({r.to} \ {NoHub}), "PENDING")]
  /\ End(c)
  /\ UNCHANGED <<order, ledger, lastTrip>>

LoadCancelNote(c, h, t) ==
  /\ Free(c) /\ OutboundDraft(t, h)
  /\ Begin(c, [op |-> "CANCEL_NOTE", trip |-> t])
  /\ UNCHANGED vars

(* The lines are deleted by id, so a dispatch's own lines stay; the stops   *)
(* are deleted by trip code and status.                                     *)
CommitCancelNote(c) ==
  LET t == req[c].trip IN
  /\ req[c].op = "CANCEL_NOTE"
  /\ MayWrite(c, {<<"note", t>>})
  /\ line' = [line EXCEPT ![t] = [o \in Orders |-> IF @[o].status = "PENDING" THEN DeletedLine ELSE @[o]]]
  /\ stop' = [stop EXCEPT ![t] = DropPending(@, Hubs)]
  /\ End(c)
  /\ UNCHANGED <<order, ledger, lastTrip>>

-----------------------------------------------------------------------------
(* confirmInbound of a vehicle, by hub staff. *)

LoadReceive(c, h, t, got) ==
  LET S == DOMAIN got IN
  /\ Free(c)
  /\ MayEditStop(t, h, FALSE)
  /\ \A o \in S : IsLive(o)
  /\ Begin(c, [op |-> "RECEIVE", hub |-> h, trip |-> t, got |-> got,
               booked |-> {o \in S : ~Skipped(o, h, FALSE, t)},
               copies |-> [o \in S |-> ReceivedOrder(o, h, FALSE, t, got[o])],
               sorted |-> FALSE, gone |-> {}, dead |-> {}])
  /\ UNCHANGED vars

(* The lines left out of the note are listed and deleted, and their orders  *)
(* looked up: those to be removed (`dead`), and those whose trip is to be   *)
(* taken off, in whole copies.                                              *)
SortOut(c) ==
  LET r == req[c]
      gone == Removed(r.trip, r.hub, DOMAIN r.got, FALSE)
      dead == {o \in gone : Orphan(o, r.trip)}
      freed == {o \in gone \ dead : IsLive(o) /\ order[o].trip = r.trip}
  IN
  /\ r.op = "RECEIVE" /\ ~r.sorted
  /\ MayWrite(c, ReceiptLocks(r))
  /\ Begin(c, [r EXCEPT !.sorted = TRUE, !.gone = gone, !.dead = dead,
                        !.copies = [o \in DOMAIN @ \cup freed |->
                                      IF o \in freed THEN [order[o] EXCEPT !.trip = NoTrip] ELSE @[o]]])
  /\ UNCHANGED vars

(* The orders to be removed are soft-deleted by id, whatever became of them *)
(* since they were looked up.                                               *)
CommitReceive(c) ==
  LET r == req[c]
      t == r.trip
      stops == ReceivedStops(t, r.hub, FALSE)
      unloaded(o) == IF LiveLine(t, o) THEN [line[t][o] EXCEPT !.qty = r.got[o], !.status = "COMPLETED"]
                     ELSE Line("COMPLETED", "INBOUND", r.hub, r.got[o])
  IN
  /\ Sorted(c)
  /\ MayWrite(c, {<<"order", o>> : o \in r.dead \cup DOMAIN r.copies})
  /\ \A o \in r.booked : Fits(o)
  /\ order' = [o \in Orders |-> IF o \in r.dead THEN [order[o] EXCEPT !.live = FALSE] ELSE Save(r.copies)[o]]
  /\ ledger' = [o \in Orders |-> IF o \in r.booked THEN Append(ledger[o], Row("INBOUND", r.hub, t, r.got[o]))
                                 ELSE ledger[o]]
  /\ stop' = [stop EXCEPT ![t] = stops]
  /\ line' = [line EXCEPT ![t] = [o \in Orders |->
                Sweep(IF o \in r.booked THEN unloaded(o) ELSE IF o \in r.gone THEN DeletedLine ELSE @[o],
                      ~AnyPending(stops))]]
  /\ End(c)
  /\ UNCHANGED lastTrip

-----------------------------------------------------------------------------
(* cancelInboundDraft and updateTransitStep: checked outside the write. *)

LoadCancelDraft(c, h, t) ==
  /\ Free(c)
  /\ stop[t][h] = "PENDING" \/ \E o \in Orders : line[t][o].status = "PENDING"
  /\ Begin(c, [op |-> "CANCEL_DRAFT", hub |-> h, trip |-> t, listed |-> FALSE, stored |-> {}])
  /\ UNCHANGED vars

(* The pending lines are listed first, with the status of their orders.     *)
ListPending(c) ==
  LET r == req[c]
      stored == {o \in Orders : line[r.trip][o].status = "PENDING" /\ order[o].status \notin {"DRAFT", "PENDING"}}
  IN
  /\ r.op = "CANCEL_DRAFT" /\ ~r.listed
  /\ Begin(c, [r EXCEPT !.listed = TRUE, !.stored = stored])
  /\ UNCHANGED vars

(* The UPDATEs look at each status again; the orders listed as stored are   *)
(* reconciled whatever they are by now.  The order rows the first UPDATE    *)
(* writes stay locked to the commit, so one step may do all of them.        *)
CommitCancelDraft(c) ==
  LET r == req[c]
      t == r.trip
      dead == {o \in Orders : order[o].status \in {"DRAFT", "PENDING"} /\ line[t][o].status # "NONE"}
  IN
  /\ r.op = "CANCEL_DRAFT" /\ r.listed
  /\ MayWrite(c, {<<"note", t>>} \cup {<<"order", o>> : o \in dead \cup r.stored})
  /\ order' = [o \in Orders |-> IF o \in dead THEN [order[o] EXCEPT !.live = FALSE]
                                ELSE IF o \in r.stored THEN Reconciled(o, t) ELSE order[o]]
  /\ line' = [line EXCEPT ![t] = [o \in Orders |-> IF @[o].status = "PENDING" THEN DeletedLine ELSE @[o]]]
  /\ stop' = [stop EXCEPT ![t] = DropPending(@, {r.hub})]
  /\ End(c)
  /\ UNCHANGED <<ledger, lastTrip>>

LoadTransit(c, h, t) ==
  /\ Free(c)
  /\ MayEditStop(t, h, FALSE)
  /\ \A o \in LiveLines(t) : IsLive(o) => ~IsDraft(o)
  /\ Begin(c, [op |-> "TRANSIT", hub |-> h, trip |-> t])
  /\ UNCHANGED vars

(* A soft-deleted stop row still occupies the key: the insert fails. *)
CommitTransit(c) ==
  LET r == req[c] IN
  /\ r.op = "TRANSIT"
  /\ stop' = IF stop[r.trip][r.hub] = "DELETED" THEN stop
             ELSE [stop EXCEPT ![r.trip][r.hub] = "COMPLETED"]
  /\ End(c)
  /\ UNCHANGED <<order, ledger, line, lastTrip>>

-----------------------------------------------------------------------------
(* Stock comes in at a gate, and draft orders on a vehicle, in one step:    *)
(* rows nobody else knows of.                                               *)
NewStock ==
  \E o \in Orders, h \in Hubs, q \in 1 .. MaxTotal :
    IsUnborn(o) /\ QuickCreateInbound(o, h, q, FALSE) /\ UNCHANGED req
NewDraftOnVehicle ==
  \E o \in Orders, h \in Hubs, q \in 1 .. MaxQty :
    IsUnborn(o) /\ BatchCreateInbound(h, [p \in {o} |-> q], {o}) /\ UNCHANGED req

(* A receiving note that lists new goods on a vehicle is saved meanwhile.   *)
NewDraftOnNote(c) ==
  \E o \in Orders, h \in Hubs, t \in Codes, q \in 1 .. MaxQty :
    Free(c) /\ IsUnborn(o) /\ SaveInboundDraft(h, FALSE, t, [p \in {o} |-> q]) /\ UNCHANGED req

(* More goods of a live order are handed in at a gate, of whichever hub.    *)
GateIntake(c) ==
  \E o \in Orders, h \in Hubs, q \in 1 .. MaxQty :
    /\ Free(c) /\ IsLive(o)
    /\ MayWrite(c, {<<"order", o>>, <<h, "INBOUND">>})
    /\ QuickCreateInbound(o, h, q, FALSE) /\ UNCHANGED req

(* A handler fails, or PostgreSQL ends it to break a circular wait.         *)
RollBack(c) == ~Free(c) /\ End(c) /\ UNCHANGED vars

Finish(c) ==
  \/ CheckStock(c) \/ CommitDispatch(c) \/ CommitPlan(c) \/ CommitCancelNote(c)
  \/ SortOut(c) \/ CommitReceive(c) \/ ListPending(c) \/ CommitCancelDraft(c)
  \/ CommitTransit(c) \/ RollBack(c)

Dispatches(c, targets) ==
  \E h \in Hubs, load \in Cargo, to \in targets, note \in Codes \cup {NoTrip} :
    to # h /\ LoadDispatch(c, h, load, to, note)
Plans(c, targets) ==
  \E h \in Hubs, load \in Cargo, to \in targets : to # h /\ LoadPlan(c, h, load, to)
Receives(c) == \E h \in Hubs, t \in Codes, got \in Cargo : LoadReceive(c, h, t, got)
Cancels(c) == \E h \in Hubs, t \in Codes : LoadCancelNote(c, h, t) \/ LoadCancelDraft(c, h, t)
Passes(c) == \E h \in Hubs, t \in Codes : LoadTransit(c, h, t)

(* Everything two clerks may do at once. *)
RaceNext ==
  \/ NewStock \/ NewDraftOnVehicle
  \/ \E c \in Clerks :
       \/ Finish(c) \/ Dispatches(c, Hubs \cup {NoHub}) \/ Plans(c, Hubs \cup {NoHub})
       \/ Receives(c) \/ Cancels(c) \/ Passes(c) \/ NewDraftOnNote(c) \/ GateIntake(c)
RaceSpec == RaceInit /\ [][RaceNext]_raceVars

(* Two clerks dispatch at once, from hubs that have a ledger of the order:  *)
(* only to other hubs, or also to customers.                                *)
HasLedger(c) == req'[c].op = "DISPATCH" => \A o \in DOMAIN req'[c].load : HasLedgerAt(o, req'[c].hub)
DeskNext(targets) ==
  \/ NewStock
  \/ \E c \in Clerks :
       \/ Finish(c) \/ (Dispatches(c, targets) /\ HasLedger(c))
       \/ Plans(c, targets) \/ Receives(c) \/ \E h \in Hubs, t \in Codes : LoadCancelNote(c, h, t)
TransferDeskSpec == RaceInit /\ [][DeskNext(Hubs)]_raceVars
DeskSpec == RaceInit /\ [][DeskNext(Hubs \cup {NoHub})]_raceVars

-----------------------------------------------------------------------------
(* Properties. *)

(* warehouse.service.ts:3957 "Validates that `tripCode` is an outbound      *)
(* draft of the acting hub (planned lines only, no dispatch invoice yet)":  *)
(* a note is shipped once, however often its confirmation is clicked.       *)
NoteShipsOnce ==
  \A o \in Orders, t \in Trips : Cardinality(RowsOn(o, Dispatch, t)) <= 1

(* warehouse.service.ts:3173 "Đơn tạo mới theo chuyến xe nhưng bị xóa khi   *)
(* nhận xe (thực tế không có hàng)" [an order that came into being with the *)
(* vehicle and is deleted when it is received: there are no goods in fact]: *)
(* no order left out of a receipt has an invoice, even when another hub     *)
(* takes goods of it in while the receipt is under way.                     *)
LeftOutHadNoGoods ==
  \A o \in Orders, t \in Trips :
    ~IsLive(o) /\ line[t][o].status = "DELETED" => Rows(o, Kinds) = {}

(* warehouse.service.ts:6676 "If any order associated with this trip is in  *)
(* DRAFT/WAITING/PENDING, the transit step cannot transition to COMPLETED". *)
TransitRefusesDrafts ==
  [][\A c \in Clerks, t \in Trips, h \in Hubs :
       /\ req[c].op = "TRANSIT" /\ req'[c] = Idle
       /\ stop[t][h] # "COMPLETED" /\ stop'[t][h] = "COMPLETED"
       => \A o \in LiveLines(t) : IsLive(o) => ~IsDraft(o)]_raceVars
=============================================================================
