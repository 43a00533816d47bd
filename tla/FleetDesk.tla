------------------------------ MODULE FleetDesk ------------------------------
(***************************************************************************)
(* The office and the fleet desk (src/trips/trips.service and               *)
(* src/orders/orders.service): contracts are edited, submitted to the       *)
(* fleet, split over vehicles, confirmed and removed.                       *)
(*                                                                          *)
(* None of these handlers locks what it reads, and only the override runs   *)
(* in a transaction, so here every database statement is a step and the     *)
(* requests of several clerks interleave.  A save writes the whole entity   *)
(* that was loaded: what another request changed meanwhile is overwritten,  *)
(* a row deleted meanwhile comes back.                                      *)
(***************************************************************************)
EXTENDS Naturals, FiniteSets

CONSTANTS
  Orders,        \* orders, all typed at the office already
  Clerks,        \* requests the server runs at the same time
  Notes,         \* trip codes of the warehouse's outbound notes
  NoNote,        \* the trip code of a line of the fleet desk: no one else's
  MaxLines,      \* bound on the allocation lines ever saved
  MaxQty,        \* bound on a contract quantity
  MaxOverrides   \* bound on the adjustment invoices of an order

ASSUME NotesAssumption == NoNote \notin Notes
ASSUME DeskBoundsAssumption == {MaxLines, MaxQty, MaxOverrides} \subseteq Nat

VARIABLES
  order,     \* the order table: status, contract quantity, soft deletion
  invoices,  \* adjustment invoices written for each order
  line,      \* the trip table, by row id
  stop,      \* trip_stop of each outbound note
  req        \* what each clerk's request has loaded and does next

vars == <<order, invoices, line, stop, req>>

Rows == 1 .. MaxLines
Fresh == {l \in Rows : line[l].status = "UNUSED"}
NextRow == CHOOSE l \in Fresh : \A k \in Fresh : l <= k

NoLine(status) == [status |-> status, order |-> CHOOSE o \in Orders : TRUE, live |-> FALSE,
                   plan |-> NoNote, trip |-> NoNote]
Line(o, plan, trip) == [status |-> "PENDING", order |-> o, live |-> TRUE, plan |-> plan, trip |-> trip]

LinesOf(o) == {l \in Rows : line[l].live /\ line[l].order = o}
Pending(o) == {l \in LinesOf(o) : line[l].status = "PENDING"}
LinesOn(n) == {l \in Rows : line[l].live /\ line[l].trip = n}
Confirmed(o) == LinesOf(o) # {} /\ \A l \in LinesOf(o) : line[l].status = "CONFIRMED"

Idle == [at |-> "idle"]
IsIdle(c) == req[c].at = "idle"
At(c, at) == req[c].at = at
Become(c, r) == req' = [req EXCEPT ![c] = r]
GoOn(c, at) == req' = [req EXCEPT ![c].at = at]
Finish(c) == Become(c, Idle)

Init ==
  /\ order = [o \in Orders |-> [status |-> "DRAFT", qty |-> 1, live |-> TRUE]]
  /\ invoices = [o \in Orders |-> 0]
  /\ line = [l \in Rows |-> NoLine("UNUSED")]
  /\ stop = [n \in Notes |-> "NONE"]
  /\ req = [c \in Clerks |-> Idle]

-----------------------------------------------------------------------------
(* TripsService.create: the order is looked up, then a line is saved.  The  *)
(* code of its trip comes from a sequence and is shared with nobody.        *)
Create(c, o) ==
  /\ IsIdle(c) /\ order[o].live
  /\ Become(c, [at |-> "create", order |-> o])
  /\ UNCHANGED <<order, invoices, line, stop>>

CreateSave(c) ==
  /\ At(c, "create") /\ Fresh # {}
  /\ line' = [line EXCEPT ![NextRow] = Line(req[c].order, NoNote, NoNote)]
  /\ Finish(c)
  /\ UNCHANGED <<order, invoices, stop>>

(* createSplit: the pending lines of the order go for good, then one line   *)
(* per vehicle is saved.                                                    *)
CreateSplit(c, o, vehicles) ==
  /\ IsIdle(c) /\ order[o].live
  /\ Become(c, [at |-> "unplan", order |-> o, left |-> vehicles])
  /\ UNCHANGED <<order, invoices, line, stop>>

SplitDelete(c) ==
  /\ At(c, "unplan")
  /\ line' = [l \in Rows |-> IF line[l].order = req[c].order /\ line[l].status = "PENDING"
                             THEN NoLine("GONE") ELSE line[l]]
  /\ GoOn(c, "plan")
  /\ UNCHANGED <<order, invoices, stop>>

SplitSave(c) ==
  /\ At(c, "plan") /\ Fresh # {}
  /\ line' = [line EXCEPT ![NextRow] = Line(req[c].order, c, NoNote)]
  /\ Become(c, IF req[c].left = 1 THEN Idle ELSE [req[c] EXCEPT !.left = @ - 1])
  /\ UNCHANGED <<order, invoices, stop>>

-----------------------------------------------------------------------------
(* confirm: the line is loaded with its order, saved as confirmed, and the  *)
(* order is assigned if all of its lines now read confirmed.                *)
Confirm(c, l) ==
  /\ IsIdle(c) /\ line[l].live
  /\ Become(c, [at |-> "confirm", row |-> l, line |-> line[l], order |-> line[l].order,
                copy |-> order[line[l].order]])
  /\ UNCHANGED <<order, invoices, line, stop>>

ConfirmSave(c) ==
  /\ At(c, "confirm")
  /\ line' = [line EXCEPT ![req[c].row] = [req[c].line EXCEPT !.status = "CONFIRMED"]]
  /\ GoOn(c, "check")
  /\ UNCHANGED <<order, invoices, stop>>

AllConfirmedEarlier(c) ==   \* mutant: the line counts as it was loaded
  Confirmed(req[c].order) /\ req[c].line.status = "CONFIRMED"
AllConfirmed(c) == Confirmed(req[c].order)

(* The order of a line is not loaded when it is deleted. *)
ConfirmCheck(c) ==
  /\ At(c, "check")
  /\ IF AllConfirmed(c) /\ req[c].copy.live THEN GoOn(c, "assign") ELSE Finish(c)
  /\ UNCHANGED <<order, invoices, line, stop>>

Promoted(c) == [req[c].copy EXCEPT !.status = "ASSIGNED"]
ConfirmAssign(c) ==
  /\ At(c, "assign")
  /\ order' = [order EXCEPT ![req[c].order] = Promoted(c)]
  /\ Finish(c)
  /\ UNCHANGED <<invoices, line, stop>>

(* update and remove of one line: no status is edited, and neither the      *)
(* order nor the stops of the trip are looked at.                           *)
UpdateTrip(c, l) ==
  /\ IsIdle(c) /\ line[l].live
  /\ Become(c, [at |-> "edit line", row |-> l, line |-> line[l]])
  /\ UNCHANGED <<order, invoices, line, stop>>

UpdateTripSave(c) ==
  /\ At(c, "edit line")
  /\ line' = [line EXCEPT ![req[c].row] = req[c].line]
  /\ Finish(c)
  /\ UNCHANGED <<order, invoices, stop>>

RemoveTrip(c, l) ==
  /\ IsIdle(c) /\ line[l].live
  /\ Become(c, [at |-> "remove line", row |-> l])
  /\ UNCHANGED <<order, invoices, line, stop>>

RemoveTripSave(c) ==
  /\ At(c, "remove line")
  /\ line' = [line EXCEPT ![req[c].row].live = FALSE]
  /\ Finish(c)
  /\ UNCHANGED <<order, invoices, stop>>

-----------------------------------------------------------------------------
(* OrdersService.update, submit and markNoVehicle load the order with its   *)
(* lines and invoices.  Saving it back fails when another line or invoice   *)
(* has appeared: the save would take it away from the order.                *)
Load(c, at, o, copy) ==
  /\ IsIdle(c) /\ order[o].live
  /\ Become(c, [at |-> at, order |-> o, copy |-> copy, lines |-> LinesOf(o), invoices |-> invoices[o]])
  /\ UNCHANGED <<order, invoices, line, stop>>

EditIgnoringStatus(o, q) == TRUE   \* mutant: a locked contract is edited
MayEdit(o, q) == order[o].status = "DRAFT" \/ order[o].qty = q

Update(c, o, q) == MayEdit(o, q) /\ Load(c, "save order", o, [order[o] EXCEPT !.qty = q])
Submit(c, o) == Load(c, "save order", o, [order[o] EXCEPT !.status = "PENDING_FLEET"])
MarkNoVehicle(c, o) == Load(c, "save order", o, [order[o] EXCEPT !.status = "NO_VEHICLE"])

SaveOrder(c) ==
  LET o == req[c].order
      alone == LinesOf(o) \subseteq req[c].lines /\ invoices[o] = req[c].invoices
  IN
  /\ At(c, "save order")
  /\ order' = IF alone THEN [order EXCEPT ![o] = req[c].copy] ELSE order
  /\ Finish(c)
  /\ UNCHANGED <<invoices, line, stop>>

(* adminOverride: the contract changes and an adjustment invoice says why. *)
AdminOverride(c, o, q) ==
  /\ IsIdle(c) /\ order[o].live
  /\ order[o].qty # q /\ invoices[o] < MaxOverrides
  /\ Become(c, [at |-> "override", order |-> o, copy |-> [order[o] EXCEPT !.qty = q]])
  /\ UNCHANGED <<order, invoices, line, stop>>

OverrideCommit(c) ==
  LET o == req[c].order IN
  /\ At(c, "override") /\ invoices[o] < MaxOverrides
  /\ order' = [order EXCEPT ![o] = req[c].copy]
  /\ invoices' = [invoices EXCEPT ![o] = @ + 1]
  /\ Finish(c)
  /\ UNCHANGED <<line, stop>>

-----------------------------------------------------------------------------
(* OrdersService.remove: the order, then its pending lines, then the stops  *)
(* of the notes that are left empty.  A warehouse manager removes drafts    *)
(* only.                                                                    *)
Remove(c, o, manager) ==
  /\ IsIdle(c) /\ order[o].live
  /\ manager => order[o].status = "DRAFT"
  /\ Become(c, [at |-> "remove order", order |-> o])
  /\ UNCHANGED <<order, invoices, line, stop>>

RemoveOrder(c) ==
  /\ At(c, "remove order")
  /\ order' = [order EXCEPT ![req[c].order].live = FALSE]
  /\ GoOn(c, "remove lines")
  /\ UNCHANGED <<invoices, line, stop>>

CascadeNotes(o) == {l \in Pending(o) : line[l].trip # NoNote}   \* mutant: lines of notes only
Cascade(o) == Pending(o)

RemoveLines(c) ==
  LET gone == Cascade(req[c].order) IN
  /\ At(c, "remove lines")
  /\ line' = [l \in Rows |-> [line[l] EXCEPT !.live = @ /\ l \notin gone]]
  /\ Become(c, [at |-> "remove stops", notes |-> {line[l].trip : l \in gone} \ {NoNote}])
  /\ UNCHANGED <<order, invoices, stop>>

(* Mutant: the stop stays as long as any row, deleted or not, names the trip. *)
EmptyForEver(n) == ~\E l \in Rows : line[l].trip = n
Empty(n) == LinesOn(n) = {}

RemoveStop(c, n) ==
  /\ At(c, "remove stops") /\ n \in req[c].notes
  /\ stop' = IF stop[n] = "PENDING" /\ Empty(n) THEN [stop EXCEPT ![n] = "DELETED"] ELSE stop
  /\ req' = [req EXCEPT ![c].notes = @ \ {n}]
  /\ UNCHANGED <<order, invoices, line>>

RemoveDone(c) ==
  /\ At(c, "remove stops") /\ req[c].notes = {}
  /\ Finish(c)
  /\ UNCHANGED <<order, invoices, line, stop>>

-----------------------------------------------------------------------------
(* The warehouse saves an outbound note: one transaction, as one step. *)
SaveNote(n, first, second) ==
  LET a == NextRow
      b == CHOOSE l \in Fresh \ {a} : TRUE
  IN
  /\ stop[n] = "NONE"
  /\ order[first].live /\ order[second].live
  /\ Cardinality(Fresh) >= 2
  /\ line' = IF first = second THEN [line EXCEPT ![a] = Line(first, n, n)]
             ELSE [line EXCEPT ![a] = Line(first, n, n), ![b] = Line(second, n, n)]
  /\ stop' = [stop EXCEPT ![n] = "PENDING"]
  /\ UNCHANGED <<order, invoices, req>>

-----------------------------------------------------------------------------
(* What a clerk asks for, and what the server does for it by itself. *)
PlanRequest(c) ==
  \E o \in Orders : Create(c, o) \/ \E v \in 1 .. 2 : CreateSplit(c, o, v)
ConfirmRequest(c) == \E l \in Rows : Confirm(c, l)
LineRequest(c) == \E l \in Rows : UpdateTrip(c, l) \/ RemoveTrip(c, l)
OrderRequest(c) ==
  \E o \in Orders :
    \/ \E q \in 1 .. MaxQty : Update(c, o, q) \/ AdminOverride(c, o, q)
    \/ Submit(c, o)
    \/ MarkNoVehicle(c, o)
RemoveRequest(c) == \E o \in Orders, manager \in BOOLEAN : Remove(c, o, manager)
Note == \E n \in Notes, a, b \in Orders : SaveNote(n, a, b)

Server(c) ==
  \/ CreateSave(c) \/ SplitDelete(c) \/ SplitSave(c)
  \/ ConfirmSave(c) \/ ConfirmCheck(c) \/ ConfirmAssign(c)
  \/ UpdateTripSave(c) \/ RemoveTripSave(c)
  \/ SaveOrder(c) \/ OverrideCommit(c)
  \/ RemoveOrder(c) \/ RemoveLines(c) \/ (\E n \in Notes : RemoveStop(c, n)) \/ RemoveDone(c)

Next ==
  \/ \E c \in Clerks : \/ PlanRequest(c) \/ ConfirmRequest(c) \/ LineRequest(c)
                       \/ OrderRequest(c) \/ RemoveRequest(c) \/ Server(c)
  \/ Note

(* The server finishes every request it has begun; nobody has to ask. *)
Fairness == \A c \in Clerks : WF_vars(Server(c))
Spec == Init /\ [][Next]_vars /\ Fairness

(* Planning and confirming only; removing only; editing only. *)
DispatchNext ==
  \E c \in Clerks : PlanRequest(c) \/ ConfirmRequest(c) \/ LineRequest(c) \/ Server(c)
DispatchSpec == Init /\ [][DispatchNext]_vars /\ Fairness

RemovalNext == Note \/ \E c \in Clerks : RemoveRequest(c) \/ Server(c)

ContractNext == \E c \in Clerks : OrderRequest(c) \/ Server(c)
ContractSpec == Init /\ [][ContractNext]_vars /\ Fairness

-----------------------------------------------------------------------------
(* Properties. *)

LineStatus == {"UNUSED", "GONE", "PENDING", "CONFIRMED"}

(* Rows and loaded copies keep the columns' types under every interleaving. *)
TypeOK ==
  /\ order \in [Orders -> [status : {"DRAFT", "PENDING_FLEET", "NO_VEHICLE", "ASSIGNED"},
                           qty : 1 .. MaxQty, live : BOOLEAN]]
  /\ invoices \in [Orders -> 0 .. MaxOverrides]
  /\ line \in [Rows -> [status : LineStatus, order : Orders, live : BOOLEAN,
                        plan : Clerks \cup Notes \cup {NoNote}, trip : Notes \cup {NoNote}]]
  /\ stop \in [Notes -> {"NONE", "PENDING", "DELETED"}]
  /\ \A l \in Rows : line[l].status \in {"UNUSED", "GONE"} => ~line[l].live

(* Whichever confirmations of an order run at the same time, one of them    *)
(* sees all lines confirmed and assigns the order, unless a line that is    *)
(* not confirmed turns up first: no lost last confirmation.                 *)
LastConfirmationAssigns ==
  \A c \in Clerks, o \in Orders :
    (At(c, "check") /\ req[c].order = o /\ req[c].copy.live /\ Confirmed(o))
      ~> (order[o].status = "ASSIGNED" \/ ~Confirmed(o))

(* When the last orders of a note are removed at the same time, one of the  *)
(* requests finds the note empty and takes its stop with it.                *)
NoGhostStop ==
  (\A c \in Clerks : IsIdle(c)) => \A n \in Notes : stop[n] = "PENDING" => LinesOn(n) # {}

(* What the source says of itself: kept by one request at a time, and not   *)
(* by interleaved ones.                                                     *)

(* trips.service.ts:121 "Xóa các chuyến pending cũ nếu phân bổ lại" (delete *)
(* the old pending trips when allocating again): the pending lines of an    *)
(* order are those of one allocation.                                       *)
SplitReplacesPlan ==
  (\A c \in Clerks : IsIdle(c)) =>
    \A o \in Orders : Cardinality({line[l].plan : l \in Pending(o)} \ {NoNote}) <= 1

(* orders-waybill-code.spec.ts:303 "should reject contract changes once the *)
(* order left DRAFT": then only an override changes it, with an invoice.    *)
KeepsContract ==
  \A o \in Orders : order[o].status # "DRAFT" /\ invoices'[o] = invoices[o] =>
    order'[o].qty = order[o].qty
ContractLocked == [][KeepsContract]_vars

(* orders.service.ts:830 "Tự động cascade xóa mềm các dòng chuyến xe nháp   *)
(* liên quan" (soft-delete the related draft lines too).                    *)
RemovedOrderHasNoPlan ==
  (\A c \in Clerks : IsIdle(c)) => \A o \in Orders : ~order[o].live => Pending(o) = {}
=============================================================================
