---------------------------- MODULE TripTimeline ----------------------------
(***************************************************************************)
(* The history of one trip code as getTripHistory shows it                  *)
(* (src/orders/warehouse.service).  Nobody writes that history down: it is  *)
(* reconstructed from what the handlers leave behind, the allocation lines  *)
(* (soft-deleted ones included) with their timestamps, the live invoices    *)
(* and the activity log, grouped by windows of a few seconds.  Beside these *)
(* tables the module keeps what really happened, `told`.                    *)
(*                                                                          *)
(* One tick of the clock is two seconds.                                    *)
(***************************************************************************)
EXTENDS SequencesExt, FiniteSets, Integers

CONSTANTS
  Orders,    \* orders that travel on the trip
  Pace,      \* least time between two operations on the trip
  MaxTime,   \* bound on the clock
  MaxSteps   \* bound on the operations

ASSUME {Pace, MaxTime, MaxSteps} \subseteq Nat

VARIABLES
  now,
  lines,     \* trip rows of the code, oldest first
  invoices,  \* invoices of the code, oldest first
  logs,      \* activity log rows of the code
  closed,    \* the stop of the hub is COMPLETED
  upserted,  \* when that stop was last changed
  draft,     \* orders that are draft-like: existing ones, and those typed with a note
  changed,   \* when each order was last changed, as far as a receiving note shows it
  coming,    \* orders with a pending receiving line on another code
  told       \* what was really done, oldest first

tables == <<lines, invoices, logs, closed, upserted, draft, changed, coming>>
vars == <<now, tables, told>>

(* 2500 ms and 3000 ms hold one tick, 5000 ms holds two. *)
BatchWindow == 1
AtOnce == 2

Line(o, kind, status) ==
  [order |-> o, kind |-> kind, status |-> status, note |-> status = "PENDING",
   born |-> now, touched |-> now, live |-> TRUE]
Lines(S, kind, status) == LET s == SetToSeq(S) IN [i \in DOMAIN s |-> Line(s[i], kind, status)]
Invoices(S, kind) ==
  LET s == SetToSeq(S) IN [i \in DOMAIN s |-> [order |-> s[i], kind |-> kind, at |-> now, live |-> TRUE]]
Logged(S, action) == logs \cup {[action |-> action, order |-> o, at |-> now] : o \in S}

Live == {i \in DOMAIN lines : lines[i].live}
LiveOrders == {lines[i].order : i \in Live}
LiveInvoices == {i \in DOMAIN invoices : invoices[i].live}
Is(kind) == \E i \in DOMAIN lines : lines[i].kind = kind
Fresh == lines = <<>>

(* Every row of S that is still there changes. *)
Change(rows, S, new(_)) ==
  [i \in DOMAIN rows |-> IF rows[i].live /\ rows[i].order \in S THEN new(rows[i]) ELSE rows[i]]
Dropped(l) == [l EXCEPT !.live = FALSE, !.touched = now]
NoteOrders == {lines[i].order : i \in DOMAIN lines}
Rewritten(S) == changed' = [o \in Orders |-> IF o \in S THEN now ELSE changed[o]]

Done(what) ==
  /\ Len(told) < MaxSteps
  /\ told # <<>> => now - Last(told).at >= Pace
  /\ told' = Append(told, [what |-> what, at |-> now])
  /\ UNCHANGED now

Init ==
  /\ now = 0 /\ lines = <<>> /\ invoices = <<>> /\ logs = {} /\ told = <<>>
  /\ closed = FALSE /\ upserted = 0 /\ changed = [o \in Orders |-> 0]
  /\ draft \in SUBSET Orders /\ coming \in SUBSET Orders

Tick == now < MaxTime /\ now' = now + 1 /\ UNCHANGED <<tables, told>>

-----------------------------------------------------------------------------
(* A note of a dispatching hub. *)

IsNote ==
  /\ Is("OUTBOUND") /\ Live # {}
  /\ \A i \in Live : lines[i].status = "PENDING"
  /\ LiveInvoices = {}

SaveNote(S) ==
  /\ Fresh \/ IsNote
  /\ lines' = Change(lines, Orders, Dropped) \o Lines(S, "OUTBOUND", "PENDING")
  /\ upserted' = now
  /\ UNCHANGED <<invoices, logs, closed, draft, changed, coming>>
  /\ Done("SAVED")

ConfirmNote(S) ==
  /\ Fresh \/ IsNote
  /\ S \cap draft = {}
  /\ lines' = Change(lines, Orders, Dropped) \o Lines(S, "OUTBOUND", "IN_TRANSIT")
  /\ invoices' = invoices \o Invoices(S, "OUTBOUND")
  /\ closed' = TRUE /\ upserted' = now
  /\ UNCHANGED <<logs, draft, changed, coming>>
  /\ Done("SHIPPED")

CancelNote ==
  /\ IsNote
  /\ lines' = Change(lines, Orders, Dropped)
  /\ logs' = Logged(LiveOrders, "CANCELLED")
  /\ UNCHANGED <<invoices, closed, upserted, draft, changed, coming>>
  /\ Done("CANCELLED")

(* A draft order of the note is received from another vehicle. *)
ReceiveElsewhere(o) ==
  /\ o \in draft \cup coming
  /\ draft' = draft \ {o} /\ coming' = coming \ {o}
  /\ UNCHANGED <<now, lines, invoices, logs, closed, upserted, changed, told>>

(* A draft order of a receiving note is changed by something else than the *)
(* note: an edit of the order, another vehicle's note.                     *)
EditOrder(o) ==
  /\ Is("INBOUND") /\ o \in NoteOrders \cap draft /\ o \in LiveOrders \cup coming
  /\ Rewritten({o})
  /\ UNCHANGED <<now, lines, invoices, logs, closed, upserted, draft, coming, told>>

-----------------------------------------------------------------------------
(* A receiving note, from gate intake or typed for an arriving vehicle. *)

Received(l) == [l EXCEPT !.status = "COMPLETED", !.touched = now]
Touched(l) == [l EXCEPT !.touched = now]

IntakeDraft(S) ==
  /\ Fresh
  /\ lines' = Lines(S, "INBOUND", "PENDING")
  /\ Rewritten(S) /\ upserted' = now
  /\ UNCHANGED <<invoices, logs, closed, draft, coming>>
  /\ Done("SAVED")

Intake(S) ==
  /\ Fresh
  /\ lines' = Lines(S, "INBOUND", "COMPLETED")
  /\ invoices' = Invoices(S, "INBOUND")
  /\ Rewritten(S) /\ draft' = draft \ S
  /\ closed' = TRUE /\ upserted' = now
  /\ UNCHANGED <<logs, coming>>
  /\ Done("RECEIVED")

(* Lines left out of the note are taken off it, new ones are added. *)
Listed(S, status, new(_)) ==
  Change(Change(lines, Orders \ S, Dropped), S, new) \o Lines(S \ LiveOrders, "INBOUND", status)

(* An order taken off the note is deleted, or its current trip is cleared: *)
(* unless it also waits on another code and no longer names this one.      *)
OrdersListed(S) == \E others \in SUBSET (coming \ S) : Rewritten(S \cup (LiveOrders \ others))

SaveReceipt(S) ==
  /\ Is("INBOUND") /\ Live # {} /\ ~closed
  /\ lines' = Listed(S, "PENDING", Touched)
  /\ logs' = Logged(S, "SAVED")
  /\ OrdersListed(S) /\ upserted' = now
  /\ UNCHANGED <<invoices, closed, draft, coming>>
  /\ Done("SAVED")

Receive(S) ==
  /\ Is("INBOUND") /\ Live # {} /\ ~closed
  /\ lines' = Listed(S, "COMPLETED", Received)
  /\ invoices' = invoices \o Invoices(S, "INBOUND")
  /\ OrdersListed(S) /\ draft' = draft \ S
  /\ closed' = TRUE /\ upserted' = now
  /\ UNCHANGED <<logs, coming>>
  /\ Done("RECEIVED")

(* keepTripPending: some orders are taken off the vehicle, which stays. *)
ReceivePart(S) ==
  /\ Is("INBOUND") /\ Live # {} /\ ~closed /\ S \subseteq LiveOrders
  /\ lines' = Change(lines, S, Touched)
  /\ invoices' = invoices \o Invoices(S, "INBOUND")
  /\ Rewritten(S) /\ draft' = draft \ S
  /\ upserted' = now
  /\ UNCHANGED <<logs, closed, coming>>
  /\ Done("PART_RECEIVED")

(* cancelInboundDraft leaves no log of its own, and no time of change. *)
CancelReceipt ==
  /\ Is("INBOUND") /\ \E i \in Live : lines[i].status = "PENDING"
  /\ lines' = [i \in DOMAIN lines |-> IF lines[i].live /\ lines[i].status = "PENDING"
                                      THEN [lines[i] EXCEPT !.live = FALSE] ELSE lines[i]]
  /\ UNCHANGED <<invoices, logs, closed, upserted, draft, changed, coming>>
  /\ Done("CANCELLED")

(* Mutant: a rolled-back line keeps its status. *)
ReopenedAsIs(l) == [l EXCEPT !.touched = now]

(* rollbackTrip, by an administrator: invoices are deleted, lines reopened, *)
(* and an order of which nothing is left in stock waits again.             *)
Reopened(l) == [l EXCEPT !.status = "PENDING", !.touched = now]

Rollback ==
  /\ Live # {} /\ closed
  /\ lines' = Change(lines, Orders, Reopened)
  /\ invoices' = [i \in DOMAIN invoices |-> [invoices[i] EXCEPT !.live = FALSE]]
  /\ logs' = Logged(LiveOrders, "ROLLED_BACK")
  /\ LET back == {invoices[i].order : i \in LiveInvoices} IN
       /\ Rewritten(back)
       /\ \E waiting \in SUBSET (IF Is("INBOUND") THEN back ELSE {}) : draft' = draft \cup waiting
  /\ closed' = FALSE /\ upserted' = now
  /\ UNCHANGED coming
  /\ Done("ROLLED_BACK")

-----------------------------------------------------------------------------
(* getTripHistory. *)

(* Rows or logs created within a window of the first of them are one step:  *)
(* a batch starts where none began within the window before.                *)
Batches(times) ==
  CHOOSE starts \in SUBSET times :
    \A t \in times : t \in starts <=> \A u \in starts : u < t => t - u > BatchWindow
Step(what, times) == {[what |-> what, at |-> t] : t \in times}

LogTimes(action) == {l.at : l \in {k \in logs : k.action = action}}
InvoiceTimes == {invoices[i].at : i \in LiveInvoices}
Earliest(times) == CHOOSE t \in times : \A u \in times : t <= u
Born == lines[1].born

(* A trip received as soon as it was typed was never a draft. *)
Created ==
  IF InvoiceTimes # {} /\ Earliest(InvoiceTimes) - Born <= AtOnce THEN {} ELSE {Born}

(* Without a log of a save, one is guessed: the last change of a line, of   *)
(* the pending stop or of a draft order of the note.                        *)
ChangeTimes ==
  {lines[i].touched : i \in DOMAIN lines} \cup {changed[o] : o \in NoteOrders \cap draft}
    \cup (IF closed THEN {} ELSE {upserted})
Guessed ==
  LET edits == {t \in ChangeTimes :
                  /\ t > Born + BatchWindow
                  /\ InvoiceTimes # {} => t < Earliest(InvoiceTimes) - BatchWindow}
  IN {t \in edits : \A u \in edits : u <= t}
Edited == IF LogTimes("SAVED") # {} THEN Batches(LogTimes("SAVED")) ELSE Guessed

(* Mutant: deleted rows are not read. *)
NotesLiveOnly == Batches({lines[i].born : i \in {j \in Live : lines[j].note \/ lines[j].status = "PENDING"}})
Notes == Batches({lines[i].born : i \in {j \in DOMAIN lines : lines[j].note \/ lines[j].status = "PENDING"}})

(* The confirmations are told from the live invoices: every batch of a     *)
(* receipt, the first row of a dispatch.                                    *)
Receipts == Batches(InvoiceTimes)
Shipments == IF InvoiceTimes = {} THEN {} ELSE {Earliest(InvoiceTimes)}
Special ==
  Step("ROLLED_BACK", Batches(LogTimes("ROLLED_BACK"))) \cup Step("CANCELLED", Batches(LogTimes("CANCELLED")))

Timeline ==
  Special \cup
  IF Fresh THEN {}
  ELSE IF Is("INBOUND")
  THEN Step("SAVED", Created \cup Edited) \cup Step("RECEIVED", Receipts)
  ELSE Step("SAVED", Notes) \cup Step("SHIPPED", Shipments)

Status ==
  IF Live = {} THEN "CANCELLED"
  ELSE IF \/ \E i \in Live : lines[i].status \in {"COMPLETED", "IN_TRANSIT"}
          \/ LiveInvoices # {} \/ closed
       THEN "COMPLETED" ELSE "PENDING"

Blockers ==
  IF Is("OUTBOUND") /\ Status = "PENDING" THEN LiveOrders \cap (draft \cup coming) ELSE {}

-----------------------------------------------------------------------------
Items == (SUBSET Orders) \ {{}}

(* A trip from its first draft to its confirmation. *)
ForwardNext ==
  \/ Tick
  \/ \E o \in Orders : ReceiveElsewhere(o) \/ EditOrder(o)
  \/ CancelNote
  \/ \E S \in Items :
       SaveNote(S) \/ ConfirmNote(S) \/ IntakeDraft(S) \/ Intake(S) \/ SaveReceipt(S) \/ Receive(S)
ForwardSpec == Init /\ [][ForwardNext]_vars

(* The same with cancelled receipts and an administrator's rollbacks. *)
Next == ForwardNext \/ CancelReceipt \/ Rollback
Spec == Init /\ [][Next]_vars

(* A vehicle unloaded in parts. *)
PartsSpec == Init /\ [][ForwardNext \/ \E S \in Items : ReceivePart(S)]_vars

-----------------------------------------------------------------------------
(* Properties. *)

(* Until a trip is confirmed or cancelled, the reconstructed history holds  *)
(* the real one: every save, confirmation and cancellation is shown at its  *)
(* time, although each save replaces the rows of the one before.  It shows  *)
(* nothing else but one save of a receiving note that nobody saved again,   *)
(* at the time a draft order of it was changed elsewhere.                   *)
EditsElsewhere ==
  IF Is("INBOUND") /\ LogTimes("SAVED") = {} THEN {changed[o] : o \in NoteOrders \cap draft} ELSE {}
TimelineIsHistory ==
  /\ ToSet(told) \subseteq Timeline
  /\ Timeline \subseteq ToSet(told) \cup Step("SAVED", EditsElsewhere)

(* The state shown for the trip is the one its last operation left. *)
StatusIsTrue ==
  told # <<>> =>
    CASE Last(told).what \in {"SAVED", "ROLLED_BACK"} -> Status = "PENDING"
      [] Last(told).what \in {"SHIPPED", "RECEIVED"} -> Status = "COMPLETED"
      [] Last(told).what = "CANCELLED" -> Status = "CANCELLED"

(* warehouse.service.ts:7912 "Retrieve complete chronological history &     *)
(* operational audit trail of a Trip": nothing that was done is missing.    *)
NothingForgotten == ToSet(told) \subseteq Timeline

(* The same comment: nothing is shown that was not done. *)
NothingInvented == Timeline \subseteq ToSet(told)

(* warehouse.service.ts:3271, logged for an order taken off a vehicle that  *)
(* stays: "chuyến xe giữ trạng thái Chờ xử lý" (the trip keeps its pending *)
(* status).                                                                 *)
PartKeepsPending == told # <<>> /\ Last(told).what = "PART_RECEIVED" => Status = "PENDING"

(* warehouse.service.ts:7914 "active confirmation blockers (e.g.            *)
(* unconfirmed draft orders)": what is shown as a blocker is refused by     *)
(* confirmOutbound.                                                         *)
BlockersBlock == Blockers \subseteq draft
=============================================================================
