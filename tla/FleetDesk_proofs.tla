--------------------------- MODULE FleetDesk_proofs ---------------------------
(***************************************************************************)
(* What the fleet desk keeps for any number of orders, clerks, notes and    *)
(* lines: a note's stop goes with its last order however the removals       *)
(* overlap, and requests that do not overlap neither leave a plan of a      *)
(* removed order nor change a contract behind the back of its invoices.     *)
(***************************************************************************)
EXTENDS MCFleetDesk, FiniteSetTheorems, WellFoundedInduction, TLAPS

-----------------------------------------------------------------------------
(* Row numbers: the next unused row exists. *)

LEMMA LeastExists ==
  ASSUME NEW T \in SUBSET Nat, T # {}
  PROVE  \E x \in T : \A y \in T : x <= y
<1> DEFINE Less == OpToRel(<, Nat)
<1>1. Less = {ss \in Nat \X Nat : ss[1] < ss[2]}
  BY Zenon DEF OpToRel
<1>2. IsWellFoundedOn(Less, Nat)
  BY NatLessThanWellFounded, Zenon
<1> HIDE DEF Less
<1>3. PICK x \in T : \A y \in T : ~(<<y, x>> \in Less)
  BY <1>2, WFMin
<1>4. ASSUME NEW y \in T PROVE x <= y
  <2>1. <<y, x>> \in Nat \X Nat /\ ~(<<y, x>> \in Less)
    BY <1>3
  <2> QED
    BY <1>1, <2>1
<1> QED
  BY <1>4

LEMMA NextRowIsFresh == Fresh # {} => NextRow \in Fresh
<1> SUFFICES ASSUME Fresh # {} PROVE NextRow \in Fresh
  OBVIOUS
<1>1. Fresh \in SUBSET Nat
  BY DeskBoundsAssumption DEF Fresh, Rows
<1>2. \E l \in Fresh : \A k \in Fresh : l <= k
  BY <1>1, LeastExists
<1> QED
  BY <1>2, Zenon DEF NextRow

(* A note of two orders has two rows. *)
LEMMA TwoFresh ==
  ASSUME Cardinality(Fresh) >= 2
  PROVE  Fresh # {} /\ \A a : (CHOOSE l \in Fresh \ {a} : TRUE) \in Fresh \ {a}
<1>1. IsFiniteSet(Rows)
  BY FS_Interval, DeskBoundsAssumption DEF Rows
<1>2. IsFiniteSet(Fresh)
  BY <1>1, FS_Subset DEF Fresh
<1>3. Fresh # {}
  BY FS_EmptySet
<1>4. ASSUME NEW a, Fresh \ {a} = {}
      PROVE  FALSE
  <2>1. Fresh \subseteq {a} /\ IsFiniteSet({a}) /\ Cardinality({a}) = 1
    BY <1>4, FS_Singleton
  <2>2. Cardinality(Fresh) <= 1 /\ Cardinality(Fresh) \in Nat
    BY <1>2, <2>1, FS_Subset, FS_CardinalityType
  <2> QED
    BY <2>2
<1> QED
  BY <1>3, <1>4, Zenon

-----------------------------------------------------------------------------
(* The shapes of rows and requests. *)

OrderRow == [status : {"DRAFT", "PENDING_FLEET", "NO_VEHICLE", "ASSIGNED"}, qty : Nat, live : BOOLEAN]
LineRow == [status : LineStatus, order : Orders, live : BOOLEAN,
            plan : Clerks \cup Notes \cup {NoNote}, trip : Notes \cup {NoNote}]

OnOrder == [at : {"create", "remove order", "remove lines"}, order : Orders]
Planning == [at : {"unplan", "plan"}, order : Orders, left : {1, 2}]
Confirming == [at : {"confirm", "check", "assign"}, row : Rows, line : LineRow, order : Orders, copy : OrderRow]
LoadedRow == {l \in LineRow : l.status \in {"PENDING", "CONFIRMED"}}
Editing == [at : {"edit line"}, row : Rows, line : LoadedRow]
Dropping == [at : {"remove line"}, row : Rows]
Saving == [at : {"save order"}, order : Orders, copy : OrderRow, lines : SUBSET Rows, invoices : Nat]
Overriding == [at : {"override"}, order : Orders, copy : OrderRow]
Stopping == [at : {"remove stops"}, notes : SUBSET Notes]
Request ==
  {Idle} \cup OnOrder \cup Planning \cup Confirming \cup Editing \cup Dropping \cup Saving
    \cup Overriding \cup Stopping

Shape ==
  /\ order \in [Orders -> OrderRow]
  /\ invoices \in [Orders -> Nat]
  /\ line \in [Rows -> LineRow]
  /\ \A l \in Rows : line[l].status \in {"UNUSED", "GONE"} => ~line[l].live
  /\ stop \in [Notes -> {"NONE", "PENDING", "DELETED"}]
  /\ req \in [Clerks -> Request]

LEMMA RequestIs ==
  ASSUME NEW r \in Request
  PROVE  /\ r.at = "idle" => r = Idle
         /\ r.at \in {"create", "remove order", "remove lines"} => r \in OnOrder
         /\ r.at \in {"unplan", "plan"} => r \in Planning
         /\ r.at \in {"confirm", "check", "assign"} => r \in Confirming
         /\ r.at = "edit line" => r \in Editing
         /\ r.at = "remove line" => r \in Dropping
         /\ r.at = "save order" => r \in Saving
         /\ r.at = "override" => r \in Overriding
         /\ r.at = "remove stops" => r \in Stopping
<1>1. Idle.at = "idle"
  BY DEF Idle
<1>2. /\ r \in OnOrder => r.at \in {"create", "remove order", "remove lines"}
      /\ r \in Planning => r.at \in {"unplan", "plan"}
  BY DEF OnOrder, Planning
<1>3. /\ r \in Confirming => r.at \in {"confirm", "check", "assign"}
      /\ r \in Editing => r.at = "edit line"
      /\ r \in Dropping => r.at = "remove line"
  BY DEF Confirming, Editing, Dropping
<1>4. /\ r \in Saving => r.at = "save order"
      /\ r \in Overriding => r.at = "override"
      /\ r \in Stopping => r.at = "remove stops"
  BY DEF Saving, Overriding, Stopping
<1> QED
  BY <1>1, <1>2, <1>3, <1>4 DEF Request

LEMMA IsRequest ==
  ASSUME NEW r, \/ r = Idle \/ r \in OnOrder \/ r \in Planning \/ r \in Confirming \/ r \in Editing
                \/ r \in Dropping \/ r \in Saving \/ r \in Overriding \/ r \in Stopping
  PROVE  r \in Request
BY DEF Request

(* Lines as the desk makes them. *)
LEMMA LineIs ==
  ASSUME NEW o \in Orders, NEW p \in Clerks \cup Notes \cup {NoNote}, NEW n \in Notes \cup {NoNote}
  PROVE  /\ Line(o, p, n) \in LineRow /\ Line(o, p, n).live /\ Line(o, p, n).status = "PENDING"
         /\ Line(o, p, n).order = o /\ Line(o, p, n).trip = n
BY DEF Line, LineRow, LineStatus

LEMMA NoLineIs ==
  ASSUME Orders # {}, NEW s \in {"UNUSED", "GONE"}
  PROVE  NoLine(s) \in LineRow /\ ~NoLine(s).live /\ NoLine(s).status = s
<1>1. (CHOOSE o \in Orders : TRUE) \in Orders
  BY Zenon
<1> QED
  BY <1>1 DEF NoLine, LineRow, LineStatus

LEMMA InitShape == Orders # {} /\ Init => Shape
<1> SUFFICES ASSUME Orders # {}, Init PROVE Shape
  OBVIOUS
<1>1. NoLine("UNUSED") \in LineRow /\ ~NoLine("UNUSED").live
  BY NoLineIs
<1>2. Idle \in Request
  BY IsRequest
<1>3. [status |-> "DRAFT", qty |-> 1, live |-> TRUE] \in OrderRow
  BY DEF OrderRow
<1> HIDE DEF LineRow, OrderRow, NoLine
<1> QED
  BY <1>1, <1>2, <1>3 DEF Init, Shape

LEMMA BecomesRequest ==
  ASSUME Shape, NEW c \in Clerks, NEW r \in Request, Become(c, r)
  PROVE  req' \in [Clerks -> Request] /\ req'[c] = r /\ \A d \in Clerks \ {c} : req'[d] = req[d]
BY DEF Become, Shape

(* A request starts by loading rows. *)
Asks(c) == PlanRequest(c) \/ ConfirmRequest(c) \/ LineRequest(c) \/ OrderRequest(c) \/ RemoveRequest(c)
Tables == <<order, invoices, line, stop>>

Started(c) ==
  /\ IsIdle(c) /\ UNCHANGED Tables
  /\ \E r \in Request : Become(c, r) /\ r.at \notin {"idle", "remove stops"}

LEMMA Starts ==
  ASSUME NEW c \in Clerks, NEW r, IsIdle(c), UNCHANGED Tables, Become(c, r), r.at \notin {"idle", "remove stops"},
         r \in OnOrder \/ r \in Planning \/ r \in Confirming \/ r \in Editing \/ r \in Dropping
           \/ r \in Saving \/ r \in Overriding
  PROVE  Started(c)
<1>1. r \in Request
  BY IsRequest
<1> QED
  BY <1>1, Zenon DEF Started

LEMMA AskingIs ==
  ASSUME Shape, NEW c \in Clerks, Asks(c)
  PROVE  Started(c)
<1>1. CASE PlanRequest(c)
  <2>1. PICK o \in Orders : Create(c, o) \/ \E v \in {1, 2} : CreateSplit(c, o, v)
    BY <1>1 DEF PlanRequest
  <2>2. CASE Create(c, o)
    <3> DEFINE r == [at |-> "create", order |-> o]
    <3>1. r \in OnOrder /\ r.at \notin {"idle", "remove stops"}
      BY DEF OnOrder
    <3>2. IsIdle(c) /\ UNCHANGED Tables /\ Become(c, r)
      BY <2>2 DEF Create, Tables
    <3> HIDE DEF r
    <3> QED
      BY <3>1, <3>2, Starts
  <2>3. ASSUME NEW v \in {1, 2}, CreateSplit(c, o, v)
        PROVE  Started(c)
    <3> DEFINE r == [at |-> "unplan", order |-> o, left |-> v]
    <3>1. r \in Planning /\ r.at \notin {"idle", "remove stops"}
      BY DEF Planning
    <3>2. IsIdle(c) /\ UNCHANGED Tables /\ Become(c, r)
      BY <2>3 DEF CreateSplit, Tables
    <3> HIDE DEF r
    <3> QED
      BY <3>1, <3>2, Starts
  <2> QED
    BY <2>1, <2>2, <2>3
<1>2. CASE ConfirmRequest(c)
  <2>1. PICK l \in Rows : Confirm(c, l)
    BY <1>2 DEF ConfirmRequest
  <2> DEFINE r == [at |-> "confirm", row |-> l, line |-> line[l], order |-> line[l].order,
                   copy |-> order[line[l].order]]
  <2>2. line[l] \in LineRow /\ line[l].order \in Orders /\ order[line[l].order] \in OrderRow
    BY DEF Shape, LineRow
  <2>3. r \in Confirming /\ r.at \notin {"idle", "remove stops"}
    BY <2>2 DEF Confirming
  <2> HIDE DEF r
  <2>4. IsIdle(c) /\ UNCHANGED Tables /\ Become(c, r)
    BY <2>1 DEF Confirm, Tables, r
  <2> QED
    BY <2>3, <2>4, Starts
<1>3. CASE LineRequest(c)
  <2>1. PICK l \in Rows : UpdateTrip(c, l) \/ RemoveTrip(c, l)
    BY <1>3 DEF LineRequest
  <2>2. CASE UpdateTrip(c, l)
    <3> DEFINE r == [at |-> "edit line", row |-> l, line |-> line[l]]
    <3>0. line[l] \in LoadedRow
      BY <2>2 DEF UpdateTrip, Shape, LineRow, LoadedRow, LineStatus
    <3>1. r \in Editing /\ r.at \notin {"idle", "remove stops"}
      BY <3>0 DEF Editing
    <3>2. IsIdle(c) /\ UNCHANGED Tables /\ Become(c, r)
      BY <2>2 DEF UpdateTrip, Tables
    <3> HIDE DEF r
    <3> QED
      BY <3>1, <3>2, Starts
  <2>3. CASE RemoveTrip(c, l)
    <3> DEFINE r == [at |-> "remove line", row |-> l]
    <3>1. r \in Dropping /\ r.at \notin {"idle", "remove stops"}
      BY DEF Dropping
    <3>2. IsIdle(c) /\ UNCHANGED Tables /\ Become(c, r)
      BY <2>3 DEF RemoveTrip, Tables
    <3> HIDE DEF r
    <3> QED
      BY <3>1, <3>2, Starts
  <2> QED
    BY <2>1, <2>2, <2>3
<1>4. CASE OrderRequest(c)
  <2>1. ASSUME NEW o \in Orders, NEW copy \in OrderRow, Load(c, "save order", o, copy)
        PROVE  Started(c)
    <3> DEFINE r == [at |-> "save order", order |-> o, copy |-> copy, lines |-> LinesOf(o), invoices |-> invoices[o]]
    <3>1. LinesOf(o) \in SUBSET Rows /\ invoices[o] \in Nat
      BY DEF LinesOf, Shape
    <3>2. r \in Saving /\ r.at \notin {"idle", "remove stops"}
      BY <3>1 DEF Saving
    <3> HIDE DEF r
    <3>3. IsIdle(c) /\ UNCHANGED Tables /\ Become(c, r)
      BY <2>1 DEF Load, Tables, r
    <3> QED
      BY <3>2, <3>3, Starts
  <2>2. ASSUME NEW o \in Orders, NEW q \in 1 .. MaxQty
        PROVE  [order[o] EXCEPT !.qty = q] \in OrderRow
    BY DEF Shape, OrderRow
  <2>3. ASSUME NEW o \in Orders
        PROVE  /\ [order[o] EXCEPT !.status = "PENDING_FLEET"] \in OrderRow
               /\ [order[o] EXCEPT !.status = "NO_VEHICLE"] \in OrderRow
    BY DEF Shape, OrderRow
  <2>4. ASSUME NEW o \in Orders, NEW q \in 1 .. MaxQty, AdminOverride(c, o, q)
        PROVE  Started(c)
    <3> DEFINE r == [at |-> "override", order |-> o, copy |-> [order[o] EXCEPT !.qty = q]]
    <3>1. r \in Overriding /\ r.at \notin {"idle", "remove stops"}
      BY <2>2 DEF Overriding
    <3> HIDE DEF r
    <3>2. IsIdle(c) /\ UNCHANGED Tables /\ Become(c, r)
      BY <2>4 DEF AdminOverride, Tables, r
    <3> QED
      BY <3>1, <3>2, Starts
  <2> QED
    BY <1>4, <2>1, <2>2, <2>3, <2>4 DEF OrderRequest, Update, Submit, MarkNoVehicle
<1>5. CASE RemoveRequest(c)
  <2>1. PICK o \in Orders : IsIdle(c) /\ UNCHANGED Tables /\ Become(c, [at |-> "remove order", order |-> o])
    BY <1>5 DEF RemoveRequest, Remove, Tables
  <2> DEFINE r == [at |-> "remove order", order |-> o]
  <2>2. r \in OnOrder /\ r.at \notin {"idle", "remove stops"}
    BY DEF OnOrder
  <2>3. IsIdle(c) /\ UNCHANGED Tables /\ Become(c, r)
    BY <2>1
  <2> HIDE DEF r
  <2> QED
    BY <2>2, <2>3, Starts
<1> QED
  BY <1>1, <1>2, <1>3, <1>4, <1>5 DEF Asks

LEMMA AskShape ==
  ASSUME Shape, NEW c \in Clerks, Asks(c)
  PROVE  Shape'
<1>1. UNCHANGED Tables /\ \E r \in Request : Become(c, r)
  BY AskingIs DEF Started
<1>2. req' \in [Clerks -> Request]
  BY <1>1, BecomesRequest
<1> QED
  BY <1>1, <1>2 DEF Shape, Tables

(* What the server does for a request that has begun. *)
LEMMA IdleRequest == Idle \in Request /\ Idle.at = "idle"
BY IsRequest DEF Idle

LEMMA GoesOn ==
  ASSUME Shape, NEW c \in Clerks, NEW at,
         \/ req[c] \in OnOrder /\ at \in {"create", "remove order", "remove lines"}
         \/ req[c] \in Planning /\ at \in {"unplan", "plan"}
         \/ req[c] \in Confirming /\ at \in {"confirm", "check", "assign"},
         GoOn(c, at)
  PROVE  /\ req' \in [Clerks -> Request] /\ req'[c] = [req[c] EXCEPT !.at = at]
         /\ \A d \in Clerks \ {c} : req'[d] = req[d]
<1> DEFINE r == [req[c] EXCEPT !.at = at]
<1>1. CASE req[c] \in OnOrder /\ at \in {"create", "remove order", "remove lines"}
  <2>1. r \in OnOrder
    BY <1>1 DEF OnOrder
  <2> QED
    BY <2>1, IsRequest DEF GoOn, Shape
<1>2. CASE req[c] \in Planning /\ at \in {"unplan", "plan"}
  <2>1. r \in Planning
    BY <1>2 DEF Planning
  <2> QED
    BY <2>1, IsRequest DEF GoOn, Shape
<1>3. CASE req[c] \in Confirming /\ at \in {"confirm", "check", "assign"}
  <2>1. r \in Confirming
    BY <1>3 DEF Confirming
  <2> QED
    BY <2>1, IsRequest DEF GoOn, Shape
<1> QED
  BY <1>1, <1>2, <1>3

(* The request of a server step. *)
LEMMA RequestStep ==
  ASSUME Shape, NEW c \in Clerks, Server(c)
  PROVE  req' \in [Clerks -> Request] /\ \A d \in Clerks \ {c} : req'[d] = req[d]
<1>1. ASSUME Finish(c)
      PROVE  req' \in [Clerks -> Request] /\ \A d \in Clerks \ {c} : req'[d] = req[d]
  BY <1>1, IdleRequest, BecomesRequest DEF Finish
<1>2. req[c] \in Request
  BY DEF Shape
<1>3. CASE SplitDelete(c)
  <2>1. req[c] \in Planning /\ GoOn(c, "plan")
    BY <1>2, <1>3, RequestIs DEF SplitDelete, At
  <2> QED
    BY <2>1, GoesOn
<1>4. CASE SplitSave(c)
  <2>1. req[c] \in Planning
    BY <1>2, <1>4, RequestIs DEF SplitSave, At
  <2>2. req[c].left # 1 => [req[c] EXCEPT !.left = @ - 1] \in Planning
    BY <2>1 DEF Planning
  <2>3. \E r \in Request : Become(c, r)
    BY <1>4, <2>2, IdleRequest, IsRequest DEF SplitSave
  <2> QED
    BY <2>3, BecomesRequest
<1>5. CASE ConfirmSave(c) \/ ConfirmCheck(c)
  <2>1. req[c] \in Confirming /\ (GoOn(c, "check") \/ GoOn(c, "assign") \/ Finish(c))
    BY <1>2, <1>5, RequestIs DEF ConfirmSave, ConfirmCheck, At
  <2> QED
    BY <1>1, <2>1, GoesOn
<1>6. CASE RemoveOrder(c)
  <2>1. req[c] \in OnOrder /\ GoOn(c, "remove lines")
    BY <1>2, <1>6, RequestIs DEF RemoveOrder, At
  <2> QED
    BY <2>1, GoesOn
<1>7. CASE RemoveLines(c)
  <2> DEFINE r == [at |-> "remove stops", notes |-> {line[l].trip : l \in Cascade(req[c].order)} \ {NoNote}]
  <2>1. \A l \in Cascade(req[c].order) : line[l].trip \in Notes \cup {NoNote}
    BY DEF Cascade, Pending, LinesOf, Shape, LineRow
  <2>2. r \in Stopping
    BY <2>1 DEF Stopping
  <2>3. Become(c, r)
    BY <1>7 DEF RemoveLines
  <2> HIDE DEF r
  <2> QED
    BY <2>2, <2>3, BecomesRequest, IsRequest
<1>8. ASSUME NEW n \in Notes, RemoveStop(c, n)
      PROVE  req' \in [Clerks -> Request] /\ \A d \in Clerks \ {c} : req'[d] = req[d]
  <2>1. req[c] \in Stopping
    BY <1>2, <1>8, RequestIs DEF RemoveStop, At
  <2>2. [req[c] EXCEPT !.notes = @ \ {n}] \in Stopping
    BY <2>1 DEF Stopping
  <2> QED
    BY <1>8, <2>2, IsRequest DEF RemoveStop, Shape
<1> QED
  BY <1>1, <1>3, <1>4, <1>5, <1>6, <1>7, <1>8
     DEF Server, CreateSave, ConfirmAssign, UpdateTripSave, RemoveTripSave, SaveOrder, OverrideCommit, RemoveDone

(* The tables of a server step. *)
LEMMA TablesStep ==
  ASSUME Orders # {}, Shape, NEW c \in Clerks, Server(c)
  PROVE  /\ order' \in [Orders -> OrderRow] /\ invoices' \in [Orders -> Nat]
         /\ line' \in [Rows -> LineRow]
         /\ \A l \in Rows : line'[l].status \in {"UNUSED", "GONE"} => ~line'[l].live
         /\ stop' \in [Notes -> {"NONE", "PENDING", "DELETED"}]
<1> DEFINE Typed ==
      /\ order' \in [Orders -> OrderRow] /\ invoices' \in [Orders -> Nat]
      /\ line' \in [Rows -> LineRow]
      /\ \A l \in Rows : line'[l].status \in {"UNUSED", "GONE"} => ~line'[l].live
      /\ stop' \in [Notes -> {"NONE", "PENDING", "DELETED"}]
<1>1. req[c] \in Request
  BY DEF Shape
<1>2. CASE UNCHANGED Tables
  BY <1>2 DEF Shape, Tables
<1>3. ASSUME NEW l \in Rows, NEW new \in LineRow, line' = [line EXCEPT ![l] = new],
             new.status \in {"UNUSED", "GONE"} => ~new.live, UNCHANGED <<order, invoices, stop>>
      PROVE  Typed
  BY <1>3 DEF Shape
<1>4. CASE CreateSave(c) \/ SplitSave(c)
  <2>1. req[c].order \in Orders
    BY <1>1, <1>4, RequestIs DEF CreateSave, SplitSave, At, OnOrder, Planning
  <2>2. PICK p \in Clerks \cup {NoNote} : line' = [line EXCEPT ![NextRow] = Line(req[c].order, p, NoNote)]
    BY <1>4 DEF CreateSave, SplitSave
  <2>3. NextRow \in Rows /\ UNCHANGED <<order, invoices, stop>>
    BY <1>4, NextRowIsFresh DEF CreateSave, SplitSave, Fresh
  <2> QED
    BY <1>3, <2>1, <2>2, <2>3, LineIs
<1>5. CASE SplitDelete(c)
  <2>1. NoLine("GONE") \in LineRow /\ ~NoLine("GONE").live
    BY NoLineIs
  <2> HIDE DEF LineRow, NoLine
  <2> QED
    BY <1>5, <2>1 DEF SplitDelete, Shape
<1>6. CASE ConfirmSave(c)
  <2>1. req[c].row \in Rows /\ req[c].line \in LineRow
    BY <1>1, <1>6, RequestIs DEF ConfirmSave, At, Confirming
  <2>2. /\ [req[c].line EXCEPT !.status = "CONFIRMED"] \in LineRow
        /\ [req[c].line EXCEPT !.status = "CONFIRMED"].status = "CONFIRMED"
    BY <2>1 DEF LineRow, LineStatus
  <2> QED
    BY <1>3, <1>6, <2>1, <2>2 DEF ConfirmSave
<1>7. CASE ConfirmAssign(c)
  <2>1. req[c].order \in Orders /\ req[c].copy \in OrderRow
    BY <1>1, <1>7, RequestIs DEF ConfirmAssign, At, Confirming
  <2>2. Promoted(c) \in OrderRow
    BY <2>1 DEF Promoted, OrderRow
  <2> QED
    BY <1>7, <2>2 DEF ConfirmAssign, Shape
<1>8. CASE UpdateTripSave(c)
  <2>1. req[c].row \in Rows /\ req[c].line \in LineRow
    BY <1>1, <1>8, RequestIs DEF UpdateTripSave, At, Editing, LoadedRow
  <2>2. req[c].line.status \notin {"UNUSED", "GONE"}
    BY <1>1, <1>8, RequestIs DEF UpdateTripSave, At, Editing, LoadedRow
  <2> QED
    BY <1>3, <1>8, <2>1, <2>2 DEF UpdateTripSave
<1>9. CASE RemoveTripSave(c)
  <2>1. req[c].row \in Rows
    BY <1>1, <1>9, RequestIs DEF RemoveTripSave, At, Dropping
  <2>2. [line[req[c].row] EXCEPT !.live = FALSE] \in LineRow /\ ~[line[req[c].row] EXCEPT !.live = FALSE].live
    BY <2>1 DEF Shape, LineRow
  <2> QED
    BY <1>3, <1>9, <2>1, <2>2 DEF RemoveTripSave
<1>10. CASE SaveOrder(c)
  <2>1. req[c].copy \in OrderRow
    BY <1>1, <1>10, RequestIs DEF SaveOrder, At, Saving
  <2> QED
    BY <1>10, <2>1 DEF SaveOrder, Shape
<1>11. CASE OverrideCommit(c)
  <2>1. req[c].copy \in OrderRow
    BY <1>1, <1>11, RequestIs DEF OverrideCommit, At, Overriding
  <2>2. req[c].order \in Orders
    BY <1>1, <1>11, RequestIs DEF OverrideCommit, At, Overriding
  <2>3. order' \in [Orders -> OrderRow] /\ UNCHANGED <<line, stop>>
    BY <1>11, <2>1 DEF OverrideCommit, Shape
  <2>4. invoices' = [invoices EXCEPT ![req[c].order] = invoices[req[c].order] + 1]
    BY <1>11 DEF OverrideCommit
  <2>5. invoices[req[c].order] + 1 \in Nat
    BY <2>2 DEF Shape
  <2>6. invoices' \in [Orders -> Nat]
    BY <2>4, <2>5 DEF Shape
  <2> QED
    BY <2>3, <2>6 DEF Shape
<1>12. CASE RemoveOrder(c)
  <2>1. ASSUME NEW o \in Orders PROVE [order[o] EXCEPT !.live = FALSE] \in OrderRow
    BY DEF Shape, OrderRow
  <2> QED
    BY <1>12, <2>1 DEF RemoveOrder, Shape
<1>13. CASE RemoveLines(c)
  <2>1. ASSUME NEW l \in Rows, NEW b \in BOOLEAN
        PROVE  /\ [line[l] EXCEPT !.live = b] \in LineRow
               /\ [line[l] EXCEPT !.live = b].status = line[l].status
               /\ [line[l] EXCEPT !.live = b].live <=> b
    BY DEF Shape, LineRow
  <2>2. ASSUME NEW l \in Rows
        PROVE  /\ line'[l] \in LineRow
               /\ line'[l].status \in {"UNUSED", "GONE"} => ~line'[l].live
    <3>1. \E b \in BOOLEAN : line'[l] = [line[l] EXCEPT !.live = b] /\ (b => line[l].live)
      BY <1>13, Zenon DEF RemoveLines
    <3> QED
      BY <2>1, <3>1 DEF Shape
  <2>3. line' \in [Rows -> LineRow]
    BY <1>13, <2>2 DEF RemoveLines
  <2> QED
    BY <1>13, <2>2, <2>3 DEF RemoveLines, Shape
<1>14. ASSUME NEW n \in Notes, RemoveStop(c, n)
       PROVE  Typed
  BY <1>14 DEF RemoveStop, Shape
<1> QED
  BY <1>2, <1>4, <1>5, <1>6, <1>7, <1>8, <1>9, <1>10, <1>11, <1>12, <1>13, <1>14
     DEF Server, ConfirmCheck, RemoveDone, Tables

LEMMA NoteShape ==
  ASSUME Orders # {}, Shape, NEW n \in Notes, NEW first \in Orders, NEW second \in Orders, SaveNote(n, first, second)
  PROVE  /\ Shape' /\ UNCHANGED <<order, invoices, req>>
         /\ stop' = [stop EXCEPT ![n] = "PENDING"]
         /\ \A l \in Rows : line'[l] = line[l] \/ (l \in Fresh /\ line'[l].live /\ line'[l].trip = n
                                                   /\ order[line'[l].order].live)
         /\ \E l \in Fresh : line'[l].live /\ line'[l].trip = n
<1> DEFINE a == NextRow
           b == CHOOSE l \in Fresh \ {a} : TRUE
<1>1. a \in Fresh /\ b \in Fresh \ {a} /\ Fresh \subseteq Rows
  BY TwoFresh, NextRowIsFresh DEF SaveNote, Fresh
<1>2. /\ Line(first, n, n) \in LineRow /\ Line(second, n, n) \in LineRow
      /\ Line(first, n, n).live /\ Line(first, n, n).status = "PENDING"
      /\ Line(second, n, n).live /\ Line(second, n, n).status = "PENDING"
      /\ Line(first, n, n).order = first /\ Line(second, n, n).order = second
      /\ Line(first, n, n).trip = n /\ Line(second, n, n).trip = n
  BY LineIs
<1>3. /\ line' = [line EXCEPT ![a] = Line(first, n, n)]
         \/ line' = [line EXCEPT ![a] = Line(first, n, n), ![b] = Line(second, n, n)]
      /\ order[first].live /\ order[second].live
      /\ stop' = [stop EXCEPT ![n] = "PENDING"] /\ UNCHANGED <<order, invoices, req>>
  BY DEF SaveNote
<1> HIDE DEF a, b
<1>4. /\ line' \in [Rows -> LineRow]
      /\ \A l \in Rows : line'[l] = line[l] \/ (l = a /\ line'[l] = Line(first, n, n))
                                            \/ (l = b /\ line'[l] = Line(second, n, n))
      /\ line'[a] = Line(first, n, n)
  BY <1>1, <1>2, <1>3 DEF Shape
<1>5. Shape'
  BY <1>2, <1>3, <1>4 DEF Shape
<1> QED
  BY <1>1, <1>2, <1>3, <1>4, <1>5

LEMMA ShapeStep == Orders # {} /\ Shape /\ [Next]_vars => Shape'
<1> SUFFICES ASSUME Orders # {}, Shape, [Next]_vars PROVE Shape'
  OBVIOUS
<1>1. CASE UNCHANGED vars
  BY <1>1 DEF vars, Shape
<1>2. ASSUME NEW c \in Clerks, Server(c)
      PROVE  Shape'
  BY <1>2, RequestStep, TablesStep DEF Shape
<1> QED
  BY <1>1, <1>2, AskShape, NoteShape DEF Next, Note, Asks

-----------------------------------------------------------------------------
(* Removals.  A pending note without lines is always followed by a request  *)
(* that has yet to look at it.                                              *)
Leaving == \A c \in Clerks : req[c].at \in {"idle", "remove order", "remove lines", "remove stops"}
Followed(n) == \E c \in Clerks : At(c, "remove stops") /\ n \in req[c].notes
GhostsFollowed == \A n \in Notes : stop[n] = "PENDING" /\ LinesOn(n) = {} => Followed(n)

(* A step of c leaves the followers other than c. *)
LEMMA StillFollowed ==
  ASSUME Shape, NEW c \in Clerks, NEW n \in Notes, Followed(n), ~(At(c, "remove stops") /\ n \in req[c].notes),
         \A d \in Clerks \ {c} : req'[d] = req[d]
  PROVE  Followed(n)'
BY DEF Followed, At

LEMMA RemovalServed ==
  ASSUME Orders # {}, Shape, Leaving, GhostsFollowed, NEW c \in Clerks, Server(c)
  PROVE  Leaving' /\ GhostsFollowed'
<1>1. req' \in [Clerks -> Request] /\ \A d \in Clerks \ {c} : req'[d] = req[d]
  BY RequestStep
<1>2. RemoveOrder(c) \/ RemoveLines(c) \/ (\E n \in Notes : RemoveStop(c, n)) \/ RemoveDone(c)
  BY DEF Server, Leaving, CreateSave, SplitDelete, SplitSave, ConfirmSave, ConfirmCheck, ConfirmAssign,
         UpdateTripSave, RemoveTripSave, SaveOrder, OverrideCommit, At
<1>3. CASE RemoveOrder(c)
  <2>1. req[c] \in OnOrder /\ At(c, "remove order") /\ UNCHANGED <<line, stop>> /\ GoOn(c, "remove lines")
    BY <1>3, RequestIs DEF RemoveOrder, At, Shape
  <2>2. req'[c].at = "remove lines"
    <3>1. req'[c] = [req[c] EXCEPT !.at = "remove lines"]
      BY <2>1, GoesOn
    <3> QED
      BY <2>1, <3>1 DEF OnOrder
  <2>3. \A n \in Notes : Followed(n) => Followed(n)'
    BY <1>1, <2>1, StillFollowed DEF At
  <2> QED
    BY <1>1, <2>1, <2>2, <2>3 DEF Leaving, GhostsFollowed, LinesOn
<1>4. CASE RemoveLines(c)
  <2> DEFINE gone == Cascade(req[c].order)
             r == [at |-> "remove stops", notes |-> {line[l].trip : l \in gone} \ {NoNote}]
  <2>1. At(c, "remove lines") /\ UNCHANGED stop /\ req'[c] = r
    BY <1>4 DEF RemoveLines, Become, Shape
  <2>2. r.at = "remove stops" /\ \A l \in gone : line[l].trip # NoNote => line[l].trip \in r.notes
    OBVIOUS
  <2>3. \A l \in Rows : line'[l].trip = line[l].trip /\ (l \notin gone => line'[l].live = line[l].live)
    <3> TAKE l \in Rows
    <3>1. line'[l] = [line[l] EXCEPT !.live = @ /\ l \notin gone]
      BY <1>4 DEF RemoveLines
    <3>2. line[l] \in LineRow
      BY DEF Shape
    <3>3. CASE l \in gone
      <4>1. line'[l] = [line[l] EXCEPT !.live = FALSE]
        BY <3>1, <3>3, Zenon
      <4> QED
        BY <3>2, <3>3, <4>1 DEF LineRow
    <3>4. CASE l \notin gone
      <4>1. line'[l] = [line[l] EXCEPT !.live = line[l].live]
        BY <3>1, <3>2, <3>4 DEF LineRow
      <4> QED
        BY <3>2, <4>1 DEF LineRow
    <3> QED
      BY <3>3, <3>4
  <2>4. gone \subseteq Rows
    BY DEF Cascade, Pending, LinesOf
  <2> HIDE DEF gone, r
  <2>5. ASSUME NEW n \in Notes, stop'[n] = "PENDING", LinesOn(n)' = {}
        PROVE  Followed(n)'
    <3>1. CASE LinesOn(n) = {}
      <4>1. Followed(n) /\ ~At(c, "remove stops")
        BY <2>1, <2>5, <3>1 DEF GhostsFollowed, At
      <4> QED
        BY <1>1, <4>1, StillFollowed
    <3>2. CASE LinesOn(n) # {}
      <4>1. PICK l \in Rows : line[l].live /\ line[l].trip = n
        BY <3>2 DEF LinesOn
      <4>2. l \in gone
        BY <2>3, <2>5, <4>1 DEF LinesOn
      <4>3. n # NoNote
        BY NotesAssumption
      <4>4. n \in req'[c].notes /\ req'[c].at = "remove stops"
        BY <2>1, <2>2, <4>1, <4>2, <4>3
      <4> QED
        BY <4>4 DEF Followed, At
    <3> QED
      BY <3>1, <3>2
  <2>6. req'[c].at = "remove stops"
    BY <2>1, <2>2
  <2>7. \A d \in Clerks : req'[d].at \in {"idle", "remove order", "remove lines", "remove stops"}
    BY <1>1, <2>6 DEF Leaving
  <2> QED
    BY <2>5, <2>7 DEF Leaving, GhostsFollowed
<1>5. ASSUME NEW n \in Notes, RemoveStop(c, n)
      PROVE  Leaving' /\ GhostsFollowed'
  <2>1. req[c] \in Stopping /\ UNCHANGED line
    BY <1>5, RequestIs DEF RemoveStop, At, Shape
  <2>2. req'[c].at = "remove stops" /\ req'[c].notes = req[c].notes \ {n}
    BY <1>5, <2>1 DEF RemoveStop, Shape, Stopping
  <2>3. \A m \in Notes \ {n} : stop'[m] = stop[m]
    BY <1>5 DEF RemoveStop, Shape
  <2>4. stop'[n] = "PENDING" => LinesOn(n) # {}
    BY <1>5 DEF RemoveStop, Shape, Empty
  <2>5. \A m \in Notes \ {n} : Followed(m) => Followed(m)'
    BY <1>1, <2>2 DEF Followed, At
  <2> QED
    BY <1>1, <2>1, <2>2, <2>3, <2>4, <2>5 DEF Leaving, GhostsFollowed, LinesOn
<1>6. CASE RemoveDone(c)
  <2>1. req[c].notes = {} /\ req'[c].at = "idle" /\ UNCHANGED <<line, stop>>
    BY <1>6, BecomesRequest, IdleRequest DEF RemoveDone, Finish
  <2>2. \A n \in Notes : Followed(n) => Followed(n)'
    BY <1>1, <2>1, StillFollowed
  <2> QED
    BY <1>1, <2>1, <2>2 DEF Leaving, GhostsFollowed, LinesOn
<1> QED
  BY <1>2, <1>3, <1>4, <1>5, <1>6

LEMMA RemovalStep ==
  Orders # {} /\ Shape /\ Leaving /\ GhostsFollowed /\ [RemovalNext]_vars => Leaving' /\ GhostsFollowed'
<1> SUFFICES ASSUME Orders # {}, Shape, Leaving, GhostsFollowed, [RemovalNext]_vars
             PROVE  Leaving' /\ GhostsFollowed'
  OBVIOUS
<1>1. CASE UNCHANGED vars
  BY <1>1 DEF vars, Leaving, GhostsFollowed, Followed, LinesOn, At
<1>2. ASSUME NEW c \in Clerks, RemoveRequest(c)
      PROVE  Leaving' /\ GhostsFollowed'
  <2>1. PICK o \in Orders : IsIdle(c) /\ UNCHANGED Tables /\ Become(c, [at |-> "remove order", order |-> o])
    BY <1>2 DEF RemoveRequest, Remove, Tables
  <2>2. req'[c].at = "remove order" /\ \A d \in Clerks \ {c} : req'[d] = req[d]
    BY <2>1 DEF Become, Shape
  <2>3. ~At(c, "remove stops")
    BY <2>1 DEF IsIdle, At
  <2>4. \A n \in Notes : Followed(n) => Followed(n)'
    BY <2>2, <2>3, StillFollowed
  <2> QED
    BY <2>1, <2>2, <2>4 DEF Leaving, GhostsFollowed, LinesOn, Tables
<1>3. ASSUME NEW n \in Notes, NEW a \in Orders, NEW b \in Orders, SaveNote(n, a, b)
      PROVE  Leaving' /\ GhostsFollowed'
  <2>1. UNCHANGED req /\ \A m \in Notes \ {n} : stop'[m] = stop[m]
    BY <1>3, NoteShape DEF Shape
  <2>2. \E l \in Rows : line'[l].live /\ line'[l].trip = n
    BY <1>3, NoteShape DEF Fresh
  <2>3. \A l \in Rows : line[l].live => line'[l] = line[l]
    BY <1>3, NoteShape DEF Shape, Fresh
  <2>4. \A m \in Notes : LinesOn(m)' = {} => LinesOn(m) = {} /\ m # n
    BY <2>2, <2>3 DEF LinesOn
  <2> QED
    BY <2>1, <2>4 DEF Leaving, GhostsFollowed, Followed, At
<1> QED
  BY <1>1, <1>2, <1>3, RemovalServed DEF RemovalNext, Note

-----------------------------------------------------------------------------
(* Requests that do not overlap.  What the one request that is under way    *)
(* has loaded is still what the tables say.                                 *)
Alone == \A c, d \in Clerks : ~IsIdle(c) /\ ~IsIdle(d) => c = d

(* The order a request is about is there as long as it has not removed it,  *)
(* and its loaded copy has the contract quantity of the table unless the    *)
(* order is a draft.                                                        *)
Current(c) ==
  LET r == req[c] IN
  /\ At(c, "create") \/ At(c, "unplan") \/ At(c, "plan") => order[r.order].live
  /\ At(c, "save order") => r.copy.live /\ (order[r.order].status = "DRAFT" \/ r.copy.qty = order[r.order].qty)
  /\ At(c, "override") => r.copy.live
  /\ At(c, "assign") => r.copy.live
  /\ At(c, "confirm") \/ At(c, "check") \/ At(c, "assign") => r.copy.qty = order[r.order].qty
  /\ At(c, "edit line") => line[r.row] = r.line

(* A removed order has no plan, unless its removal is still at it. *)
Removing(o) == \E c \in Clerks : At(c, "remove lines") /\ req[c].order = o
Unplanned == \A o \in Orders : ~order[o].live => Pending(o) = {} \/ Removing(o)

OneDesk == Alone /\ (\A c \in Clerks : Current(c)) /\ Unplanned

LEMMA AloneAfter ==
  ASSUME IsFiniteSet(Clerks), Cardinality(Busy') <= 1
  PROVE  Alone'
<1>1. Busy' \subseteq Clerks
  BY DEF Busy
<1>2. IsFiniteSet(Busy')
  BY <1>1, FS_Subset
<1>3. ASSUME NEW c \in Busy', NEW d \in Busy', c # d
      PROVE  FALSE
  <2>1. IsFiniteSet(Busy' \ {c}) /\ Cardinality(Busy' \ {c}) = Cardinality(Busy') - 1
    BY <1>2, FS_RemoveElement
  <2>2. d \in Busy' \ {c}
    BY <1>3
  <2>3. Cardinality(Busy' \ {c}) # 0
    BY <2>1, <2>2, FS_EmptySet
  <2>4. Cardinality(Busy') \in Nat /\ Cardinality(Busy' \ {c}) \in Nat
    BY <1>2, <2>1, FS_CardinalityType
  <2> QED
    BY <2>1, <2>3, <2>4
<1> QED
  BY <1>3 DEF Alone, Busy

LEMMA OthersIdle ==
  ASSUME Alone, NEW c \in Clerks, ~IsIdle(c), NEW d \in Clerks \ {c}
  PROVE  IsIdle(d)
BY DEF Alone

LEMMA IdleIsCurrent ==
  ASSUME NEW c \in Clerks, IsIdle(c)
  PROVE  Current(c) /\ \A o \in Orders : ~(At(c, "remove lines") /\ req[c].order = o)
BY DEF Current, IsIdle, At

(* No order is removed, and every line that is a plan now was one of the    *)
(* same order before, or is of an order that is there.                      *)
LEMMA UnplannedKept ==
  ASSUME Shape, Shape',
         \A o \in Orders : ~order[o].live => Pending(o) = {},
         \A o \in Orders : ~order'[o].live => ~order[o].live,
         \A l \in Rows : line'[l].live /\ line'[l].status = "PENDING" =>
           \/ line[l].live /\ line[l].status = "PENDING" /\ line'[l].order = line[l].order
           \/ order'[line'[l].order].live
  PROVE  Unplanned'
<1> SUFFICES ASSUME NEW o \in Orders, ~order'[o].live, NEW l \in Rows,
                    line'[l].live, line'[l].status = "PENDING", line'[l].order = o
             PROVE  FALSE
  BY DEF Unplanned, Pending, LinesOf
<1>1. line[l].live /\ line[l].status = "PENDING" /\ line[l].order = o
  OBVIOUS
<1>2. l \in Pending(o)
  BY <1>1 DEF Pending, LinesOf
<1> QED
  BY <1>2

LEMMA SameOrders == Shape /\ order' = order => KeepsContract
BY DEF KeepsContract

LEMMA AskOneDesk ==
  ASSUME Orders # {}, Shape, OneDesk, Alone', NEW c \in Clerks, Asks(c)
  PROVE  OneDesk' /\ KeepsContract
<1>1. IsIdle(c) /\ UNCHANGED Tables /\ Shape'
  BY AskingIs, AskShape DEF Started
<1>2. PICK r \in Request : Become(c, r) /\ r.at \notin {"idle", "remove stops"}
  BY AskingIs DEF Started
<1>3. req'[c] = r /\ \A d \in Clerks \ {c} : req'[d] = req[d]
  BY <1>2, BecomesRequest
<1>4. \A d \in Clerks : IsIdle(d)
  <2> SUFFICES ASSUME NEW d \in Clerks \ {c} PROVE IsIdle(d)
    BY <1>1
  <2>1. ~IsIdle(c)'
    BY <1>2, <1>3 DEF IsIdle
  <2>2. IsIdle(d)'
    BY <2>1, OthersIdle DEF Alone
  <2> QED
    BY <1>3, <2>2 DEF IsIdle
<1>5. Unplanned'
  <2>1. \A o \in Orders : ~order[o].live => Pending(o) = {}
    BY <1>4 DEF OneDesk, Unplanned, Removing, IsIdle, At
  <2> QED
    BY <1>1, <2>1 DEF Unplanned, Pending, LinesOf, Tables
<1>6. \A d \in Clerks \ {c} : Current(d)'
  BY <1>3, <1>4 DEF Current, IsIdle, At
<1>7. Current(c)'
  <2>1. CASE PlanRequest(c)
    <3>1. PICK o \in Orders : order[o].live /\ req'[c].order = o /\ (req'[c].at = "create" \/ req'[c].at = "unplan")
      BY <2>1 DEF PlanRequest, Create, CreateSplit, Become, Shape
    <3> QED
      BY <1>1, <3>1 DEF Current, At, Tables
  <2>2. CASE ConfirmRequest(c)
    <3>1. PICK l \in Rows : req'[c] = [at |-> "confirm", row |-> l, line |-> line[l], order |-> line[l].order,
                                       copy |-> order[line[l].order]]
      BY <2>2 DEF ConfirmRequest, Confirm, Become, Shape
    <3>2. req'[c].at = "confirm" /\ req'[c].copy = order[req'[c].order]
      BY <3>1
    <3> QED
      BY <1>1, <3>2 DEF Current, At, Tables
  <2>3. CASE LineRequest(c)
    <3>1. PICK l \in Rows : UpdateTrip(c, l) \/ RemoveTrip(c, l)
      BY <2>3 DEF LineRequest
    <3> DEFINE edit == [at |-> "edit line", row |-> l, line |-> line[l]]
               drop == [at |-> "remove line", row |-> l]
    <3>2. req'[c] = edit \/ req'[c] = drop
      BY <3>1 DEF UpdateTrip, RemoveTrip, Become, Shape
    <3>3. edit.at = "edit line" /\ edit.row = l /\ edit.line = line[l] /\ drop.at = "remove line"
      OBVIOUS
    <3> HIDE DEF edit, drop
    <3>4. CASE req'[c] = edit
      BY <1>1, <3>3, <3>4 DEF Current, At, Tables
    <3>5. CASE req'[c] = drop
      BY <1>1, <3>3, <3>5 DEF Current, At, Tables
    <3> QED
      BY <3>2, <3>4, <3>5
  <2>4. CASE OrderRequest(c)
    <3>1. ASSUME NEW o \in Orders, NEW copy, Load(c, "save order", o, copy), copy.live,
                 order[o].status = "DRAFT" \/ copy.qty = order[o].qty
          PROVE  Current(c)'
      <4>1. req'[c].at = "save order" /\ req'[c].copy = copy /\ req'[c].order = o
        BY <3>1 DEF Load, Become, Shape
      <4> QED
        BY <1>1, <3>1, <4>1 DEF Current, At, Tables
    <3>2. ASSUME NEW o \in Orders, order[o].live
          PROVE  /\ \A q \in 1 .. MaxQty : /\ [order[o] EXCEPT !.qty = q].live
                                           /\ [order[o] EXCEPT !.qty = q].qty = q
                 /\ [order[o] EXCEPT !.status = "PENDING_FLEET"].live
                 /\ [order[o] EXCEPT !.status = "PENDING_FLEET"].qty = order[o].qty
                 /\ [order[o] EXCEPT !.status = "NO_VEHICLE"].live
                 /\ [order[o] EXCEPT !.status = "NO_VEHICLE"].qty = order[o].qty
      BY <3>2 DEF Shape, OrderRow
    <3>3. ASSUME NEW o \in Orders, NEW q \in 1 .. MaxQty, AdminOverride(c, o, q)
          PROVE  Current(c)'
      <4>1. /\ req'[c].at = "override" /\ req'[c].copy = [order[o] EXCEPT !.qty = q]
            /\ order[o].live
        BY <3>3 DEF AdminOverride, Become, Shape
      <4>2. req'[c].copy.live
        BY <3>2, <4>1
      <4> QED
        BY <4>1, <4>2 DEF Current, At
    <3>4. ASSUME NEW o \in Orders, NEW q \in 1 .. MaxQty, Update(c, o, q)
          PROVE  Current(c)'
      <4>1. order[o].live /\ Load(c, "save order", o, [order[o] EXCEPT !.qty = q]) /\ (order[o].status = "DRAFT" \/ order[o].qty = q)
        BY <3>4 DEF Update, MayEdit, Load
      <4> DEFINE copy == [order[o] EXCEPT !.qty = q]
      <4>2. copy.live /\ copy.qty = q
        BY <3>2, <4>1
      <4>3. Load(c, "save order", o, copy) /\ (order[o].status = "DRAFT" \/ copy.qty = order[o].qty)
        BY <4>1, <4>2
      <4> HIDE DEF copy
      <4> QED
        BY <3>1, <4>2, <4>3
    <3>5. ASSUME NEW o \in Orders, Submit(c, o) \/ MarkNoVehicle(c, o)
          PROVE  Current(c)'
      <4>1. order[o].live
        BY <3>5 DEF Submit, MarkNoVehicle, Load
      <4>2. ASSUME NEW status, [order[o] EXCEPT !.status = status].live,
                   [order[o] EXCEPT !.status = status].qty = order[o].qty,
                   Load(c, "save order", o, [order[o] EXCEPT !.status = status])
            PROVE  Current(c)'
        <5> DEFINE copy == [order[o] EXCEPT !.status = status]
        <5>1. copy.live /\ copy.qty = order[o].qty /\ Load(c, "save order", o, copy)
          BY <4>2
        <5> HIDE DEF copy
        <5> QED
          BY <3>1, <5>1
      <4>3. CASE Submit(c, o)
        BY <3>2, <4>1, <4>2, <4>3 DEF Submit
      <4>4. CASE MarkNoVehicle(c, o)
        BY <3>2, <4>1, <4>2, <4>4 DEF MarkNoVehicle
      <4> QED
        BY <3>5, <4>3, <4>4
    <3> QED
      BY <2>4, <3>3, <3>4, <3>5 DEF OrderRequest
  <2>5. CASE RemoveRequest(c)
    <3>1. PICK o \in Orders : Become(c, [at |-> "remove order", order |-> o])
      BY <2>5 DEF RemoveRequest, Remove
    <3>2. req'[c].at = "remove order"
      BY <3>1 DEF Become, Shape
    <3> QED
      BY <3>2 DEF Current, At
  <2> QED
    BY <2>1, <2>2, <2>3, <2>4, <2>5 DEF Asks
<1> QED
  BY <1>1, <1>5, <1>6, <1>7, SameOrders DEF OneDesk, Tables

(* The server goes on with the only request that is under way. *)
LEMMA ServeOneDesk ==
  ASSUME Orders # {}, Shape, OneDesk, NEW c \in Clerks, Server(c)
  PROVE  (Alone' => OneDesk') /\ KeepsContract
<1>1. Shape' /\ \A d \in Clerks \ {c} : req'[d] = req[d]
  BY RequestStep, TablesStep DEF Shape
<1>2. ~IsIdle(c) /\ req[c] \in Request
  BY DEF Server, IsIdle, At, CreateSave, SplitDelete, SplitSave, ConfirmSave, ConfirmCheck, ConfirmAssign,
         UpdateTripSave, RemoveTripSave, SaveOrder, OverrideCommit, RemoveOrder, RemoveLines, RemoveStop,
         RemoveDone, Shape
<1>3. \A d \in Clerks \ {c} : Current(d)' /\ IsIdle(d)
  <2> TAKE d \in Clerks \ {c}
  <2>1. IsIdle(d)
    BY <1>2, OthersIdle DEF OneDesk
  <2> QED
    BY <1>1, <2>1 DEF Current, IsIdle, At
<1>4. ~At(c, "remove lines") => \A o \in Orders : ~order[o].live => Pending(o) = {}
  BY <1>3 DEF OneDesk, Unplanned, Removing, IsIdle, At
<1>5. ASSUME Finish(c)
      PROVE  Current(c)'
  <2>1. req'[c].at = "idle"
    BY <1>5, IdleRequest, BecomesRequest DEF Finish
  <2> QED
    BY <2>1 DEF Current, At
<1>6. ASSUME Current(c)', Unplanned', KeepsContract
      PROVE  (Alone' => OneDesk') /\ KeepsContract
  BY <1>3, <1>6 DEF OneDesk
<1>7. Current(c)
  BY DEF OneDesk
<1>8. ASSUME NEW l \in Rows, NEW new, line' = [line EXCEPT ![l] = new], UNCHANGED order, ~At(c, "remove lines"),
             ~new.live \/ new.status # "PENDING" \/ order[new.order].live \/ new = line[l]
      PROVE  Unplanned'
  <2>1. \A k \in Rows : line'[k] = IF k = l THEN new ELSE line[k]
    BY <1>8 DEF Shape
  <2>2. \A k \in Rows : line'[k].live /\ line'[k].status = "PENDING" =>
          \/ line[k].live /\ line[k].status = "PENDING" /\ line'[k].order = line[k].order
          \/ order'[line'[k].order].live
    BY <1>8, <2>1
  <2>3. /\ \A o \in Orders : ~order[o].live => Pending(o) = {}
        /\ \A o \in Orders : ~order'[o].live => ~order[o].live
    BY <1>4, <1>8
  <2> QED
    BY <1>1, <2>2, <2>3, UnplannedKept
<1>9. CASE CreateSave(c) \/ SplitSave(c)
  <2>1. req[c].order \in Orders /\ order[req[c].order].live /\ ~At(c, "remove lines")
    BY <1>2, <1>7, <1>9, RequestIs DEF CreateSave, SplitSave, At, OnOrder, Planning, Current
  <2>2. PICK p \in Clerks \cup {NoNote} : line' = [line EXCEPT ![NextRow] = Line(req[c].order, p, NoNote)]
    BY <1>9 DEF CreateSave, SplitSave
  <2>3. NextRow \in Rows /\ UNCHANGED <<order, invoices, stop>>
    BY <1>9, NextRowIsFresh DEF CreateSave, SplitSave, Fresh
  <2>4. Line(req[c].order, p, NoNote).order = req[c].order
    <3>1. p \in Clerks \cup Notes \cup {NoNote} /\ NoNote \in Notes \cup {NoNote}
      BY <2>2
    <3> QED
      BY <2>1, <3>1, LineIs
  <2>5. Unplanned'
    BY <1>8, <2>1, <2>2, <2>3, <2>4
  <2>6. Current(c)'
    <3>1. CASE Finish(c)
      BY <1>5, <3>1
    <3>2. CASE SplitSave(c) /\ ~Finish(c)
      <4>1. req[c] \in Planning /\ Become(c, [req[c] EXCEPT !.left = @ - 1])
        BY <1>2, <3>2, RequestIs DEF SplitSave, At, Finish
      <4>2. req'[c].at = req[c].at /\ req'[c].order = req[c].order
        BY <4>1 DEF Become, Planning, Shape
      <4>3. At(c, "plan") /\ order' = order
        BY <2>3, <3>2 DEF SplitSave
      <4> QED
        BY <2>1, <4>2, <4>3 DEF Current, At
    <3> QED
      BY <1>9, <3>1, <3>2 DEF CreateSave
  <2> QED
    BY <1>6, <2>3, <2>5, <2>6, SameOrders
<1>10. CASE SplitDelete(c)
  <2>1. req[c] \in Planning /\ At(c, "unplan") /\ GoOn(c, "plan") /\ UNCHANGED order
    BY <1>2, <1>10, RequestIs DEF SplitDelete, At
  <2>2. order[req[c].order].live /\ ~At(c, "remove lines")
    BY <1>7, <2>1 DEF Current, At
  <2>3. req'[c] = [req[c] EXCEPT !.at = "plan"]
    BY <2>1, GoesOn
  <2>4. req'[c].at = "plan" /\ req'[c].order = req[c].order
    BY <2>1, <2>3 DEF Planning
  <2>5. Current(c)'
    BY <2>1, <2>2, <2>4 DEF Current, At
  <2>6. \A l \in Rows : line'[l] = line[l] \/ ~line'[l].live
    BY <1>10, NoLineIs DEF SplitDelete
  <2>7. Unplanned'
    BY <1>1, <1>4, <2>1, <2>2, <2>6, UnplannedKept
  <2> QED
    BY <1>6, <2>1, <2>5, <2>7, SameOrders
<1>11. CASE ConfirmSave(c)
  <2>1. req[c] \in Confirming /\ At(c, "confirm") /\ GoOn(c, "check") /\ UNCHANGED order
    BY <1>2, <1>11, RequestIs DEF ConfirmSave, At
  <2>2. req'[c] = [req[c] EXCEPT !.at = "check"]
    BY <2>1, GoesOn
  <2>3. req'[c].at = "check" /\ req'[c].order = req[c].order /\ req'[c].copy = req[c].copy
    BY <2>1, <2>2 DEF Confirming
  <2>4. Current(c)'
    BY <1>7, <2>1, <2>3 DEF Current, At
  <2> DEFINE new == [req[c].line EXCEPT !.status = "CONFIRMED"]
  <2>5. new.status = "CONFIRMED" /\ req[c].row \in Rows
    BY <2>1 DEF Confirming, LineRow
  <2>6. line' = [line EXCEPT ![req[c].row] = new] /\ ~At(c, "remove lines")
    BY <1>11, <2>1 DEF ConfirmSave, At
  <2> HIDE DEF new
  <2>7. Unplanned'
    BY <1>8, <2>1, <2>5, <2>6
  <2> QED
    BY <1>6, <2>1, <2>4, <2>7, SameOrders
<1>12. CASE ConfirmCheck(c)
  <2>1. req[c] \in Confirming /\ At(c, "check") /\ UNCHANGED <<order, line>>
    BY <1>2, <1>12, RequestIs DEF ConfirmCheck, At
  <2>2. Unplanned'
    BY <1>1, <1>4, <2>1, UnplannedKept DEF At
  <2>3. Current(c)'
    <3>1. CASE Finish(c)
      BY <1>5, <3>1
    <3>2. CASE GoOn(c, "assign") /\ req[c].copy.live
      <4>1. req'[c] = [req[c] EXCEPT !.at = "assign"]
        BY <2>1, <3>2, GoesOn
      <4>2. req'[c].at = "assign" /\ req'[c].order = req[c].order /\ req'[c].copy = req[c].copy
        BY <2>1, <4>1 DEF Confirming
      <4> QED
        BY <1>7, <2>1, <3>2, <4>2 DEF Current, At
    <3> QED
      BY <1>12, <3>1, <3>2 DEF ConfirmCheck
  <2> QED
    BY <1>6, <2>1, <2>2, <2>3, SameOrders
<1>13. ASSUME NEW o \in Orders, NEW new \in OrderRow, order' = [order EXCEPT ![o] = new], UNCHANGED line, new.live,
              ~At(c, "remove lines"), Finish(c),
              new.qty = order[o].qty \/ order[o].status = "DRAFT" \/ invoices'[o] # invoices[o]
       PROVE  (Alone' => OneDesk') /\ KeepsContract
  <2>1. order'[o] = new /\ \A p \in Orders \ {o} : order'[p] = order[p]
    BY <1>13 DEF Shape
  <2>2. \A p \in Orders : ~order'[p].live => ~order[p].live
    BY <1>13, <2>1
  <2>3. Unplanned'
    BY <1>1, <1>4, <1>13, <2>2, UnplannedKept
  <2>4. KeepsContract
    BY <1>13, <2>1 DEF KeepsContract
  <2> QED
    BY <1>5, <1>6, <1>13, <2>3, <2>4
<1>14. CASE ConfirmAssign(c)
  <2>1. req[c] \in Confirming /\ At(c, "assign") /\ Finish(c)
    BY <1>2, <1>14, RequestIs DEF ConfirmAssign, At
  <2>2. req[c].copy.live /\ req[c].copy.qty = order[req[c].order].qty /\ req[c].copy \in OrderRow /\ req[c].order \in Orders
    BY <1>7, <2>1 DEF Current, Confirming
  <2>3. Promoted(c) \in OrderRow /\ Promoted(c).live /\ Promoted(c).qty = req[c].copy.qty
    BY <2>2 DEF Promoted, OrderRow
  <2> QED
    BY <1>13, <1>14, <2>1, <2>2, <2>3 DEF ConfirmAssign, At
<1>15. CASE UpdateTripSave(c)
  <2>1. req[c].row \in Rows /\ At(c, "edit line") /\ Finish(c) /\ UNCHANGED order
    BY <1>2, <1>15, RequestIs DEF UpdateTripSave, At, Editing
  <2>2. req[c].line = line[req[c].row] /\ ~At(c, "remove lines")
    BY <1>7, <2>1 DEF Current, At
  <2>3. Unplanned'
    BY <1>8, <1>15, <2>1, <2>2 DEF UpdateTripSave
  <2> QED
    BY <1>5, <1>6, <2>1, <2>3, SameOrders
<1>16. CASE RemoveTripSave(c)
  <2>1. req[c].row \in Rows /\ Finish(c) /\ UNCHANGED order /\ ~At(c, "remove lines")
    BY <1>2, <1>16, RequestIs DEF RemoveTripSave, At, Dropping
  <2> DEFINE new == [line[req[c].row] EXCEPT !.live = FALSE]
  <2>2. ~new.live /\ line' = [line EXCEPT ![req[c].row] = new]
    BY <1>16, <2>1 DEF Shape, LineRow, RemoveTripSave
  <2> HIDE DEF new
  <2>3. Unplanned'
    BY <1>8, <2>1, <2>2
  <2> QED
    BY <1>5, <1>6, <2>1, <2>3, SameOrders
<1>17. CASE SaveOrder(c)
  <2>1. /\ req[c].order \in Orders /\ req[c].copy \in OrderRow /\ At(c, "save order") /\ Finish(c)
        /\ UNCHANGED <<line, invoices>> /\ ~At(c, "remove lines")
    BY <1>2, <1>17, RequestIs DEF SaveOrder, At, Saving
  <2>2. req[c].copy.live /\ (order[req[c].order].status = "DRAFT" \/ req[c].copy.qty = order[req[c].order].qty)
    BY <1>7, <2>1 DEF Current
  <2>3. CASE order' = [order EXCEPT ![req[c].order] = req[c].copy]
    BY <1>13, <2>1, <2>2, <2>3
  <2>4. CASE order' = order
    <3>1. Unplanned'
      BY <1>1, <1>4, <2>1, <2>4, UnplannedKept
    <3> QED
      BY <1>5, <1>6, <2>1, <2>4, <3>1, SameOrders
  <2> QED
    BY <1>17, <2>3, <2>4 DEF SaveOrder
<1>18. CASE OverrideCommit(c)
  <2>1. /\ req[c].order \in Orders /\ req[c].copy \in OrderRow /\ At(c, "override") /\ Finish(c)
        /\ UNCHANGED line /\ ~At(c, "remove lines")
    BY <1>2, <1>18, RequestIs DEF OverrideCommit, At, Overriding
  <2>2. req[c].copy.live /\ order' = [order EXCEPT ![req[c].order] = req[c].copy]
    BY <1>7, <1>18, <2>1 DEF Current, OverrideCommit
  <2>3. invoices' = [invoices EXCEPT ![req[c].order] = invoices[req[c].order] + 1]
    BY <1>18 DEF OverrideCommit
  <2>4. invoices[req[c].order] \in Nat /\ invoices'[req[c].order] = invoices[req[c].order] + 1
    BY <2>1, <2>3 DEF Shape
  <2>5. invoices'[req[c].order] # invoices[req[c].order]
    BY <2>4
  <2> QED
    BY <1>13, <2>1, <2>2, <2>5
<1>19. CASE RemoveOrder(c)
  <2>1. req[c] \in OnOrder /\ At(c, "remove order") /\ GoOn(c, "remove lines") /\ UNCHANGED line
    BY <1>2, <1>19, RequestIs DEF RemoveOrder, At
  <2>2. req'[c] = [req[c] EXCEPT !.at = "remove lines"] /\ req[c].order \in Orders
    BY <2>1, GoesOn DEF OnOrder
  <2>3. req'[c].at = "remove lines" /\ req'[c].order = req[c].order
    BY <2>1, <2>2 DEF OnOrder
  <2>4. Current(c)'
    BY <2>3 DEF Current, At
  <2>5. /\ \A o \in Orders \ {req[c].order} : order'[o] = order[o]
        /\ order'[req[c].order] = [order[req[c].order] EXCEPT !.live = FALSE]
    BY <1>19, <2>2 DEF RemoveOrder, Shape
  <2>6. order'[req[c].order].qty = order[req[c].order].qty
    <3>1. order[req[c].order] \in OrderRow
      BY <2>2 DEF Shape
    <3>2. ASSUME NEW r \in OrderRow PROVE [r EXCEPT !.live = FALSE].qty = r.qty
      BY DEF OrderRow
    <3> QED
      BY <2>5, <3>1, <3>2
  <2>7. KeepsContract
    BY <2>5, <2>6 DEF KeepsContract
  <2>8. Unplanned'
    BY <1>4, <2>1, <2>3, <2>5 DEF Unplanned, Removing, Pending, LinesOf, At
  <2> QED
    BY <1>6, <2>4, <2>7, <2>8
<1>20. CASE RemoveLines(c)
  <2>1. At(c, "remove lines") /\ UNCHANGED order
    BY <1>20 DEF RemoveLines
  <2>2. \A o \in Orders \ {req[c].order} : ~order[o].live => Pending(o) = {}
    BY <1>3, <2>1 DEF OneDesk, Unplanned, Removing, IsIdle, At
  <2>3. req'[c].at = "remove stops"
    BY <1>20 DEF RemoveLines, Become, Shape
  <2>4. Current(c)'
    BY <2>3 DEF Current, At
  <2>5. ASSUME NEW l \in Rows, line'[l].live
        PROVE  l \notin Pending(req[c].order) /\ line'[l] = line[l]
    <3>1. line'[l] = [line[l] EXCEPT !.live = @ /\ l \notin Cascade(req[c].order)]
      BY <1>20 DEF RemoveLines
    <3>2. line[l] \in LineRow
      BY DEF Shape
    <3>3. CASE l \in Cascade(req[c].order)
      <4>1. line'[l] = [line[l] EXCEPT !.live = FALSE]
        BY <3>1, <3>3, Zenon
      <4> QED
        BY <2>5, <3>2, <4>1 DEF LineRow
    <3>4. CASE l \notin Cascade(req[c].order)
      <4>1. line'[l] = [line[l] EXCEPT !.live = line[l].live]
        BY <3>1, <3>2, <3>4 DEF LineRow
      <4>2. line'[l] = line[l]
        BY <3>2, <4>1 DEF LineRow
      <4> QED
        BY <3>4, <4>2 DEF Cascade
    <3> QED
      BY <3>3, <3>4
  <2>6. \A o \in Orders : Pending(o)' \subseteq Pending(o) \ Pending(req[c].order)
    BY <2>5 DEF Pending, LinesOf
  <2>7. Unplanned'
    BY <2>1, <2>2, <2>6 DEF Unplanned
  <2> QED
    BY <1>6, <2>1, <2>4, <2>7, SameOrders
<1>21. ASSUME UNCHANGED <<order, line>>, At(c, "remove stops"), req'[c].at = "remove stops" \/ Finish(c)
       PROVE  (Alone' => OneDesk') /\ KeepsContract
  <2>1. Current(c)'
    BY <1>5, <1>21 DEF Current, At
  <2>2. Unplanned'
    BY <1>1, <1>4, <1>21, UnplannedKept DEF At
  <2> QED
    BY <1>6, <1>21, <2>1, <2>2, SameOrders
<1>22. ASSUME NEW n \in Notes, RemoveStop(c, n)
       PROVE  (Alone' => OneDesk') /\ KeepsContract
  <2>1. req[c] \in Stopping
    BY <1>2, <1>22, RequestIs DEF RemoveStop, At
  <2>2. req'[c].at = "remove stops"
    BY <1>22, <2>1 DEF RemoveStop, Shape, Stopping
  <2> QED
    BY <1>21, <1>22, <2>2 DEF RemoveStop
<1>23. CASE RemoveDone(c)
  BY <1>21, <1>23 DEF RemoveDone
<1> QED
  BY <1>9, <1>10, <1>11, <1>12, <1>14, <1>15, <1>16, <1>17, <1>18, <1>19, <1>20, <1>22, <1>23 DEF Server

(* A note takes unused rows, so the line that is being edited stays.        *)
LEMMA NoteOneDesk ==
  ASSUME Orders # {}, Shape, OneDesk, NEW n \in Notes, NEW a \in Orders, NEW b \in Orders, SaveNote(n, a, b)
  PROVE  OneDesk' /\ KeepsContract
<1>1. /\ UNCHANGED <<order, req>>
      /\ \A l \in Rows : line'[l] = line[l] \/ (l \in Fresh /\ line'[l].live /\ order[line'[l].order].live)
  BY NoteShape DEF SaveNote
<1>2. Alone'
  BY <1>1 DEF OneDesk, Alone, IsIdle
<1>3. ASSUME NEW c \in Clerks
      PROVE  Current(c)'
  <2>1. Current(c) /\ req[c] \in Request
    BY DEF OneDesk, Shape
  <2>2. ASSUME At(c, "edit line")
        PROVE  line'[req[c].row] = line[req[c].row]
    <3>1. req[c] \in Editing
      BY <2>1, <2>2, RequestIs DEF At
    <3>2. line[req[c].row] \in LoadedRow /\ req[c].row \in Rows
      BY <2>1, <2>2, <3>1 DEF Current, Editing
    <3>3. req[c].row \notin Fresh
      BY <3>2 DEF Fresh, LoadedRow
    <3> QED
      BY <1>1, <3>2, <3>3
  <2> QED
    BY <1>1, <2>1, <2>2 DEF Current, At
<1>4. ASSUME NEW o \in Orders, ~order[o].live
      PROVE  Pending(o)' \subseteq Pending(o) /\ (Removing(o) => Removing(o)')
  <2>1. ASSUME NEW l \in Rows, line'[l].live, line'[l].status = "PENDING", line'[l].order = o
        PROVE  line'[l] = line[l]
    BY <1>1, <1>4, <2>1
  <2> QED
    BY <1>1, <2>1 DEF Pending, LinesOf, Removing, At
<1>5. Unplanned'
  BY <1>1, <1>4 DEF OneDesk, Unplanned
<1> QED
  BY <1>1, <1>2, <1>3, <1>5, SameOrders DEF OneDesk

LEMMA OneDeskStep ==
  ASSUME Orders # {}, IsFiniteSet(Clerks), Shape, OneDesk, Next, Cardinality(Busy') <= 1
  PROVE  OneDesk' /\ KeepsContract
BY AloneAfter, AskOneDesk, ServeOneDesk, NoteOneDesk DEF Next, Note, Asks

-----------------------------------------------------------------------------
(* The days of the runs. *)

LEMMA DaysAreDays == DayNext => Next /\ day' = day
BY DEF DayNext, Next, DispatchNext, RemovalNext

LEMMA DayShapeStep ==
  ASSUME Orders # {}, Shape, [DayNext]_<<vars, day>>
  PROVE  Shape' /\ day' = day
BY DaysAreDays, ShapeStep

LEMMA OneDeskDay ==
  ASSUME Orders # {}, IsFiniteSet(Clerks), Shape, [DayNext]_<<vars, day>>, day = "no overlap", OneDesk
  PROVE  OneDesk' /\ [KeepsContract]_vars
<1>1. CASE UNCHANGED vars
  <2>1. Alone' = Alone
    BY <1>1 DEF vars, Alone, IsIdle
  <2>2. ASSUME NEW c \in Clerks PROVE Current(c)' = Current(c)
    BY <1>1 DEF vars, Current, At
  <2>3. ASSUME NEW o \in Orders PROVE Pending(o)' = Pending(o) /\ Removing(o)' = Removing(o)
    BY <1>1 DEF vars, Pending, LinesOf, Removing, At
  <2>4. Unplanned' = Unplanned
    BY <1>1, <2>3 DEF vars, Unplanned
  <2> QED
    BY <1>1, <2>1, <2>2, <2>4 DEF OneDesk
<1>2. CASE ~UNCHANGED vars
  BY <1>2, OneDeskStep DEF DayNext
<1> QED
  BY <1>1, <1>2

LEMMA QuietDesk ==
  ASSUME Orders # {}, Init
  PROVE  Leaving /\ GhostsFollowed /\ OneDesk
<1>1. \A c \in Clerks : IsIdle(c) /\ req[c] = Idle /\ req[c].at = "idle"
  BY DEF Init, IsIdle, Idle
<1>2. \A c \in Clerks : Current(c)
  BY <1>1, IdleIsCurrent
<1>3. \A l \in Rows : ~line[l].live
  BY NoLineIs DEF Init
<1>4. GhostsFollowed
  BY DEF Init, GhostsFollowed
<1> QED
  BY <1>1, <1>2, <1>3, <1>4 DEF Leaving, OneDesk, Alone, Unplanned, Pending, LinesOf

-----------------------------------------------------------------------------
(* When the last orders of a note are removed by requests that overlap,     *)
(* RemoveStop (OrdersService.remove's last statements) takes the stop of    *)
(* the note along: at rest no pending stop is without lines, for any number *)
(* of orders, clerks and notes.                                             *)
THEOREM NoteGoesAlong == Orders # {} => (DaySpec => []NoteGoesWithItsLastOrder)
<1> SUFFICES ASSUME Orders # {} PROVE DaySpec => []NoteGoesWithItsLastOrder
  OBVIOUS
<1> DEFINE IInv == Shape /\ (day = "removing" => Leaving /\ GhostsFollowed)
<1>1. DayInit => IInv
  BY InitShape, QuietDesk DEF DayInit
<1>2. IInv /\ [DayNext]_<<vars, day>> => IInv'
  <2> SUFFICES ASSUME IInv, [DayNext]_<<vars, day>> PROVE IInv'
    OBVIOUS
  <2>1. Shape' /\ day' = day
    BY DayShapeStep
  <2>2. ASSUME day = "removing"
        PROVE  Leaving' /\ GhostsFollowed'
    <3>1. [RemovalNext]_vars
      BY <2>2 DEF DayNext
    <3> QED
      BY <2>2, <3>1, RemovalStep
  <2> QED
    BY <2>1, <2>2
<1>3. IInv => NoteGoesWithItsLastOrder
  BY DEF NoteGoesWithItsLastOrder, NoGhostStop, GhostsFollowed, Followed, IsIdle, At
<1> QED
  BY <1>1, <1>2, <1>3, PTL DEF DaySpec

(* Requests that do not overlap leave no pending line of a removed order:   *)
(* RemoveOrder deletes the order before RemoveLines finds its lines, and    *)
(* every other request works on an order that is there.                     *)
THEOREM NoPlanIsLeft ==
  Orders # {} /\ IsFiniteSet(Clerks) => (DaySpec => []NoPlanOutlivesItsOrder)
<1> SUFFICES ASSUME Orders # {}, IsFiniteSet(Clerks) PROVE DaySpec => []NoPlanOutlivesItsOrder
  OBVIOUS
<1> DEFINE IInv == Shape /\ (day = "no overlap" => OneDesk)
<1>1. DayInit => IInv
  BY InitShape, QuietDesk DEF DayInit
<1>2. IInv /\ [DayNext]_<<vars, day>> => IInv'
  BY DayShapeStep, OneDeskDay
<1>3. IInv => NoPlanOutlivesItsOrder
  BY DEF NoPlanOutlivesItsOrder, RemovedOrderHasNoPlan, OneDesk, Unplanned, Removing, IsIdle, At
<1> QED
  BY <1>1, <1>2, <1>3, PTL DEF DaySpec

(* Requests that do not overlap change the quantity of a contract that has  *)
(* left DRAFT only by an override and its invoice: the copies that          *)
(* ConfirmAssign and SaveOrder write back still have the table's quantity.  *)
THEOREM ContractKept ==
  Orders # {} /\ IsFiniteSet(Clerks) => (DaySpec => OneContract)
<1> SUFFICES ASSUME Orders # {}, IsFiniteSet(Clerks) PROVE DaySpec => OneContract
  OBVIOUS
<1> DEFINE IInv == Shape /\ (day = "no overlap" => OneDesk)
<1>1. DayInit => IInv
  BY InitShape, QuietDesk DEF DayInit
<1>2. IInv /\ [DayNext]_<<vars, day>> => IInv'
  BY DayShapeStep, OneDeskDay
<1>3. IInv /\ [DayNext]_<<vars, day>> => [day = "no overlap" => KeepsContract]_vars
  BY OneDeskDay
<1> QED
  BY <1>1, <1>2, <1>3, PTL DEF DaySpec, OneContract
=============================================================================
