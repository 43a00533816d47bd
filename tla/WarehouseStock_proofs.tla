------------------------ MODULE WarehouseStock_proofs ------------------------
(***************************************************************************)
(* The theorems of the daily operations.  The parts, in this order:         *)
(* TypeOK; Sound, an order record agrees with its invoice rows; Clean, its  *)
(* rows and its contract total belong together, for any set of trips that   *)
(* are received at most once; RoadOK, trips that have left; AllCovered, the *)
(* plans of a hub against its stock; and the promise made to the hubs.      *)
(***************************************************************************)
EXTENDS WarehouseLedger, Functions, FiniteSetTheorems, SequenceTheorems, TLAPS

-----------------------------------------------------------------------------
(* Sums of packages: what a sum over rows does when a row is added, changed *)
(* or left out.                                                             *)

(* The packages of finitely many rows are finitely many. *)
LEMMA QtyFinite ==
  ASSUME NEW rows, NEW I, IsFiniteSet(I), \A i \in I : rows[i].qty \in Nat
  PROVE  IsFiniteSet(Packages(rows, I)) /\ QtyOf(rows, I) \in Nat
<1> DEFINE boxes == {{i} \X (1 .. rows[i].qty) : i \in I}
           box == [i \in I |-> {i} \X (1 .. rows[i].qty)]
<1>1. \A i \in I : IsFiniteSet({i} \X (1 .. rows[i].qty))
  <2> TAKE i \in I
  <2>1. IsFiniteSet({i})
    BY FS_Singleton
  <2>2. IsFiniteSet(1 .. rows[i].qty)
    BY FS_Interval
  <2> QED
    BY <2>1, <2>2, FS_Product
<1>2. box \in Surjection(I, boxes)
  BY DEF Surjection
<1>3. IsFiniteSet(boxes)
  BY <1>2, FS_Surjection
<1>4. IsFiniteSet(UNION boxes)
  <2> HIDE DEF boxes
  <2>1. \A b \in boxes : IsFiniteSet(b)
    BY <1>1 DEF boxes
  <2> QED
    BY <1>3, <2>1, FS_UNION
<1> QED
  BY <1>4, FS_CardinalityType DEF Packages, QtyOf

(* No rows, no packages. *)
LEMMA QtyEmpty ==
  ASSUME NEW rows
  PROVE  QtyOf(rows, {}) = 0
BY FS_EmptySet DEF Packages, QtyOf

(* One more row adds its quantity. *)
LEMMA QtyAdd ==
  ASSUME NEW rows, NEW I, NEW j, IsFiniteSet(I), j \notin I,
         \A i \in I : rows[i].qty \in Nat, rows[j].qty \in Nat
  PROVE  QtyOf(rows, I \cup {j}) = QtyOf(rows, I) + rows[j].qty
<1> DEFINE new == {j} \X (1 .. rows[j].qty)
<1>1. Packages(rows, I \cup {j}) = Packages(rows, I) \cup new
  BY DEF Packages
<1>2. Packages(rows, I) \cap new = {}
  BY DEF Packages
<1>3. IsFiniteSet(new) /\ Cardinality(new) = rows[j].qty
  <2>1. IsFiniteSet({j}) /\ Cardinality({j}) = 1
    BY FS_Singleton
  <2>2. \A q \in Nat : IsFiniteSet(1 .. q) /\ Cardinality(1 .. q) = q
    <3> TAKE q \in Nat
    <3>1. IsFiniteSet(1 .. q) /\ Cardinality(1 .. q) = IF 1 > q THEN 0 ELSE q - 1 + 1
      BY FS_Interval
    <3> QED
      BY <3>1
  <2>3. \A T : IsFiniteSet(T) => IsFiniteSet({j} \X T) /\ Cardinality({j} \X T) = 1 * Cardinality(T)
    BY <2>1, FS_Product
  <2>4. IsFiniteSet(1 .. rows[j].qty) /\ Cardinality(1 .. rows[j].qty) = rows[j].qty
    BY <2>2
  <2>5. IsFiniteSet(new) /\ Cardinality(new) = 1 * Cardinality(1 .. rows[j].qty)
    BY <2>3, <2>4
  <2>6. Cardinality(new) = 1 * rows[j].qty
    BY <2>4, <2>5
  <2> HIDE DEF new
  <2> QED
    BY <2>5, <2>6
<1>4. IsFiniteSet(Packages(rows, I)) /\ QtyOf(rows, I) \in Nat
  BY QtyFinite
<1>5. Cardinality(Packages(rows, I) \cup new) = QtyOf(rows, I) + rows[j].qty - Cardinality({})
  <2> HIDE DEF new
  <2> QED
    BY <1>2, <1>3, <1>4, FS_Union DEF QtyOf
<1>6. QtyOf(rows, I \cup {j}) = QtyOf(rows, I) + rows[j].qty - 0
  BY <1>1, <1>5, FS_EmptySet DEF QtyOf
<1> QED
  BY <1>4, <1>6

(* Only the quantities of the chosen rows count. *)
LEMMA QtySame ==
  ASSUME NEW rows, NEW other, NEW I, \A i \in I : rows[i].qty = other[i].qty
  PROVE  QtyOf(rows, I) = QtyOf(other, I)
BY DEF Packages, QtyOf

(* More rows, more packages. *)
LEMMA QtyMonotone ==
  ASSUME NEW rows, NEW J, NEW I \in SUBSET J, IsFiniteSet(J), \A i \in J : rows[i].qty \in Nat
  PROVE  QtyOf(rows, I) <= QtyOf(rows, J)
<1>1. Packages(rows, I) \in SUBSET Packages(rows, J)
  BY DEF Packages
<1>2. IsFiniteSet(Packages(rows, J))
  BY QtyFinite
<1> QED
  BY <1>1, <1>2, FS_Subset DEF QtyOf

(* When row j is rewritten and nothing else changes, the sum changes by what *)
(* row j counted before and counts now.                                      *)
LEMMA QtyRewrite ==
  ASSUME NEW rows, NEW other, NEW I, NEW J, NEW j, IsFiniteSet(I), IsFiniteSet(J),
         \A i \in I : rows[i].qty \in Nat, \A i \in J : other[i].qty \in Nat,
         I \ {j} = J \ {j},
         \A i \in I \ {j} : rows[i].qty = other[i].qty
  PROVE  QtyOf(other, J) + (IF j \in I THEN rows[j].qty ELSE 0)
           = QtyOf(rows, I) + (IF j \in J THEN other[j].qty ELSE 0)
<1> DEFINE K == I \ {j}
<1>0. IsFiniteSet(K) /\ j \notin K /\ K = J \ {j}
  BY FS_Difference
<1>0a. /\ j \in I => I = K \cup {j}
       /\ j \notin I => I = K
       /\ j \in J => J = K \cup {j}
       /\ j \notin J => J = K
       /\ K \subseteq I /\ K \subseteq J
  BY <1>0
<1>1. QtyOf(rows, K) = QtyOf(other, K)
  BY <1>0, QtySame
<1> HIDE DEF K
<1>2. QtyOf(rows, K) \in Nat
  BY <1>0, <1>0a, QtyFinite
<1>3. QtyOf(rows, I) = QtyOf(rows, K) + (IF j \in I THEN rows[j].qty ELSE 0)
  <2>1. CASE j \in I
    <3>1. QtyOf(rows, K \cup {j}) = QtyOf(rows, K) + rows[j].qty
      BY <1>0, <1>0a, <2>1, QtyAdd
    <3> QED
      BY <3>1, <2>1, <1>0a
  <2>2. CASE j \notin I
    BY <2>2, <1>2, <1>0a
  <2> QED
    BY <2>1, <2>2
<1>4. QtyOf(other, J) = QtyOf(other, K) + (IF j \in J THEN other[j].qty ELSE 0)
  <2>1. CASE j \in J
    <3>1. QtyOf(other, K \cup {j}) = QtyOf(other, K) + other[j].qty
      BY <1>0, <1>0a, <2>1, QtyAdd
    <3> QED
      BY <3>1, <2>1, <1>0a
  <2>2. CASE j \notin J
    BY <2>2, <1>1, <1>2, <1>0a
  <2> QED
    BY <2>1, <2>2
<1>5. (IF j \in I THEN rows[j].qty ELSE 0) \in Nat /\ (IF j \in J THEN other[j].qty ELSE 0) \in Nat
  OBVIOUS
<1> QED
  BY <1>1, <1>2, <1>3, <1>4, <1>5

(* Rows taken in two disjoint lots. *)
LEMMA QtyUnion ==
  ASSUME NEW rows, NEW I, NEW J, IsFiniteSet(I), IsFiniteSet(J), I \cap J = {},
         \A i \in I \cup J : rows[i].qty \in Nat
  PROVE  QtyOf(rows, I \cup J) = QtyOf(rows, I) + QtyOf(rows, J)
<1>1. Packages(rows, I \cup J) = Packages(rows, I) \cup Packages(rows, J)
  BY DEF Packages
<1>2. Packages(rows, I) \cap Packages(rows, J) = {}
  BY DEF Packages
<1>3. IsFiniteSet(Packages(rows, I)) /\ IsFiniteSet(Packages(rows, J))
  BY QtyFinite
<1>4. Cardinality(Packages(rows, I) \cup Packages(rows, J))
        = Cardinality(Packages(rows, I)) + Cardinality(Packages(rows, J))
            - Cardinality(Packages(rows, I) \cap Packages(rows, J))
  BY <1>3, FS_Union
<1>5. Cardinality(Packages(rows, I) \cap Packages(rows, J)) = 0
  BY <1>2, FS_EmptySet
<1>6. QtyOf(rows, I) \in Nat /\ QtyOf(rows, J) \in Nat
  BY QtyFinite
<1>7. QtyOf(rows, I \cup J) = QtyOf(rows, I) + QtyOf(rows, J)
        - Cardinality(Packages(rows, I) \cap Packages(rows, J))
  BY <1>1, <1>4, Zenon DEF QtyOf
<1> QED
  BY <1>5, <1>6, <1>7

-----------------------------------------------------------------------------
(* Queries return natural numbers. *)

LEMMA MonusNat ==
  ASSUME NEW a \in Nat, NEW b \in Nat
  PROVE  Monus(a, b) \in Nat /\ Maximum(a, b) \in Nat
BY DEF Monus, Maximum

(* The rows a query selects are a finite set of positions. *)
LEMMA RowsFinite ==
  ASSUME TypeOK, NEW o \in Orders, NEW I \in SUBSET DOMAIN ledger[o]
  PROVE  /\ IsFiniteSet(I)
         /\ \A i \in I : ledger[o][i].qty \in Nat
         /\ QtyOf(ledger[o], I) \in Nat
<1>1. ledger[o] \in Seq(RowRecord)
  BY DEF TypeOK
<1>2. DOMAIN ledger[o] = 1 .. Len(ledger[o]) /\ Len(ledger[o]) \in Nat
  BY <1>1, LenProperties
<1>3. IsFiniteSet(I)
  <2>1. \A n \in Nat : IsFiniteSet(1 .. n)
    BY FS_Interval
  <2>2. IsFiniteSet(DOMAIN ledger[o])
    BY <1>2, <2>1
  <2> QED
    BY <2>2, FS_Subset
<1>4. \A i \in I : ledger[o][i] \in RowRecord
  BY <1>1, <1>2, ElementOfSeq
<1>5. \A i \in I : ledger[o][i].qty \in Nat
  BY <1>4 DEF RowRecord
<1> QED
  BY <1>3, <1>5, QtyFinite

(* The sums the ledger queries return are natural numbers. *)
LEMMA BookedNat ==
  ASSUME TypeOK, NEW o \in Orders, NEW K, NEW h, NEW t
  PROVE  Booked(o, K) \in Nat /\ BookedAt(o, K, h) \in Nat /\ BookedOn(o, K, t) \in Nat
BY RowsFinite DEF Booked, BookedAt, BookedOn, Rows, RowsAt, RowsOn

(* So are sums over the allocation lines of an order. *)
LEMMA TripSumNat ==
  ASSUME TypeOK, NEW o \in Orders, NEW T \in SUBSET Trips
  PROVE  /\ IsFiniteSet(T)
         /\ \A t \in T : [u \in Trips |-> line[u][o]][t].qty \in Nat
         /\ QtyOf([u \in Trips |-> line[u][o]], T) \in Nat
<1>1. IsFiniteSet(Trips)
  BY BoundsAssumption, FS_Interval DEF Trips
<1>2. IsFiniteSet(T)
  BY <1>1, FS_Subset
<1>3. \A t \in T : [u \in Trips |-> line[u][o]][t].qty \in Nat
  BY DEF TypeOK, LineRecord
<1> QED
  BY <1>2, <1>3, QtyFinite

(* What other outbound notes plan to ship is a natural number. *)
LEMMA ReservedNat ==
  ASSUME TypeOK, NEW o \in Orders, NEW h, NEW d
  PROVE  Reserved(o, h, d) \in Nat
BY TripSumNat DEF Reserved, ReservingTrips

(* A user types positive quantities for orders of the system. *)
LEMMA CargoType ==
  ASSUME NEW got \in Cargo
  PROVE  /\ DOMAIN got \subseteq Orders
         /\ \A o \in DOMAIN got : got[o] \in Nat /\ got[o] > 0
BY BoundsAssumption DEF Cargo

(* An allocated trip code is within the bound. *)
LEMMA CodesAreTrips ==
  ASSUME TypeOK
  PROVE  Codes \subseteq Trips /\ NoTrip \notin Trips /\ Trips \subseteq Nat
BY BoundsAssumption DEF TypeOK, Codes, Trips, NoTrip

-----------------------------------------------------------------------------
(* The order record each handler writes is an order record. *)

LEMMA NewOrderType ==
  ASSUME NEW h \in Hubs \cup {NoHub}, NEW st \in DraftLike \cup Stored,
         NEW total \in Nat, NEW stocked \in Nat
  PROVE  NewOrder(h, st, total, stocked) \in OrderRecord
BY DEF NewOrder, NoOrder, OrderRecord, NoTrip

(* quickCreateInboundOrder and batchCreateInboundOrders write an order record. *)
LEMMA IntakeType ==
  ASSUME TypeOK, NEW o \in Orders, NEW h \in Hubs, NEW q \in Nat, NEW draft \in BOOLEAN
  PROVE  Intake(o, h, q, draft) \in OrderRecord
<1>1. order[o] \in OrderRecord
  BY DEF TypeOK
<1>2. CASE IsUnborn(o)
  <2>1. (IF draft THEN "DRAFT" ELSE "INBOUND") \in DraftLike \cup Stored
    BY DEF DraftLike, Stored
  <2>2. (IF draft THEN 0 ELSE q) \in Nat
    OBVIOUS
  <2> QED
    BY <1>2, <2>1, <2>2, NewOrderType DEF Intake
<1>3. CASE ~IsUnborn(o)
  <2> DEFINE ord == order[o]
  <2>1. ord.total + q \in Nat /\ ord.inb + q \in Nat /\ ord.rem + q \in Nat
    BY <1>1 DEF OrderRecord
  <2>2. [ord EXCEPT !.total = ord.total + q] \in OrderRecord
    BY <1>1, <2>1 DEF OrderRecord
  <2>3. [ord EXCEPT !.total = q, !.inb = q, !.rem = q, !.status = "INBOUND"] \in OrderRecord
    BY <1>1 DEF OrderRecord, Stored
  <2>4. [ord EXCEPT !.total = ord.total + q, !.inb = ord.inb + q, !.rem = ord.rem + q, !.status = "INBOUND"]
          \in OrderRecord
    BY <1>1, <2>1 DEF OrderRecord, Stored
  <2> QED
    BY <1>3, <2>2, <2>3, <2>4, Zenon DEF Intake
<1> QED
  BY <1>2, <1>3

(* The receipt an administrator corrects is a row of the ledger. *)
LEMMA TheReceiptChosen ==
  ASSUME TypeOK, NEW o \in Orders, NEW t, NEW h, Duplicate(o, t, h)
  PROVE  TheReceipt(o, t, h) \in ReceiptsOf(o, t, h) /\ ReceiptsOf(o, t, h) \subseteq DOMAIN ledger[o]
BY DEF TheReceipt, Duplicate, ReceiptsOf, Rows, RowsAt, RowsOn

(* confirmInbound writes an order record, whichever branch a row takes. *)
LEMMA ReceivedOrderType ==
  ASSUME TypeOK, NEW o \in Orders, NEW h \in Hubs, NEW admin \in BOOLEAN,
         NEW t, NEW q \in Nat
  PROVE  ReceivedOrder(o, h, admin, t, q) \in OrderRecord
<1> DEFINE c == TripOf(o, h, admin, t)
<1>1. order[o] \in OrderRecord
  BY DEF TypeOK
<1>2. NewOrder(h, "INBOUND", q, q) \in OrderRecord
  BY NewOrderType DEF Stored
<1>3. ReceiveDraft(o, h, q) \in OrderRecord
  BY <1>1 DEF ReceiveDraft, OrderRecord, Stored, NoTrip
<1>4. ReceiveLocked(o, c, q) \in OrderRecord
  <2> HIDE DEF c
  <2>1. order[o].inb + q \in Nat /\ order[o].outb \in Nat /\ order[o].total \in Nat
    BY <1>1 DEF OrderRecord
  <2>2. Monus(order[o].inb + q, order[o].outb) \in Nat /\ Maximum(order[o].total, order[o].inb + q) \in Nat
    BY <2>1, MonusNat
  <2> QED
    BY <1>1, <2>1, <2>2 DEF ReceiveLocked, OrderRecord, Stored, NoTrip
<1>5. ASSUME NEW old \in Nat
      PROVE  CorrectReceipt(o, old, q) \in OrderRecord
  <2>1. order[o].inb + q \in Nat /\ order[o].outb \in Nat /\ order[o].total \in Nat
    BY <1>1 DEF OrderRecord
  <2>2. Monus(order[o].inb + q, old) \in Nat
    BY <2>1, MonusNat
  <2>3. /\ Maximum(order[o].total, Monus(order[o].inb + q, old)) \in Nat
        /\ Monus(Monus(order[o].inb + q, old), order[o].outb) \in Nat
    BY <2>1, <2>2, MonusNat
  <2> QED
    BY <1>1, <2>2, <2>3 DEF CorrectReceipt, OrderRecord
<1>6. Duplicate(o, c, h) => TheReceipt(o, c, h) \in DOMAIN ledger[o]
  BY TheReceiptChosen
<1>7. Duplicate(o, c, h) => ledger[o][TheReceipt(o, c, h)].qty \in Nat
  BY <1>6, RowsFinite
<1> QED
  BY <1>1, <1>2, <1>3, <1>4, <1>5, <1>7 DEF ReceivedOrder

(* confirmInbound appends or corrects an invoice of the right type. *)
LEMMA ReceivedLedgerType ==
  ASSUME TypeOK, NEW o \in Orders, NEW h \in Hubs, NEW admin \in BOOLEAN,
         NEW t \in Codes \cup {NoTrip}, NEW q \in Nat
  PROVE  ReceivedLedger(o, h, admin, t, q) \in Seq(RowRecord)
<1> DEFINE c == TripOf(o, h, admin, t)
<1>1. ledger[o] \in Seq(RowRecord)
  BY DEF TypeOK
<1>2. c \in Nat
  BY CodesAreTrips DEF TripOf, TypeOK, OrderRecord, NoTrip
<1>3. Row("INBOUND", h, c, q) \in RowRecord
  BY <1>2 DEF Row, RowRecord, Kinds, Receipt
<1>4. Append(ledger[o], Row("INBOUND", h, c, q)) \in Seq(RowRecord)
  BY <1>1, <1>3, AppendProperties
<1>5. CASE Skipped(o, h, admin, t) /\ admin
  <2> DEFINE i == TheReceipt(o, c, h)
             s == ledger[o]
  <2>1. i \in DOMAIN s
    BY <1>5, TheReceiptChosen DEF Skipped
  <2>2. i \in 1 .. Len(s) /\ s[i] \in RowRecord
    BY <1>1, <2>1, LenProperties, ElementOfSeq
  <2>3. [s[i] EXCEPT !.qty = q] \in RowRecord
    BY <2>2 DEF RowRecord
  <2>4. [s EXCEPT ![i] = [s[i] EXCEPT !.qty = q]] \in Seq(RowRecord)
    <3> HIDE DEF s, i
    <3> QED
      BY <1>1, <2>2, <2>3, ExceptSeq DEF s
  <2>5. ReceivedLedger(o, h, admin, t, q) = [s EXCEPT ![i].qty = q]
    BY <1>5 DEF ReceivedLedger
  <2> QED
    BY <2>4, <2>5
<1> QED
  BY <1>1, <1>4, <1>5 DEF ReceivedLedger

(* Taking a line out of a receiving note leaves an order record. *)
LEMMA RemovedOrderType ==
  ASSUME TypeOK, NEW o \in Orders, NEW t
  PROVE  RemovedOrder(o, t) \in OrderRecord
BY DEF RemovedOrder, Orphan, IsLive, TypeOK, OrderRecord, NoTrip

(* Saving a receiving note (targetStatus KEEP) leaves an order record. *)
LEMMA DraftedOrderType ==
  ASSUME TypeOK, NEW o \in Orders, NEW h \in Hubs, NEW admin \in BOOLEAN, NEW q \in Nat
  PROVE  DraftedOrder(o, h, admin, q) \in OrderRecord
<1>1. order[o] \in OrderRecord
  BY DEF TypeOK
<1>2. NewOrder(h, "DRAFT", q, q) \in OrderRecord
  BY NewOrderType DEF DraftLike
<1>3. Monus(q, order[o].outb) \in Nat
  BY <1>1, MonusNat DEF OrderRecord
<1> QED
  <2>1. [order[o] EXCEPT !.total = q, !.origin = IF order[o].origin = NoHub THEN h ELSE order[o].origin]
          \in OrderRecord
    BY <1>1 DEF OrderRecord
  <2>2. [order[o] EXCEPT !.total = q, !.inb = q, !.rem = Monus(q, order[o].outb),
                         !.origin = IF order[o].origin = NoHub THEN h ELSE order[o].origin] \in OrderRecord
    BY <1>1, <1>3 DEF OrderRecord
  <2> QED
    BY <1>1, <1>2, <2>1, <2>2, Zenon DEF DraftedOrder

(* confirmOutbound writes an order record, with a status of a stored order. *)
LEMMA DispatchedOrderType ==
  ASSUME TypeOK, NEW o \in Orders, NEW t \in Nat, NEW q \in Nat, NEW to
  PROVE  DispatchedOrder(o, t, q, to) \in OrderRecord
<1>1. order[o] \in OrderRecord
  BY DEF TypeOK
<1>0. order[o].outb \in Nat /\ order[o].rem \in Nat
  BY <1>1 DEF OrderRecord
<1>2. order[o].outb + q \in Nat /\ Monus(order[o].rem, q) \in Nat
  <2>1. order[o].outb + q \in Nat
    BY <1>0
  <2>2. Monus(order[o].rem, q) \in Nat
    BY <1>0, MonusNat, Zenon
  <2> QED
    BY <2>1, <2>2
<1>3. ASSUME NEW out \in Nat, NEW rem \in Nat, NEW st \in Stored, NEW tr \in Nat
      PROVE  [order[o] EXCEPT !.outb = out, !.rem = rem, !.status = st, !.trip = tr] \in OrderRecord
  BY <1>1 DEF OrderRecord
<1> DEFINE rem == Monus(order[o].rem, q)
           st == IF rem = 0 THEN "COMPLETED_INBOUND" ELSE "INBOUND"
           tr == IF to = NoHub THEN order[o].trip ELSE t
<1>4. rem \in Nat /\ st \in Stored /\ tr \in Nat
  BY <1>1, <1>2 DEF OrderRecord, Stored
<1>5. DispatchedOrder(o, t, q, to)
        = [order[o] EXCEPT !.outb = order[o].outb + q, !.rem = rem, !.status = st, !.trip = tr]
  BY DEF DispatchedOrder
<1> HIDE DEF rem, st, tr
<1>6. [order[o] EXCEPT !.outb = order[o].outb + q, !.rem = rem, !.status = st, !.trip = tr] \in OrderRecord
  BY <1>2, <1>3, <1>4, Zenon
<1> QED
  BY <1>5, <1>6

(* The counters rebuilt from the ledger make an order record. *)
LEMMA ReconciledType ==
  ASSUME TypeOK, NEW o \in Orders, NEW t
  PROVE  Reconciled(o, t) \in OrderRecord
<1>1. order[o] \in OrderRecord
  BY DEF TypeOK
<1>2. Booked(o, Receipt) \in Nat /\ Booked(o, Dispatch) \in Nat
  BY BookedNat
<1>3. Monus(Booked(o, Receipt), Booked(o, Dispatch)) \in Nat
  BY <1>2, MonusNat
<1>4. StillPending(o, t) \in Nat
  BY TripSumNat DEF StillPending
<1>5. Booked(o, Receipt) + StillPending(o, t) \in Nat
  BY <1>2, <1>4
<1> DEFINE inb == Booked(o, Receipt)
           outb == Booked(o, Dispatch)
           rem == Monus(inb, outb)
           total == inb + StillPending(o, t)
           st == IF rem = 0 /\ outb > 0 THEN "COMPLETED_INBOUND"
                 ELSE IF inb > 0 THEN "INBOUND" ELSE order[o].status
<1>6. st \in {Unborn} \cup DraftLike \cup Stored
  BY <1>1 DEF OrderRecord, Stored
<1>7. inb \in Nat /\ outb \in Nat /\ rem \in Nat /\ total \in Nat
  BY <1>2, <1>3, <1>5
<1>8. Reconciled(o, t) = order[o] \/ Reconciled(o, t)
        = [order[o] EXCEPT !.inb = inb, !.outb = outb, !.rem = rem, !.total = total, !.status = st]
  BY Zenon DEF Reconciled
<1> HIDE DEF inb, outb, rem, total, st
<1>9. [order[o] EXCEPT !.inb = inb, !.outb = outb, !.rem = rem, !.total = total, !.status = st] \in OrderRecord
  BY <1>1, <1>6, <1>7 DEF OrderRecord
<1> QED
  BY <1>1, <1>8, <1>9

(* cancelInboundDraft deletes or reconciles into an order record. *)
LEMMA CancelledOrderType ==
  ASSUME TypeOK, NEW o \in Orders, NEW t
  PROVE  CancelledOrder(o, t) \in OrderRecord
<1>1. order[o] \in OrderRecord
  BY DEF TypeOK
<1>2. Reconciled(o, t) \in OrderRecord
  BY ReconciledType
<1>3. [order[o] EXCEPT !.live = FALSE] \in OrderRecord
  BY <1>1 DEF OrderRecord
<1> QED
  BY <1>1, <1>2, <1>3, Zenon DEF CancelledOrder

-----------------------------------------------------------------------------
(* Lines and stops. *)

LEMMA LineType ==
  ASSUME TypeOK
  PROVE  /\ NoLine \in LineRecord /\ DeletedLine \in LineRecord
         /\ \A st \in {"PENDING", "IN_TRANSIT", "COMPLETED"}, k \in Kinds, h \in Hubs, q \in Nat :
              Line(st, k, h, q) \in LineRecord
         /\ \A t \in Trips, o \in Orders, q \in Nat :
              line[t][o] \in LineRecord /\ [line[t][o] EXCEPT !.qty = q] \in LineRecord
         /\ \A l \in LineRecord, done \in BOOLEAN : Sweep(l, done) \in LineRecord
<1>1. NoLine \in LineRecord /\ DeletedLine \in LineRecord
  BY DEF LineRecord, NoLine, DeletedLine, Kinds, Receipt
<1>2. ASSUME NEW st \in {"PENDING", "IN_TRANSIT", "COMPLETED"}, NEW k \in Kinds, NEW h \in Hubs, NEW q \in Nat
      PROVE  Line(st, k, h, q) \in LineRecord
  BY DEF LineRecord, Line
<1>3. ASSUME NEW t \in Trips, NEW o \in Orders, NEW q \in Nat
      PROVE  line[t][o] \in LineRecord /\ [line[t][o] EXCEPT !.qty = q] \in LineRecord
  <2>1. line[t][o] \in LineRecord
    BY DEF TypeOK
  <2> QED
    BY <2>1 DEF LineRecord
<1>4. ASSUME NEW l \in LineRecord, NEW done \in BOOLEAN
      PROVE  Sweep(l, done) \in LineRecord
  BY DEF LineRecord, Sweep
<1> QED
  BY <1>1, <1>2, <1>3, <1>4

(* upsertTripStop and the soft delete of pending stops write stop statuses. *)
LEMMA StopType ==
  ASSUME TypeOK, NEW t \in Trips, NEW H, NEW st \in {"PENDING", "COMPLETED"}
  PROVE  /\ Upsert(stop[t], H, st) \in [Hubs -> {"NONE", "DELETED", "PENDING", "COMPLETED"}]
         /\ DropPending(stop[t], H) \in [Hubs -> {"NONE", "DELETED", "PENDING", "COMPLETED"}]
         /\ \A G : Upsert(Upsert(stop[t], H, "COMPLETED"), G, "PENDING")
                     \in [Hubs -> {"NONE", "DELETED", "PENDING", "COMPLETED"}]
BY DEF TypeOK, Upsert, DropPending

(* confirmInbound creates, updates and sweeps allocation lines of the right type. *)
LEMMA ReceivedLineType ==
  ASSUME TypeOK, NEW c \in Trips, NEW o \in Orders, NEW h \in Hubs, NEW admin \in BOOLEAN,
         NEW t, NEW q \in Nat, NEW keep \in BOOLEAN
  PROVE  ReceivedLine(c, o, h, admin, t, q, keep) \in LineRecord
<1>1. line[c][o] \in LineRecord
  BY DEF TypeOK
<1>2. [line[c][o] EXCEPT !.qty = q] \in LineRecord
  BY <1>1 DEF LineRecord
<1>3. [line[c][o] EXCEPT !.qty = q, !.status = IF keep THEN line[c][o].status ELSE "COMPLETED"] \in LineRecord
  BY <1>1 DEF LineRecord
<1>4. Line(IF keep THEN "PENDING" ELSE "COMPLETED", "INBOUND", h, q) \in LineRecord
  BY DEF LineRecord, Line, Kinds, Receipt
<1> QED
  BY <1>1, <1>2, <1>3, <1>4, Zenon DEF ReceivedLine
-----------------------------------------------------------------------------
(* Type correctness: the inputs of every handler lead from well-typed tables *)
(* to well-typed tables.                                                     *)

LEMMA InitType == Init => TypeOK
BY BoundsAssumption DEF Init, TypeOK, OrderRecord, NoOrder, LineRecord, NoLine, Kinds, Receipt, NoTrip

(* OrdersService.create keeps the tables well typed. *)
LEMMA CreateOrderType ==
  ASSUME TypeOK, NEW o \in Orders, NEW h \in Hubs \cup {NoHub}, NEW q \in 1 .. MaxQty, CreateOrder(o, h, q)
  PROVE  TypeOK'
<1>1. q \in Nat
  OBVIOUS
<1>2. NewOrder(h, "DRAFT", q, q) \in OrderRecord
  BY <1>1, NewOrderType DEF DraftLike
<1> QED
  BY <1>2 DEF CreateOrder, TypeOK

(* quickCreateInboundOrder keeps the tables well typed. *)
LEMMA QuickCreateType ==
  ASSUME TypeOK, NEW o \in Orders, NEW h \in Hubs, NEW q \in 1 .. MaxQty, NEW d \in BOOLEAN,
         QuickCreateInbound(o, h, q, d)
  PROVE  TypeOK'
<1>1. q \in Nat
  OBVIOUS
<1>2. Intake(o, h, q, d) \in OrderRecord
  BY <1>1, IntakeType
<1>3. Append(ledger[o], Row("INBOUND", h, NoTrip, q)) \in Seq(RowRecord)
  <2>1. Row("INBOUND", h, NoTrip, q) \in RowRecord
    BY <1>1 DEF Row, RowRecord, Kinds, Receipt, NoTrip
  <2> QED
    BY <2>1, AppendProperties DEF TypeOK
<1>4. order' \in [Orders -> OrderRecord]
  BY <1>2 DEF QuickCreateInbound, TypeOK
<1>5. ledger' \in [Orders -> Seq(RowRecord)]
  BY <1>3 DEF QuickCreateInbound, TypeOK
<1> QED
  BY <1>4, <1>5 DEF QuickCreateInbound, TypeOK

(* batchCreateInboundOrders keeps the tables well typed. *)
LEMMA BatchCreateType ==
  ASSUME TypeOK, NEW h \in Hubs, NEW got \in Cargo, NEW drafts \in SUBSET Orders,
         BatchCreateInbound(h, got, drafts)
  PROVE  TypeOK'
<1> DEFINE t == lastTrip + 1
           S == DOMAIN got
<1>1. S \subseteq Orders /\ \A o \in S : got[o] \in Nat
  BY CargoType
<1>2. t \in Trips /\ t \in 0 .. MaxTrips /\ t \in Nat
  BY BoundsAssumption DEF BatchCreateInbound, TypeOK, Trips
<1>3. order' \in [Orders -> OrderRecord]
  <2>1. \A o \in S : Intake(o, h, got[o], o \in drafts) \in OrderRecord
    <3>1. \A o \in S : (o \in drafts) \in BOOLEAN
      OBVIOUS
    <3> QED
      BY <1>1, <3>1, IntakeType, Zenon
  <2> QED
    BY <2>1 DEF BatchCreateInbound, TypeOK
<1>4. ledger' \in [Orders -> Seq(RowRecord)]
  <2>1. \A o \in S : Row("INBOUND", h, t, got[o]) \in RowRecord
    BY <1>1, <1>2 DEF Row, RowRecord, Kinds, Receipt
  <2>2. \A o \in S : Append(ledger[o], Row("INBOUND", h, t, got[o])) \in Seq(RowRecord)
    BY <1>1, <2>1, AppendProperties DEF TypeOK
  <2> QED
    BY <2>2 DEF BatchCreateInbound, TypeOK
<1>5. line' \in [Trips -> [Orders -> LineRecord]]
  <2>1. \A o \in S : Line(IF o \in drafts THEN "PENDING" ELSE "COMPLETED", "INBOUND", h, got[o]) \in LineRecord
    BY <1>1 DEF Line, LineRecord, Kinds, Receipt
  <2> QED
    BY <2>1, <1>2 DEF BatchCreateInbound, TypeOK
<1>6. stop' \in [Trips -> [Hubs -> {"NONE", "DELETED", "PENDING", "COMPLETED"}]]
  <2>1. \A st \in {"PENDING", "COMPLETED"} :
          Upsert(stop[t], {h}, st) \in [Hubs -> {"NONE", "DELETED", "PENDING", "COMPLETED"}]
    BY <1>2, StopType
  <2> QED
    BY <2>1, <1>2 DEF BatchCreateInbound, TypeOK
<1>7. lastTrip' \in 0 .. MaxTrips
  BY <1>2 DEF BatchCreateInbound
<1> QED
  BY <1>3, <1>4, <1>5, <1>6, <1>7 DEF TypeOK

(* confirmInbound keeps the tables well typed. *)
LEMMA ConfirmInboundType ==
  ASSUME TypeOK, NEW h \in Hubs, NEW admin \in BOOLEAN, NEW t \in Codes \cup {NoTrip},
         NEW got \in Cargo, NEW keep \in BOOLEAN, ConfirmInbound(h, admin, t, got, keep)
  PROVE  TypeOK'
<1> DEFINE S == DOMAIN got
<1>1. S \subseteq Orders /\ \A o \in S : got[o] \in Nat
  BY CargoType
<1>2. order' \in [Orders -> OrderRecord]
  <2>1. \A o \in S : ReceivedOrder(o, h, admin, t, got[o]) \in OrderRecord
    BY <1>1, ReceivedOrderType
  <2>2. \A o \in Orders : RemovedOrder(o, t) \in OrderRecord /\ order[o] \in OrderRecord
    BY RemovedOrderType DEF TypeOK
  <2> QED
    BY <2>1, <2>2 DEF ConfirmInbound
<1>3. ledger' \in [Orders -> Seq(RowRecord)]
  <2>1. \A o \in S : ReceivedLedger(o, h, admin, t, got[o]) \in Seq(RowRecord)
    BY <1>1, ReceivedLedgerType
  <2> QED
    BY <2>1 DEF ConfirmInbound, TypeOK
<1>4. stop' \in [Trips -> [Hubs -> {"NONE", "DELETED", "PENDING", "COMPLETED"}]]
  <2>1. \A c \in Trips : ReceivedStops(c, h, keep) \in [Hubs -> {"NONE", "DELETED", "PENDING", "COMPLETED"}]
    BY StopType DEF ReceivedStops
  <2> QED
    BY <2>1 DEF ConfirmInbound, TypeOK
<1>5. line' \in [Trips -> [Orders -> LineRecord]]
  <2>1. \A c \in Trips, o \in S : ReceivedLine(c, o, h, admin, t, got[o], keep) \in LineRecord
    BY <1>1, ReceivedLineType
  <2>3. \A l : l \in LineRecord => \A P : Sweep(l, P) \in LineRecord
    BY DEF Sweep, LineRecord
  <2>4. DeletedLine \in LineRecord /\ \A c \in Trips, o \in Orders : line[c][o] \in LineRecord
    BY LineType
  <2> DEFINE gone == Removed(t, h, S, keep)
             on(c) == {o \in S : TripOf(o, h, admin, t) = c}
             processed == {c \in Trips : on(c) # {}}
             before(c, o) == IF o \in on(c) THEN ReceivedLine(c, o, h, admin, t, got[o], keep)
                             ELSE IF c = t /\ o \in gone THEN DeletedLine ELSE line[c][o]
             done(c) == c \in processed /\ ~keep /\ ~AnyPending(ReceivedStops(c, h, keep))
  <2>5. line' = [c \in Trips |-> [o \in Orders |-> Sweep(before(c, o), done(c))]]
    BY DEF ConfirmInbound
  <2>6. \A c \in Trips, o \in Orders : before(c, o) \in LineRecord
    BY <2>1, <2>4
  <2> HIDE DEF before, done
  <2> QED
    BY <2>3, <2>5, <2>6
<1> QED
  BY <1>2, <1>3, <1>4, <1>5 DEF ConfirmInbound, TypeOK

(* confirmInbound with targetStatus KEEP keeps the tables well typed. *)
LEMMA SaveInboundDraftType ==
  ASSUME TypeOK, NEW h \in Hubs, NEW admin \in BOOLEAN, NEW t \in Codes, NEW got \in Cargo,
         SaveInboundDraft(h, admin, t, got)
  PROVE  TypeOK'
<1> DEFINE S == DOMAIN got
<1>1. S \subseteq Orders /\ t \in Trips /\ \A o \in S : got[o] \in Nat
  BY CargoType, CodesAreTrips
<1>2. order' \in [Orders -> OrderRecord]
  <2>1. \A o \in S : DraftedOrder(o, h, admin, got[o]) \in OrderRecord
    BY <1>1, DraftedOrderType
  <2>2. \A o \in Orders : RemovedOrder(o, t) \in OrderRecord /\ order[o] \in OrderRecord
    BY RemovedOrderType DEF TypeOK
  <2> QED
    BY <2>1, <2>2 DEF SaveInboundDraft
<1>3. line' \in [Trips -> [Orders -> LineRecord]]
  <2>1. \A o \in S : [line[t][o] EXCEPT !.qty = got[o]] \in LineRecord
                       /\ Line("PENDING", "INBOUND", h, got[o]) \in LineRecord
    BY <1>1, LineType DEF Kinds, Receipt
  <2>2. DeletedLine \in LineRecord /\ \A o \in Orders : line[t][o] \in LineRecord
    BY <1>1, LineType
  <2> QED
    BY <1>1, <2>1, <2>2 DEF SaveInboundDraft, TypeOK
<1>4. stop' \in [Trips -> [Hubs -> {"NONE", "DELETED", "PENDING", "COMPLETED"}]]
  BY <1>1, StopType DEF SaveInboundDraft, TypeOK
<1> QED
  BY <1>2, <1>3, <1>4 DEF SaveInboundDraft, TypeOK

(* The trip and the lines a dispatch or an outbound note writes. *)
LEMMA PlannedType ==
  ASSUME TypeOK, NEW h \in Hubs, NEW load \in Cargo, NEW to, NEW t \in Trips,
         NEW st \in {"PENDING", "IN_TRANSIT"}
  PROVE  Planned(t, h, load, to, st) \in [Orders -> LineRecord]
<1>1. DOMAIN load \subseteq Orders /\ \A o \in DOMAIN load : load[o] \in Nat
  BY CargoType
<1>2. OutKind(to) \in Kinds
  BY DEF OutKind, Kinds, Dispatch
<1>3. \A o \in DOMAIN load : Line(st, OutKind(to), h, load[o]) \in LineRecord
  BY <1>1, <1>2, LineType
<1>4. DeletedLine \in LineRecord /\ \A o \in Orders : line[t][o] \in LineRecord
  BY LineType
<1> QED
  BY <1>3, <1>4 DEF Planned

(* A dispatch writes on an allocated code: the saved note's, or the next one. *)
LEMMA TripForType ==
  ASSUME TypeOK, NEW d \in Codes \cup {NoTrip}, TripFor(d) <= MaxTrips
  PROVE  /\ TripFor(d) \in Trips /\ TripFor(d) \in Nat
         /\ (IF d = NoTrip THEN TripFor(d) ELSE lastTrip) \in 0 .. MaxTrips
<1>1. CASE d = NoTrip
  BY <1>1, BoundsAssumption DEF TripFor, TypeOK, Trips
<1>2. CASE d # NoTrip
  <2>1. d \in Trips /\ d \in Nat
    BY <1>2, CodesAreTrips
  <2> QED
    BY <1>2, <2>1 DEF TripFor, TypeOK
<1> QED
  BY <1>1, <1>2

(* confirmOutbound keeps the tables well typed. *)
LEMMA ConfirmOutboundType ==
  ASSUME TypeOK, NEW h \in Hubs, NEW load \in Cargo, NEW to \in Hubs \cup {NoHub},
         NEW d \in Codes \cup {NoTrip}, ConfirmOutbound(h, load, to, d)
  PROVE  TypeOK'
<1> DEFINE S == DOMAIN load
           t == TripFor(d)
<1>1. S \subseteq Orders /\ \A o \in S : load[o] \in Nat
  BY CargoType
<1>2. t \in Trips /\ t \in Nat /\ lastTrip' \in 0 .. MaxTrips
  BY TripForType DEF ConfirmOutbound
<1> HIDE DEF t
<1>3. order' \in [Orders -> OrderRecord]
  <2>1. \A o \in S : DispatchedOrder(o, t, load[o], to) \in OrderRecord
    BY <1>1, <1>2, DispatchedOrderType
  <2> QED
    BY <2>1 DEF ConfirmOutbound, TypeOK, t
<1>4. ledger' \in [Orders -> Seq(RowRecord)]
  <2>1. \A o \in S : Row(OutKind(to), h, t, load[o]) \in RowRecord
    BY <1>1, <1>2 DEF Row, RowRecord, Kinds, Dispatch, OutKind
  <2>2. \A o \in S : Append(ledger[o], Row(OutKind(to), h, t, load[o])) \in Seq(RowRecord)
    BY <1>1, <2>1, AppendProperties DEF TypeOK
  <2> QED
    BY <2>2 DEF ConfirmOutbound, TypeOK, t
<1>5. line' \in [Trips -> [Orders -> LineRecord]]
  <2>1. Planned(t, h, load, to, "IN_TRANSIT") \in [Orders -> LineRecord]
    BY <1>2, PlannedType
  <2> QED
    BY <2>1 DEF ConfirmOutbound, TypeOK, t
<1>6. stop' \in [Trips -> [Hubs -> {"NONE", "DELETED", "PENDING", "COMPLETED"}]]
  <2>1. Upsert(Upsert(stop[t], {h}, "COMPLETED"), Targets(S, h, to), "PENDING")
          \in [Hubs -> {"NONE", "DELETED", "PENDING", "COMPLETED"}]
    BY <1>2, StopType
  <2> QED
    BY <2>1 DEF ConfirmOutbound, TypeOK, t
<1> QED
  BY <1>2, <1>3, <1>4, <1>5, <1>6 DEF TypeOK

(* saveOutboundDraft keeps the tables well typed. *)
LEMMA SaveOutboundDraftType ==
  ASSUME TypeOK, NEW h \in Hubs, NEW load \in Cargo, NEW to \in Hubs \cup {NoHub},
         NEW d \in Codes \cup {NoTrip}, SaveOutboundDraft(h, load, to, d)
  PROVE  TypeOK'
<1> DEFINE t == TripFor(d)
<1>1. t \in Trips /\ lastTrip' \in 0 .. MaxTrips
  BY TripForType DEF SaveOutboundDraft
<1> HIDE DEF t
<1>2. line' \in [Trips -> [Orders -> LineRecord]]
  <2>1. Planned(t, h, load, to, "PENDING") \in [Orders -> LineRecord]
    BY <1>1, PlannedType
  <2> QED
    BY <2>1 DEF SaveOutboundDraft, TypeOK, t
<1>3. stop' \in [Trips -> [Hubs -> {"NONE", "DELETED", "PENDING", "COMPLETED"}]]
  <2>1. Upsert(stop[t], {h} \cup ({to} \ {NoHub}), "PENDING")
          \in [Hubs -> {"NONE", "DELETED", "PENDING", "COMPLETED"}]
    BY <1>1, StopType
  <2> QED
    BY <2>1 DEF SaveOutboundDraft, TypeOK, t
<1> QED
  BY <1>1, <1>2, <1>3 DEF SaveOutboundDraft, TypeOK

(* So they are when an administrator dispatches from several hubs. *)
LEMMA PlannedFromType ==
  ASSUME TypeOK, NEW load \in Cargo, NEW at \in [DOMAIN load -> Hubs], NEW to, NEW t \in Trips,
         NEW st \in {"PENDING", "IN_TRANSIT"}
  PROVE  PlannedFrom(t, at, load, to, st) \in [Orders -> LineRecord]
<1>1. DOMAIN load \subseteq Orders /\ \A o \in DOMAIN load : load[o] \in Nat
  BY CargoType
<1>2. OutKind(to) \in Kinds
  BY DEF OutKind, Kinds, Dispatch
<1>3. \A o \in DOMAIN load : Line(st, OutKind(to), at[o], load[o]) \in LineRecord
  BY <1>1, <1>2, LineType
<1>4. DeletedLine \in LineRecord /\ \A o \in Orders : line[t][o] \in LineRecord
  BY LineType
<1> QED
  BY <1>3, <1>4 DEF PlannedFrom

LEMMA AdminConfirmOutboundType ==
  ASSUME TypeOK, NEW load \in Cargo, NEW at \in [DOMAIN load -> Hubs], NEW first \in DOMAIN load,
         NEW to \in Hubs \cup {NoHub}, NEW d \in Codes \cup {NoTrip},
         AdminConfirmOutbound(at, first, load, to, d)
  PROVE  TypeOK'
<1> DEFINE S == DOMAIN load
           t == TripFor(d)
<1>1. S \subseteq Orders /\ \A o \in S : load[o] \in Nat /\ at[o] \in Hubs
  BY CargoType
<1>2. t \in Trips /\ t \in Nat /\ lastTrip' \in 0 .. MaxTrips
  BY TripForType DEF AdminConfirmOutbound
<1> HIDE DEF t
<1>3. order' \in [Orders -> OrderRecord]
  <2>1. \A o \in S : DispatchedOrder(o, t, load[o], to) \in OrderRecord
    BY <1>1, <1>2, DispatchedOrderType
  <2> QED
    BY <2>1 DEF AdminConfirmOutbound, TypeOK, t
<1>4. ledger' \in [Orders -> Seq(RowRecord)]
  <2>1. \A o \in S : Row(OutKind(to), at[o], t, load[o]) \in RowRecord
    BY <1>1, <1>2 DEF Row, RowRecord, Kinds, Dispatch, OutKind
  <2>2. \A o \in S : Append(ledger[o], Row(OutKind(to), at[o], t, load[o])) \in Seq(RowRecord)
    BY <1>1, <2>1, AppendProperties DEF TypeOK
  <2> QED
    BY <2>2 DEF AdminConfirmOutbound, TypeOK, t
<1>5. line' \in [Trips -> [Orders -> LineRecord]]
  <2>1. PlannedFrom(t, at, load, to, "IN_TRANSIT") \in [Orders -> LineRecord]
    BY <1>2, PlannedFromType
  <2> QED
    BY <2>1 DEF AdminConfirmOutbound, TypeOK, t
<1>6. stop' \in [Trips -> [Hubs -> {"NONE", "DELETED", "PENDING", "COMPLETED"}]]
  <2>1. Upsert(Upsert(stop[t], {at[first]}, "COMPLETED"), Targets(S, at[first], to), "PENDING")
          \in [Hubs -> {"NONE", "DELETED", "PENDING", "COMPLETED"}]
    BY <1>2, StopType
  <2> QED
    BY <2>1 DEF AdminConfirmOutbound, TypeOK, t
<1> QED
  BY <1>2, <1>3, <1>4, <1>5, <1>6 DEF TypeOK

LEMMA AdminSaveOutboundDraftType ==
  ASSUME TypeOK, NEW load \in Cargo, NEW at \in [DOMAIN load -> Hubs], NEW first \in DOMAIN load,
         NEW to \in Hubs \cup {NoHub}, NEW d \in Codes \cup {NoTrip},
         AdminSaveOutboundDraft(at, first, load, to, d)
  PROVE  TypeOK'
<1> DEFINE t == TripFor(d)
<1>1. t \in Trips /\ lastTrip' \in 0 .. MaxTrips
  BY TripForType DEF AdminSaveOutboundDraft
<1> HIDE DEF t
<1>2. line' \in [Trips -> [Orders -> LineRecord]]
  <2>1. PlannedFrom(t, at, load, to, "PENDING") \in [Orders -> LineRecord]
    BY <1>1, PlannedFromType
  <2> QED
    BY <2>1 DEF AdminSaveOutboundDraft, TypeOK, t
<1>3. stop' \in [Trips -> [Hubs -> {"NONE", "DELETED", "PENDING", "COMPLETED"}]]
  <2>1. Upsert(stop[t], {at[first]} \cup ({to} \ {NoHub}), "PENDING")
          \in [Hubs -> {"NONE", "DELETED", "PENDING", "COMPLETED"}]
    BY <1>1, StopType
  <2> QED
    BY <2>1 DEF AdminSaveOutboundDraft, TypeOK, t
<1> QED
  BY <1>1, <1>2, <1>3 DEF AdminSaveOutboundDraft, TypeOK

(* cancelOutboundDraft keeps the tables well typed. *)
LEMMA CancelOutboundDraftType ==
  ASSUME TypeOK, NEW h \in Hubs \cup {NoHub}, NEW t \in Codes, CancelOutboundDraft(h, t)
  PROVE  TypeOK'
<1>1. t \in Trips
  BY CodesAreTrips
<1>2. line' \in [Trips -> [Orders -> LineRecord]]
  BY <1>1, LineType DEF CancelOutboundDraft, TypeOK
<1>3. stop' \in [Trips -> [Hubs -> {"NONE", "DELETED", "PENDING", "COMPLETED"}]]
  BY <1>1, StopType DEF CancelOutboundDraft, TypeOK
<1> QED
  BY <1>2, <1>3 DEF CancelOutboundDraft, TypeOK

(* cancelInboundDraft keeps the tables well typed. *)
LEMMA CancelInboundDraftType ==
  ASSUME TypeOK, NEW h \in Hubs, NEW t \in Codes, CancelInboundDraft(h, t)
  PROVE  TypeOK'
<1>1. t \in Trips
  BY CodesAreTrips
<1>2. order' \in [Orders -> OrderRecord]
  BY CancelledOrderType DEF CancelInboundDraft
<1>3. line' \in [Trips -> [Orders -> LineRecord]]
  BY <1>1, LineType DEF CancelInboundDraft, TypeOK
<1>4. stop' \in [Trips -> [Hubs -> {"NONE", "DELETED", "PENDING", "COMPLETED"}]]
  BY <1>1, StopType DEF CancelInboundDraft, TypeOK
<1> QED
  BY <1>2, <1>3, <1>4 DEF CancelInboundDraft, TypeOK

(* updateTransitStep keeps the tables well typed. *)
LEMMA UpdateTransitStepType ==
  ASSUME TypeOK, NEW h \in Hubs, NEW t \in Codes, UpdateTransitStep(h, t)
  PROVE  TypeOK'
BY CodesAreTrips DEF UpdateTransitStep, TypeOK

(* No handler writes a table out of its type. *)
LEMMA TypeStep == TypeOK /\ [Next]_vars => TypeOK'
<1> SUFFICES ASSUME TypeOK, [Next]_vars PROVE TypeOK'
  OBVIOUS
<1>1. CASE UNCHANGED vars
  BY <1>1 DEF vars, TypeOK
<1> QED
  BY <1>1, CreateOrderType, QuickCreateType, BatchCreateType, ConfirmInboundType, SaveInboundDraftType,
     ConfirmOutboundType, SaveOutboundDraftType, CancelOutboundDraftType, CancelInboundDraftType,
     UpdateTransitStepType, AdminConfirmOutboundType, AdminSaveOutboundDraftType
     DEF Next, HubNext, AdminOutbound

(* The tables stay well typed whatever the handlers accept: the Math.max(0, *)
(* ..) of every counter keeps it a natural number.                          *)
THEOREM TypeCorrect == Spec => []TypeOK
BY InitType, TypeStep, PTL DEF Spec

(* Routine use is a part of what the handlers accept. *)
LEMMA RoutineOfHubs == RoutineNext => HubNext
<1> SUFFICES ASSUME RoutineNext PROVE HubNext
  OBVIOUS
<1>1. ASSUME NEW h \in Hubs, NEW t \in Codes \cup {NoTrip}, NEW got \in Cargo, NEW keep \in BOOLEAN,
             ConfirmInbound(h, FALSE, t, got, keep)
      PROVE  HubNext
  <2>1. \E admin \in BOOLEAN : ConfirmInbound(h, admin, t, got, keep)
    BY <1>1
  <2> QED
    BY <2>1, Zenon DEF HubNext
<1>2. ASSUME NEW h \in Hubs, NEW t \in Codes, NEW got \in Cargo, SaveInboundDraft(h, FALSE, t, got)
      PROVE  HubNext
  <2>1. \E admin \in BOOLEAN : SaveInboundDraft(h, admin, t, got)
    BY <1>2
  <2> QED
    BY <2>1, Zenon DEF HubNext
<1>3. ASSUME NEW h \in Hubs, NEW t \in Codes, CancelOutboundDraft(h, t)
      PROVE  HubNext
  <2>1. \E g \in Hubs \cup {NoHub} : CancelOutboundDraft(g, t)
    BY <1>3
  <2> QED
    BY <2>1, Zenon DEF HubNext
<1> QED
  BY <1>1, <1>2, <1>3, Zenon DEF RoutineNext, HubNext

LEMMA RoutineAllowed == RoutineNext => Next
BY RoutineOfHubs DEF Next

(* So they do under routine use. *)
THEOREM RoutineTypeCorrect == RoutineSpec => []TypeOK
<1>1. RoutineSpec => Spec
  BY RoutineAllowed, PTL DEF RoutineSpec, Spec
<1> QED
  BY <1>1, TypeCorrect, PTL

-----------------------------------------------------------------------------
(* A processed stop stays processed, whatever the handlers do next: each of *)
(* them writes stops through upsertTripStop or touches only pending ones.   *)

LEMMA StopStep ==
  ASSUME TypeOK, Next, NEW t \in Trips, NEW h \in Hubs, stop[t][h] = "COMPLETED"
  PROVE  stop'[t][h] = "COMPLETED"
<1>1. \A H, st : Upsert(stop[t], H, st)[h] = "COMPLETED"
  BY DEF Upsert
<1>2. \A H, G : Upsert(Upsert(stop[t], H, "COMPLETED"), G, "PENDING")[h] = "COMPLETED"
  BY DEF Upsert
<1>3. \A H : DropPending(stop[t], H)[h] = "COMPLETED"
  BY DEF DropPending
<1>4. stop \in [Trips -> [Hubs -> {"NONE", "DELETED", "PENDING", "COMPLETED"}]]
  BY DEF TypeOK
<1>5. ASSUME NEW o \in Orders, NEW g \in Hubs \cup {NoHub}, NEW q \in 1 .. MaxQty, CreateOrder(o, g, q)
      PROVE  stop' = stop
  BY <1>5 DEF CreateOrder
<1>6. ASSUME NEW o \in Orders, NEW g \in Hubs, NEW q \in 1 .. MaxQty, NEW d \in BOOLEAN,
             QuickCreateInbound(o, g, q, d)
      PROVE  stop' = stop
  BY <1>6 DEF QuickCreateInbound
<1>7. ASSUME NEW g \in Hubs, NEW got \in Cargo, NEW drafts \in SUBSET Orders, BatchCreateInbound(g, got, drafts)
      PROVE  stop'[t][h] = "COMPLETED"
  BY <1>1, <1>4, <1>7 DEF BatchCreateInbound
<1>8. ASSUME NEW g \in Hubs, NEW admin \in BOOLEAN, NEW c \in Codes \cup {NoTrip}, NEW got \in Cargo,
             NEW keep \in BOOLEAN, ConfirmInbound(g, admin, c, got, keep)
      PROVE  stop'[t][h] = "COMPLETED"
  BY <1>1, <1>4, <1>8 DEF ConfirmInbound, ReceivedStops
<1>9. ASSUME NEW g \in Hubs, NEW admin \in BOOLEAN, NEW c \in Codes, NEW got \in Cargo,
             SaveInboundDraft(g, admin, c, got)
      PROVE  stop'[t][h] = "COMPLETED"
  BY <1>1, <1>4, <1>9 DEF SaveInboundDraft
<1>10. ASSUME NEW g \in Hubs, NEW load \in Cargo, NEW to \in Hubs \cup {NoHub}, NEW d \in Codes \cup {NoTrip},
              ConfirmOutbound(g, load, to, d)
       PROVE  stop'[t][h] = "COMPLETED"
  BY <1>2, <1>4, <1>10 DEF ConfirmOutbound
<1>11. ASSUME NEW g \in Hubs, NEW load \in Cargo, NEW to \in Hubs \cup {NoHub}, NEW d \in Codes \cup {NoTrip},
              SaveOutboundDraft(g, load, to, d)
       PROVE  stop'[t][h] = "COMPLETED"
  BY <1>1, <1>4, <1>11 DEF SaveOutboundDraft
<1>12. ASSUME NEW g \in Hubs \cup {NoHub}, NEW c \in Codes, CancelOutboundDraft(g, c)
       PROVE  stop'[t][h] = "COMPLETED"
  BY <1>3, <1>4, <1>12 DEF CancelOutboundDraft
<1>13. ASSUME NEW g \in Hubs, NEW c \in Codes, CancelInboundDraft(g, c)
       PROVE  stop'[t][h] = "COMPLETED"
  BY <1>3, <1>4, <1>13 DEF CancelInboundDraft
<1>14. ASSUME NEW g \in Hubs, NEW c \in Codes, UpdateTransitStep(g, c)
       PROVE  stop'[t][h] = "COMPLETED"
  BY <1>4, <1>14 DEF UpdateTransitStep
<1>15. ASSUME NEW load \in Cargo, NEW to \in Hubs \cup {NoHub}, NEW d \in Codes \cup {NoTrip},
              NEW at \in [DOMAIN load -> Hubs], NEW first \in DOMAIN load, AdminOutbound(at, first, load, to, d)
       PROVE  stop'[t][h] = "COMPLETED"
  BY <1>1, <1>2, <1>4, <1>15 DEF AdminOutbound, AdminConfirmOutbound, AdminSaveOutboundDraft
<1>16. CASE HubNext
  BY <1>5, <1>6, <1>7, <1>8, <1>9, <1>10, <1>11, <1>12, <1>13, <1>14, <1>16, Zenon DEF HubNext
<1> QED
  BY <1>15, <1>16, Zenon DEF Next

(* A stop once processed is never reopened (upsertTripStop's guard, and the *)
(* DropPending of both cancellations). *)
THEOREM ProcessedStopSticks == Spec => CompletedStopSticks
<1>1. TypeOK /\ [Next]_vars =>
        [\A t \in Trips, h \in Hubs : stop[t][h] = "COMPLETED" => stop'[t][h] = "COMPLETED"]_vars
  BY StopStep DEF vars
<1> QED
  BY <1>1, TypeCorrect, PTL DEF Spec, CompletedStopSticks

-----------------------------------------------------------------------------
(***************************************************************************)
(* Under routine use the counters of an order are the sums of its invoices, *)
(* nothing is lost in a Math.max(0, ..), and no set of hubs ever ships more *)
(* than it received.                                                        *)
(*                                                                          *)
(* The argument is per order: Sound relates the order record to its own     *)
(* invoice rows, and every handler either leaves both alone, changes        *)
(* neither counters nor rows, or appends one row and moves the counters.    *)
(***************************************************************************)

RowsIn(s, K, H) == {i \in DOMAIN s : s[i].live /\ s[i].kind \in K /\ s[i].hub \in H}
SumIn(s, K, H) == QtyOf(s, RowsIn(s, K, H))

(* An order record that agrees with its invoice rows. *)
Sound(ord, s) ==
  /\ ord.status = Unborn => ~ord.live
  /\ ~ord.live \/ ord.status \in DraftLike => RowsIn(s, Kinds, Hubs) = {}
  /\ ord.status \in DraftLike => ord.outb = 0
  /\ ord.live /\ ord.status \in Stored =>
       /\ ord.inb = SumIn(s, Receipt, Hubs)
       /\ ord.outb = SumIn(s, Dispatch, Hubs)
       /\ ord.rem + ord.outb = ord.inb
  /\ \A H \in SUBSET Hubs : SumIn(s, Dispatch, H) <= SumIn(s, Receipt, H)

AllSound == \A o \in Orders : Sound(order[o], ledger[o])

-----------------------------------------------------------------------------
(* Sums over the rows of one order. *)

LEMMA RowsInFinite ==
  ASSUME NEW s \in Seq(RowRecord), NEW K, NEW H
  PROVE  /\ IsFiniteSet(RowsIn(s, K, H))
         /\ \A i \in RowsIn(s, K, H) : s[i].qty \in Nat
         /\ SumIn(s, K, H) \in Nat
<1>1. DOMAIN s = 1 .. Len(s) /\ Len(s) \in Nat
  BY LenProperties
<1>2. IsFiniteSet(RowsIn(s, K, H))
  <2>1. \A n \in Nat : IsFiniteSet(1 .. n)
    BY FS_Interval
  <2>2. IsFiniteSet(DOMAIN s)
    BY <1>1, <2>1
  <2> QED
    BY <2>2, FS_Subset DEF RowsIn
<1>3. \A i \in RowsIn(s, K, H) : s[i] \in RowRecord
  BY <1>1, ElementOfSeq DEF RowsIn
<1>4. \A i \in RowsIn(s, K, H) : s[i].qty \in Nat
  BY <1>3 DEF RowRecord
<1> QED
  BY <1>2, <1>4, QtyFinite DEF SumIn

(* A new invoice adds its quantity to the sums it belongs to. *)
LEMMA SumAppend ==
  ASSUME NEW s \in Seq(RowRecord), NEW r \in RowRecord, r.live, NEW K, NEW H
  PROVE  SumIn(Append(s, r), K, H)
           = SumIn(s, K, H) + (IF r.kind \in K /\ r.hub \in H THEN r.qty ELSE 0)
<1> DEFINE n == Len(s) + 1
           z == Append(s, r)
           I == RowsIn(s, K, H)
<1>1. DOMAIN s = 1 .. Len(s) /\ Len(s) \in Nat
  BY LenProperties
<1>2. /\ z \in Seq(RowRecord) /\ Len(z) = Len(s) + 1
      /\ \A i \in 1 .. Len(s) : z[i] = s[i]
      /\ z[n] = r
  BY AppendProperties
<1>3. DOMAIN z = 1 .. Len(z)
  BY <1>2, LenProperties
<1>4. n \notin I /\ I \subseteq 1 .. Len(s)
  BY <1>1 DEF RowsIn
<1> HIDE DEF z
<1>5. RowsIn(z, K, H) = IF r.kind \in K /\ r.hub \in H THEN I \cup {n} ELSE I
  BY <1>1, <1>2, <1>3 DEF RowsIn
<1>6. QtyOf(z, I) = QtyOf(s, I)
  BY <1>2, <1>4, QtySame
<1>7. r.qty \in Nat
  BY DEF RowRecord
<1>8. IsFiniteSet(I) /\ SumIn(s, K, H) \in Nat /\ \A i \in I : z[i].qty \in Nat
  BY <1>2, <1>4, RowsInFinite
<1>9. QtyOf(z, I \cup {n}) = QtyOf(z, I) + r.qty
  BY <1>2, <1>4, <1>7, <1>8, QtyAdd
<1>10. SumIn(s, K, H) = QtyOf(s, I) /\ SumIn(z, K, H) = QtyOf(z, RowsIn(z, K, H))
  BY DEF SumIn
<1> HIDE DEF I, n
<1>11. CASE r.kind \in K /\ r.hub \in H
  BY <1>5, <1>6, <1>9, <1>10, <1>11 DEF z
<1>12. CASE ~(r.kind \in K /\ r.hub \in H)
  BY <1>5, <1>6, <1>8, <1>10, <1>12 DEF z
<1> QED
  BY <1>11, <1>12

(* Hubs taken in two disjoint groups. *)
LEMMA SumSplit ==
  ASSUME NEW s \in Seq(RowRecord), NEW K, NEW H, NEW h \in H
  PROVE  SumIn(s, K, H) = SumIn(s, K, H \ {h}) + SumIn(s, K, {h})
<1> DEFINE A == RowsIn(s, K, H \ {h})
           B == RowsIn(s, K, {h})
<1>1. RowsIn(s, K, H) = A \cup B
  BY DEF RowsIn
<1>2. A \cap B = {}
  BY DEF RowsIn
<1>3. IsFiniteSet(A) /\ IsFiniteSet(B) /\ \A i \in A \cup B : s[i].qty \in Nat
  BY RowsInFinite
<1>4. SumIn(s, K, H \ {h}) = QtyOf(s, A) /\ SumIn(s, K, {h}) = QtyOf(s, B)
  BY DEF SumIn
<1> HIDE DEF A, B
<1>5. QtyOf(s, A \cup B) = QtyOf(s, A) + QtyOf(s, B)
  BY <1>2, <1>3, QtyUnion
<1> QED
  BY <1>1, <1>4, <1>5 DEF SumIn

(* Without rows every sum is zero. *)
LEMMA SumNone ==
  ASSUME NEW s, RowsIn(s, Kinds, Hubs) = {}, NEW K \in SUBSET Kinds, NEW H \in SUBSET Hubs
  PROVE  SumIn(s, K, H) = 0
<1>1. RowsIn(s, K, H) = {}
  BY DEF RowsIn
<1> QED
  BY <1>1, QtyEmpty DEF SumIn

(* The queries of the handlers are these sums. *)
LEMMA QueriesAreSums ==
  ASSUME TypeOK, NEW o \in Orders, NEW K \in SUBSET Kinds
  PROVE  /\ Rows(o, K) = RowsIn(ledger[o], K, Hubs)
         /\ Booked(o, K) = SumIn(ledger[o], K, Hubs)
         /\ \A h \in Hubs : BookedAt(o, K, h) = SumIn(ledger[o], K, {h})
<1>1. ledger[o] \in Seq(RowRecord)
  BY DEF TypeOK
<1>2. \A i \in DOMAIN ledger[o] : ledger[o][i].hub \in Hubs
  <2>1. DOMAIN ledger[o] = 1 .. Len(ledger[o])
    BY <1>1, LenProperties
  <2>2. \A i \in DOMAIN ledger[o] : ledger[o][i] \in RowRecord
    BY <1>1, <2>1, ElementOfSeq
  <2> QED
    BY <2>2 DEF RowRecord
<1>3. Rows(o, K) = RowsIn(ledger[o], K, Hubs)
  BY <1>2 DEF Rows, RowsIn
<1>4. \A h \in Hubs : RowsAt(o, K, h) = RowsIn(ledger[o], K, {h})
  BY DEF RowsAt, Rows, RowsIn
<1> QED
  BY <1>3, <1>4 DEF Booked, BookedAt, SumIn

-----------------------------------------------------------------------------
(* What the handlers do to one order and its rows. *)

(* An order is not yet entered, a draft, or stored; never two of them. *)
LEMMA StatusKinds ==
  ASSUME TypeOK, NEW o \in Orders
  PROVE  /\ order[o] \in OrderRecord /\ ledger[o] \in Seq(RowRecord)
         /\ order[o].status \in {Unborn} \cup DraftLike \cup Stored
         /\ order[o].inb \in Nat /\ order[o].outb \in Nat /\ order[o].rem \in Nat
         /\ DraftLike \cap Stored = {} /\ Unborn \notin DraftLike \cup Stored
         /\ "DRAFT" \in DraftLike /\ "INBOUND" \in Stored /\ "COMPLETED_INBOUND" \in Stored
         /\ Receipt \in SUBSET Kinds /\ Dispatch \in SUBSET Kinds
<1>1. order[o] \in OrderRecord /\ ledger[o] \in Seq(RowRecord)
  BY DEF TypeOK
<1>2. DraftLike \cap Stored = {} /\ Unborn \notin DraftLike \cup Stored
  BY DEF DraftLike, Stored, Unborn
<1>3. "DRAFT" \in DraftLike /\ "INBOUND" \in Stored /\ "COMPLETED_INBOUND" \in Stored
  BY DEF DraftLike, Stored
<1>4. Receipt \in SUBSET Kinds /\ Dispatch \in SUBSET Kinds
  BY DEF Kinds
<1> QED
  BY <1>1, <1>2, <1>3, <1>4 DEF OrderRecord

(* Neither counters nor rows change; at most a draft is deleted. *)
LEMMA KeptSound ==
  ASSUME NEW ord, NEW s, NEW new, Sound(ord, s),
         DraftLike \cap Stored = {}, Unborn \notin DraftLike,
         new.status = ord.status, new.outb = ord.outb,
         new.live = ord.live \/ (new.live = FALSE /\ ord.status \in DraftLike),
         ord.status \in Stored => new.inb = ord.inb /\ new.rem = ord.rem
  PROVE  Sound(new, s)
BY DEF Sound

(* An order enters with no package stored. *)
LEMMA EnteredSound ==
  ASSUME NEW ord, NEW s, NEW new, Sound(ord, s), ord.status = Unborn,
         DraftLike \cap Stored = {}, Unborn \notin DraftLike,
         new.status \in DraftLike, new.outb = 0
  PROVE  Sound(new, s)
BY DEF Sound

(* One receipt is booked. *)
LEMMA ReceiptSound ==
  ASSUME NEW ord, NEW s \in Seq(RowRecord), Sound(ord, s), NEW new,
         NEW h \in Hubs, NEW c \in Nat, NEW q \in Nat,
         new.live, new.status \in Stored, DraftLike \cap Stored = {}, Unborn \notin Stored,
         new.inb = SumIn(s, Receipt, Hubs) + q,
         new.outb = SumIn(s, Dispatch, Hubs),
         new.rem + new.outb = new.inb
  PROVE  Sound(new, Append(s, Row("INBOUND", h, c, q)))
<1> DEFINE r == Row("INBOUND", h, c, q)
           z == Append(s, r)
<1>1. r \in RowRecord /\ r.live /\ r.kind \in Receipt /\ r.kind \notin Dispatch /\ r.hub = h /\ r.qty = q
  BY DEF Row, RowRecord, Kinds, Receipt, Dispatch
<1>2. \A H : SumIn(s, Receipt, H) \in Nat /\ SumIn(s, Dispatch, H) \in Nat
  BY RowsInFinite
<1>3. \A H : SumIn(z, Dispatch, H) = SumIn(s, Dispatch, H)
  <2> HIDE DEF r
  <2> SUFFICES ASSUME NEW H PROVE SumIn(Append(s, r), Dispatch, H) = SumIn(s, Dispatch, H)
    OBVIOUS
  <2> QED
    BY <1>1, <1>2, SumAppend
<1>4. \A H : SumIn(z, Receipt, H) = SumIn(s, Receipt, H) + (IF h \in H THEN q ELSE 0)
  <2> HIDE DEF r
  <2> SUFFICES ASSUME NEW H
               PROVE  SumIn(Append(s, r), Receipt, H) = SumIn(s, Receipt, H) + (IF h \in H THEN q ELSE 0)
    OBVIOUS
  <2> QED
    BY <1>1, SumAppend
<1> HIDE DEF z
<1>5. \A H \in SUBSET Hubs : SumIn(z, Dispatch, H) <= SumIn(z, Receipt, H)
  BY <1>2, <1>3, <1>4 DEF Sound
<1>6. SumIn(z, Receipt, Hubs) = SumIn(s, Receipt, Hubs) + q
  BY <1>4
<1> QED
  BY <1>3, <1>5, <1>6 DEF Sound, z

(* One dispatch, covered by the stock of its hub, is booked.  The counter    *)
(* covers it too: the other hubs together hold no less than nothing.        *)
LEMMA DispatchSound ==
  ASSUME NEW ord, NEW s \in Seq(RowRecord), Sound(ord, s), NEW new,
         ord.rem \in Nat, ord.live, ord.status \in Stored,
         NEW h \in Hubs, NEW t \in Nat, NEW q \in Nat, NEW k \in Dispatch,
         q + SumIn(s, Dispatch, {h}) <= SumIn(s, Receipt, {h}),
         new.live, new.status \in Stored, DraftLike \cap Stored = {}, Unborn \notin Stored,
         new.inb = ord.inb, new.outb = ord.outb + q, new.rem = Monus(ord.rem, q)
  PROVE  Sound(new, Append(s, Row(k, h, t, q)))
<1> DEFINE r == Row(k, h, t, q)
           z == Append(s, r)
           others == Hubs \ {h}
<1>1. r \in RowRecord /\ r.live /\ r.kind \in Dispatch /\ r.kind \notin Receipt /\ r.hub = h /\ r.qty = q
  BY DEF Row, RowRecord, Kinds, Receipt, Dispatch
<1>2. \A H : SumIn(s, Receipt, H) \in Nat /\ SumIn(s, Dispatch, H) \in Nat
  BY RowsInFinite
<1>3. \A H : SumIn(z, Receipt, H) = SumIn(s, Receipt, H)
  <2> HIDE DEF r
  <2> SUFFICES ASSUME NEW H PROVE SumIn(Append(s, r), Receipt, H) = SumIn(s, Receipt, H)
    OBVIOUS
  <2> QED
    BY <1>1, <1>2, SumAppend
<1>4. \A H : SumIn(z, Dispatch, H) = SumIn(s, Dispatch, H) + (IF h \in H THEN q ELSE 0)
  <2> HIDE DEF r
  <2> SUFFICES ASSUME NEW H
               PROVE  SumIn(Append(s, r), Dispatch, H) = SumIn(s, Dispatch, H) + (IF h \in H THEN q ELSE 0)
    OBVIOUS
  <2> QED
    BY <1>1, SumAppend
<1> HIDE DEF z
<1>5. ASSUME NEW H \in SUBSET Hubs
      PROVE  SumIn(z, Dispatch, H) <= SumIn(z, Receipt, H)
  <2>1. SumIn(s, Dispatch, H) <= SumIn(s, Receipt, H) /\ SumIn(s, Dispatch, H \ {h}) <= SumIn(s, Receipt, H \ {h})
    BY DEF Sound
  <2>2. CASE h \in H
    <3>1. /\ SumIn(s, Dispatch, H) = SumIn(s, Dispatch, H \ {h}) + SumIn(s, Dispatch, {h})
          /\ SumIn(s, Receipt, H) = SumIn(s, Receipt, H \ {h}) + SumIn(s, Receipt, {h})
      BY <2>2, SumSplit
    <3>2. SumIn(z, Receipt, H) = SumIn(s, Receipt, H) /\ SumIn(z, Dispatch, H) = SumIn(s, Dispatch, H) + q
      BY <1>3, <1>4, <2>2
    <3> QED
      BY <1>2, <2>1, <3>1, <3>2
  <2>3. CASE h \notin H
    BY <1>2, <1>3, <1>4, <2>1, <2>3
  <2> QED
    BY <2>2, <2>3
<1>6. q <= ord.rem
  <2>1. /\ SumIn(s, Dispatch, Hubs) = SumIn(s, Dispatch, others) + SumIn(s, Dispatch, {h})
        /\ SumIn(s, Receipt, Hubs) = SumIn(s, Receipt, others) + SumIn(s, Receipt, {h})
    BY SumSplit
  <2>2. SumIn(s, Dispatch, others) <= SumIn(s, Receipt, others)
    BY DEF Sound
  <2>3. ord.rem + SumIn(s, Dispatch, Hubs) = SumIn(s, Receipt, Hubs)
    BY DEF Sound
  <2> HIDE DEF others
  <2> QED
    BY <1>2, <2>1, <2>2, <2>3
<1>7. new.rem + new.outb = new.inb
  <2>1. ord.rem + ord.outb = ord.inb /\ ord.outb \in Nat
    BY <1>2 DEF Sound
  <2> QED
    BY <1>6, <2>1 DEF Monus
<1>8. new.inb = SumIn(z, Receipt, Hubs) /\ new.outb = SumIn(z, Dispatch, Hubs)
  BY <1>3, <1>4 DEF Sound
<1> QED
  BY <1>5, <1>7, <1>8 DEF Sound, z

-----------------------------------------------------------------------------
(* The handlers, one order at a time. *)

LEMMA IntakeSound ==
  ASSUME TypeOK, NEW o \in Orders, Sound(order[o], ledger[o]), IsUnborn(o) \/ IsLive(o),
         NEW h \in Hubs, NEW c \in Nat, NEW q \in Nat, NEW draft \in BOOLEAN
  PROVE  Sound(Intake(o, h, q, draft),
               IF draft THEN ledger[o] ELSE Append(ledger[o], Row("INBOUND", h, c, q)))
<1> DEFINE ord == order[o]
           s == ledger[o]
           new == Intake(o, h, q, draft)
<1>1. /\ ord \in OrderRecord /\ s \in Seq(RowRecord)
      /\ ord.status \in {Unborn} \cup DraftLike \cup Stored
      /\ ord.inb \in Nat /\ ord.outb \in Nat /\ ord.rem \in Nat
      /\ DraftLike \cap Stored = {} /\ Unborn \notin DraftLike \cup Stored
      /\ "DRAFT" \in DraftLike /\ "INBOUND" \in Stored
  BY StatusKinds
<1>2. /\ SumIn(s, Receipt, Hubs) \in Nat /\ SumIn(s, Dispatch, Hubs) \in Nat
      /\ ord.status \notin Stored => SumIn(s, Receipt, Hubs) = 0 /\ SumIn(s, Dispatch, Hubs) = 0
  <2>1. SumIn(s, Receipt, Hubs) \in Nat /\ SumIn(s, Dispatch, Hubs) \in Nat
    BY <1>1, RowsInFinite
  <2>2. ord.status \notin Stored => RowsIn(s, Kinds, Hubs) = {}
    BY <1>1 DEF Sound
  <2> QED
    BY <2>1, <2>2, StatusKinds, SumNone
<1>3. CASE draft
  <2>1. CASE IsUnborn(o)
    <3>1. new = NewOrder(h, "DRAFT", q, 0)
      BY <1>3, <2>1 DEF Intake
    <3>2. new.status \in DraftLike /\ new.outb = 0
      BY <1>1, <3>1 DEF NewOrder, NoOrder
    <3> QED
      BY <1>1, <1>3, <2>1, <3>2, EnteredSound DEF IsUnborn
  <2>2. CASE ~IsUnborn(o)
    <3>1. new = [ord EXCEPT !.total = ord.total + q]
      BY <1>3, <2>2 DEF Intake
    <3>2. new.status = ord.status /\ new.outb = ord.outb /\ new.live = ord.live
          /\ new.inb = ord.inb /\ new.rem = ord.rem
      BY <1>1, <3>1 DEF OrderRecord
    <3> HIDE DEF new
    <3>3. Sound(new, s)
      BY <1>1, <3>2, KeptSound
    <3> QED
      BY <1>3, <3>3 DEF new
  <2> QED
    BY <2>1, <2>2
<1>4. CASE ~draft
  <2>1. CASE IsUnborn(o)
    <3>1. new = NewOrder(h, "INBOUND", q, q)
      BY <1>4, <2>1 DEF Intake
    <3>2. new.live /\ new.status = "INBOUND" /\ new.outb = 0 /\ new.inb = q /\ new.rem = q
      BY <3>1 DEF NewOrder, NoOrder
    <3>3. ord.status \notin Stored
      BY <1>1, <2>1 DEF IsUnborn
    <3> HIDE DEF new
    <3>4. new.inb = SumIn(s, Receipt, Hubs) + q /\ new.outb = SumIn(s, Dispatch, Hubs)
          /\ new.rem + new.outb = new.inb
      BY <1>2, <3>2, <3>3
    <3>5. Sound(new, Append(s, Row("INBOUND", h, c, q)))
      BY <1>1, <3>2, <3>3, <3>4, ReceiptSound
    <3> QED
      BY <1>4, <3>5 DEF new
  <2>2. CASE ~IsUnborn(o) /\ IsDraft(o)
    <3>1. new = [ord EXCEPT !.total = q, !.inb = q, !.rem = q, !.status = "INBOUND"]
      BY <1>4, <2>2 DEF Intake
    <3>2. new.live = ord.live /\ new.status = "INBOUND" /\ new.outb = ord.outb /\ new.inb = q /\ new.rem = q
      BY <1>1, <3>1 DEF OrderRecord
    <3>3. ord.status \notin Stored /\ ord.live /\ ord.outb = 0
      BY <1>1, <2>2 DEF IsDraft, IsUnborn, IsLive, Sound
    <3> HIDE DEF new
    <3>4. new.inb = SumIn(s, Receipt, Hubs) + q /\ new.outb = SumIn(s, Dispatch, Hubs)
          /\ new.rem + new.outb = new.inb
      BY <1>2, <3>2, <3>3
    <3>5. Sound(new, Append(s, Row("INBOUND", h, c, q)))
      BY <1>1, <3>2, <3>3, <3>4, ReceiptSound
    <3> QED
      BY <1>4, <3>5 DEF new
  <2>3. CASE ~IsUnborn(o) /\ ~IsDraft(o)
    <3>1. new = [ord EXCEPT !.total = ord.total + q, !.inb = ord.inb + q, !.rem = ord.rem + q,
                            !.status = "INBOUND"]
      BY <1>4, <2>3 DEF Intake
    <3>2. /\ new.live = ord.live /\ new.status = "INBOUND" /\ new.outb = ord.outb
          /\ new.inb = ord.inb + q /\ new.rem = ord.rem + q
      BY <1>1, <3>1 DEF OrderRecord
    <3>3. ord.status \in Stored /\ ord.live
      BY <1>1, <2>3 DEF IsDraft, IsUnborn, IsLive
    <3>4. /\ ord.inb = SumIn(s, Receipt, Hubs) /\ ord.outb = SumIn(s, Dispatch, Hubs)
          /\ ord.rem + ord.outb = ord.inb
      BY <3>3 DEF Sound
    <3>5. new.rem + new.outb = new.inb
      BY <1>1, <3>2, <3>4
    <3> HIDE DEF new
    <3>6. Sound(new, Append(s, Row("INBOUND", h, c, q)))
      BY <1>1, <1>2, <3>2, <3>3, <3>4, <3>5, ReceiptSound
    <3> QED
      BY <1>4, <3>6 DEF new
  <2> QED
    BY <2>1, <2>2, <2>3
<1> QED
  BY <1>3, <1>4

(* confirmInbound for hub staff.  A draft whose counters were opened at the *)
(* office and that belongs to another hub is the case routine use excludes: *)
(* it would be counted twice.                                               *)
LEMMA ReceivedSound ==
  ASSUME TypeOK, NEW o \in Orders, Sound(order[o], ledger[o]), IsUnborn(o) \/ IsLive(o),
         NEW h \in Hubs, NEW t \in Codes \cup {NoTrip}, NEW q \in Nat,
         IsLive(o) /\ IsDraft(o) => Own(o, h, FALSE) \/ order[o].inb = 0
  PROVE  Sound(ReceivedOrder(o, h, FALSE, t, q), ReceivedLedger(o, h, FALSE, t, q))
<1> DEFINE ord == order[o]
           s == ledger[o]
           c == TripOf(o, h, FALSE, t)
           new == ReceivedOrder(o, h, FALSE, t, q)
           rows == ReceivedLedger(o, h, FALSE, t, q)
<1>1. /\ ord \in OrderRecord /\ s \in Seq(RowRecord)
      /\ ord.status \in {Unborn} \cup DraftLike \cup Stored
      /\ ord.inb \in Nat /\ ord.outb \in Nat /\ ord.rem \in Nat
      /\ DraftLike \cap Stored = {} /\ Unborn \notin DraftLike \cup Stored
      /\ "DRAFT" \in DraftLike /\ "INBOUND" \in Stored
  BY StatusKinds
<1>2. /\ SumIn(s, Receipt, Hubs) \in Nat /\ SumIn(s, Dispatch, Hubs) \in Nat
      /\ SumIn(s, Dispatch, Hubs) <= SumIn(s, Receipt, Hubs)
      /\ ord.status \notin Stored => SumIn(s, Receipt, Hubs) = 0 /\ SumIn(s, Dispatch, Hubs) = 0
  <2>1. SumIn(s, Receipt, Hubs) \in Nat /\ SumIn(s, Dispatch, Hubs) \in Nat
    BY <1>1, RowsInFinite
  <2>2. ord.status \notin Stored => RowsIn(s, Kinds, Hubs) = {}
    BY <1>1 DEF Sound
  <2>3. SumIn(s, Dispatch, Hubs) <= SumIn(s, Receipt, Hubs)
    BY DEF Sound
  <2> QED
    BY <2>1, <2>2, <2>3, StatusKinds, SumNone
<1>3. c \in Nat
  <2>1. ord.trip \in Nat
    BY <1>1 DEF OrderRecord
  <2>2. t \in Nat
    BY CodesAreTrips DEF NoTrip
  <2> QED
    BY <2>1, <2>2 DEF TripOf
<1>4. IsUnborn(o) => ~Locked(o, h, FALSE)
  BY DEF Locked, IsUnborn, IsLive, Sound
<1>5. EditableDraft(o, h, FALSE) => ~Locked(o, h, FALSE)
  BY DEF Locked
<1>6. ~Skipped(o, h, FALSE, t) => rows = Append(s, Row("INBOUND", h, c, q))
  BY DEF ReceivedLedger
<1>7. CASE IsUnborn(o)
  <2>1. new = NewOrder(h, "INBOUND", q, q) /\ ~Skipped(o, h, FALSE, t)
    BY <1>4, <1>7 DEF ReceivedOrder, Skipped
  <2>2. new.live /\ new.status = "INBOUND" /\ new.outb = 0 /\ new.inb = q /\ new.rem = q
    BY <2>1 DEF NewOrder, NoOrder
  <2>3. ord.status \notin Stored
    BY <1>1, <1>7 DEF IsUnborn
  <2> HIDE DEF new, rows, c
  <2>4. new.inb = SumIn(s, Receipt, Hubs) + q /\ new.outb = SumIn(s, Dispatch, Hubs)
        /\ new.rem + new.outb = new.inb
    BY <1>2, <2>2, <2>3
  <2>5. Sound(new, Append(s, Row("INBOUND", h, c, q)))
    BY <1>1, <1>3, <2>2, <2>3, <2>4, ReceiptSound
  <2> QED
    BY <1>6, <2>1, <2>5 DEF new, rows
<1>8. CASE ~IsUnborn(o) /\ EditableDraft(o, h, FALSE)
  <2>1. new = ReceiveDraft(o, h, q) /\ ~Skipped(o, h, FALSE, t)
    BY <1>5, <1>8 DEF ReceivedOrder, Skipped
  <2>2. new.live = ord.live /\ new.status = "INBOUND" /\ new.outb = 0 /\ new.inb = q /\ new.rem = q
    BY <1>1, <2>1 DEF ReceiveDraft, OrderRecord
  <2>3. ord.status \notin Stored /\ ord.live
    BY <1>1, <1>8 DEF EditableDraft, IsDraft, IsUnborn, IsLive
  <2> HIDE DEF new, rows, c
  <2>4. new.inb = SumIn(s, Receipt, Hubs) + q /\ new.outb = SumIn(s, Dispatch, Hubs)
        /\ new.rem + new.outb = new.inb
    BY <1>2, <2>2, <2>3
  <2>5. Sound(new, Append(s, Row("INBOUND", h, c, q)))
    BY <1>1, <1>3, <2>2, <2>3, <2>4, ReceiptSound
  <2> QED
    BY <1>6, <2>1, <2>5 DEF new, rows
<1>9. CASE ~IsUnborn(o) /\ ~EditableDraft(o, h, FALSE) /\ ~Duplicate(o, c, h)
  <2>1. new = ReceiveLocked(o, c, q) /\ ~Skipped(o, h, FALSE, t)
    BY <1>9 DEF ReceivedOrder, Skipped
  <2>2. /\ new.live = ord.live /\ new.status = "INBOUND" /\ new.outb = ord.outb
        /\ new.inb = ord.inb + q /\ new.rem = Monus(ord.inb + q, ord.outb)
    <3> HIDE DEF c
    <3> QED
      BY <1>1, <2>1 DEF ReceiveLocked, OrderRecord
  <2>3. ord.live
    BY <1>9 DEF IsLive, IsUnborn
  <2>4. ord.inb = SumIn(s, Receipt, Hubs) /\ ord.outb = SumIn(s, Dispatch, Hubs)
    <3>1. CASE IsDraft(o)
      <4>1. ord.inb = 0
        BY <1>9, <2>3, <3>1 DEF EditableDraft, IsLive
      <4>2. ord.outb = 0 /\ ord.status \notin Stored
        BY <1>1, <3>1 DEF IsDraft, Sound
      <4> QED
        BY <1>2, <4>1, <4>2
    <3>2. CASE ~IsDraft(o)
      BY <1>1, <1>9, <2>3, <3>2 DEF IsDraft, IsUnborn, Sound
    <3> QED
      BY <3>1, <3>2
  <2> HIDE DEF new, rows, c
  <2>5. new.rem + new.outb = new.inb
    BY <1>1, <1>2, <2>2, <2>4 DEF Monus
  <2>6. Sound(new, Append(s, Row("INBOUND", h, c, q)))
    BY <1>1, <1>3, <2>2, <2>3, <2>4, <2>5, ReceiptSound
  <2> QED
    BY <1>6, <2>1, <2>6 DEF new, rows
<1>10. CASE ~IsUnborn(o) /\ ~EditableDraft(o, h, FALSE) /\ Duplicate(o, c, h)
  <2>1. Skipped(o, h, FALSE, t)
    BY <1>10 DEF Skipped, Locked
  <2>2. new = ord /\ rows = s
    BY <1>10, <2>1 DEF ReceivedOrder, ReceivedLedger
  <2> QED
    BY <2>2
<1> QED
  BY <1>7, <1>8, <1>9, <1>10

(* Taking a line out of a receiving note deletes at most a draft. *)
LEMMA RemovedSound ==
  ASSUME TypeOK, NEW o \in Orders, Sound(order[o], ledger[o]), NEW t
  PROVE  Sound(RemovedOrder(o, t), ledger[o])
<1> DEFINE ord == order[o]
           new == RemovedOrder(o, t)
<1>1. /\ ord \in OrderRecord
      /\ DraftLike \cap Stored = {} /\ Unborn \notin DraftLike \cup Stored
  BY StatusKinds
<1>2. /\ new.status = ord.status /\ new.outb = ord.outb /\ new.inb = ord.inb /\ new.rem = ord.rem
      /\ new.live = ord.live \/ (new.live = FALSE /\ ord.status \in DraftLike)
  BY <1>1 DEF RemovedOrder, Orphan, OrderRecord, IsDraft, IsLive
<1> HIDE DEF new
<1> QED
  BY <1>1, <1>2, KeptSound DEF new

(* Saving a receiving note never touches the counters of a stored order. *)
LEMMA DraftedSound ==
  ASSUME TypeOK, NEW o \in Orders, Sound(order[o], ledger[o]), IsUnborn(o) \/ IsLive(o),
         NEW h \in Hubs, NEW q \in Nat,
         IsLive(o) /\ ~IsDraft(o) => ~Own(o, h, FALSE)
  PROVE  Sound(DraftedOrder(o, h, FALSE, q), ledger[o])
<1> DEFINE ord == order[o]
           new == DraftedOrder(o, h, FALSE, q)
<1>1. /\ ord \in OrderRecord /\ "DRAFT" \in DraftLike
      /\ DraftLike \cap Stored = {} /\ Unborn \notin DraftLike \cup Stored
  BY StatusKinds
<1>2. CASE IsUnborn(o)
  <2>1. new.status \in DraftLike /\ new.outb = 0
    BY <1>1, <1>2 DEF DraftedOrder, NewOrder, NoOrder
  <2> QED
    BY <1>1, <1>2, <2>1, EnteredSound DEF IsUnborn
<1>3. CASE ~IsUnborn(o)
  <2>1. /\ new.status = ord.status /\ new.outb = ord.outb /\ new.live = ord.live
        /\ ord.status \in Stored => new.inb = ord.inb /\ new.rem = ord.rem
    BY <1>1, <1>3 DEF DraftedOrder, OrderRecord, IsDraft, IsUnborn, IsLive
  <2> HIDE DEF new
  <2> QED
    BY <1>1, <2>1, KeptSound DEF new
<1> QED
  BY <1>2, <1>3

(* confirmOutbound of packages the ledger of the hub covers. *)
LEMMA DispatchedSound ==
  ASSUME TypeOK, NEW o \in Orders, Sound(order[o], ledger[o]), ~IsUnborn(o), IsLive(o), ~IsDraft(o),
         NEW h \in Hubs, NEW t \in Nat, NEW q \in Nat, NEW d, NEW to,
         q > 0, HasLedgerAt(o, h), q <= Available(o, h, d)
  PROVE  Sound(DispatchedOrder(o, t, q, to), Append(ledger[o], Row(OutKind(to), h, t, q)))
<1> DEFINE ord == order[o]
           s == ledger[o]
           new == DispatchedOrder(o, t, q, to)
<1>1. /\ ord \in OrderRecord /\ s \in Seq(RowRecord)
      /\ ord.status \in {Unborn} \cup DraftLike \cup Stored
      /\ ord.rem \in Nat
      /\ DraftLike \cap Stored = {} /\ Unborn \notin DraftLike \cup Stored
      /\ "INBOUND" \in Stored /\ "COMPLETED_INBOUND" \in Stored
  BY StatusKinds
<1>2. ord.live /\ ord.status \in Stored
  BY <1>1 DEF IsLive, IsDraft, IsUnborn
<1>3. q + SumIn(s, Dispatch, {h}) <= SumIn(s, Receipt, {h})
  <2>1. /\ BookedAt(o, Receipt, h) = SumIn(s, Receipt, {h})
        /\ BookedAt(o, Dispatch, h) = SumIn(s, Dispatch, {h})
    BY StatusKinds, QueriesAreSums
  <2>2. Available(o, h, d) = Monus(BookedAt(o, Receipt, h), BookedAt(o, Dispatch, h) + Reserved(o, h, d))
    BY DEF Available, StockIn, StockOut
  <2>3. BookedAt(o, Receipt, h) \in Nat /\ BookedAt(o, Dispatch, h) \in Nat /\ Reserved(o, h, d) \in Nat
    BY BookedNat, ReservedNat
  <2> QED
    BY <2>1, <2>2, <2>3 DEF Monus
<1>4. /\ new.live = ord.live /\ new.status \in Stored /\ new.inb = ord.inb
      /\ new.outb = ord.outb + q /\ new.rem = Monus(ord.rem, q)
  BY <1>1 DEF DispatchedOrder, OrderRecord
<1>5. OutKind(to) \in Dispatch
  BY DEF OutKind, Dispatch
<1> HIDE DEF new
<1> QED
  BY <1>1, <1>2, <1>3, <1>4, <1>5, DispatchSound DEF new

(* reconcileOrderQuantities only rewrites what it already knows. *)
LEMMA CancelledSound ==
  ASSUME TypeOK, NEW o \in Orders, Sound(order[o], ledger[o]), NEW t
  PROVE  Sound(CancelledOrder(o, t), ledger[o])
<1> DEFINE ord == order[o]
           s == ledger[o]
<1>1. /\ ord \in OrderRecord /\ s \in Seq(RowRecord)
      /\ ord.status \in {Unborn} \cup DraftLike \cup Stored
      /\ DraftLike \cap Stored = {} /\ Unborn \notin DraftLike \cup Stored
      /\ "INBOUND" \in Stored /\ "COMPLETED_INBOUND" \in Stored
      /\ Receipt \in SUBSET Kinds /\ Dispatch \in SUBSET Kinds
  BY StatusKinds
<1>2. CASE ord.status \in {"DRAFT", "PENDING"} /\ line[t][o].status # "NONE"
  <2> DEFINE new == [ord EXCEPT !.live = FALSE]
  <2>1. CancelledOrder(o, t) = new
    BY <1>2 DEF CancelledOrder
  <2>2. /\ new.status = ord.status /\ new.outb = ord.outb /\ new.inb = ord.inb /\ new.rem = ord.rem
        /\ new.live = FALSE /\ ord.status \in DraftLike
    BY <1>1, <1>2 DEF OrderRecord, DraftLike
  <2> HIDE DEF new
  <2> QED
    BY <1>1, <2>1, <2>2, KeptSound
<1>3. Sound(Reconciled(o, t), s)
  <2> DEFINE new == Reconciled(o, t)
  <2>1. CASE ~IsLive(o) \/ Rows(o, Kinds) = {}
    BY <2>1 DEF Reconciled
  <2>2. CASE IsLive(o) /\ Rows(o, Kinds) # {}
    <3>1. /\ Rows(o, Kinds) = RowsIn(s, Kinds, Hubs)
          /\ Booked(o, Receipt) = SumIn(s, Receipt, Hubs) /\ Booked(o, Dispatch) = SumIn(s, Dispatch, Hubs)
      BY <1>1, QueriesAreSums
    <3>2. ord.live /\ ord.status \in Stored
      BY <1>1, <2>2, <3>1 DEF Sound, IsLive
    <3>3. /\ new.live = ord.live /\ new.inb = Booked(o, Receipt) /\ new.outb = Booked(o, Dispatch)
          /\ new.rem = Monus(Booked(o, Receipt), Booked(o, Dispatch))
          /\ new.status \in Stored
      BY <1>1, <2>2, <3>2 DEF Reconciled, OrderRecord
    <3>4. /\ SumIn(s, Receipt, Hubs) \in Nat /\ SumIn(s, Dispatch, Hubs) \in Nat
          /\ SumIn(s, Dispatch, Hubs) <= SumIn(s, Receipt, Hubs)
      BY <1>1, RowsInFinite DEF Sound
    <3>5. new.rem + new.outb = new.inb
      BY <3>1, <3>3, <3>4 DEF Monus
    <3> HIDE DEF new
    <3>6. Sound(new, s)
      BY <1>1, <3>1, <3>2, <3>3, <3>5 DEF Sound
    <3> QED
      BY <3>6 DEF new
  <2> QED
    BY <2>1, <2>2
<1> QED
  BY <1>2, <1>3 DEF CancelledOrder

-----------------------------------------------------------------------------
(* The handlers, all orders at once. *)

LEMMA InitSound == Init => AllSound
<1> SUFFICES ASSUME Init, NEW o \in Orders PROVE Sound(order[o], ledger[o])
  BY DEF AllSound
<1>1. order[o].status = Unborn /\ order[o].live = FALSE /\ order[o].outb = 0 /\ ledger[o] = <<>>
  BY DEF Init, NoOrder
<1>2. \A K, H : RowsIn(<<>>, K, H) = {}
  BY DEF RowsIn
<1>3. \A H \in SUBSET Hubs : SumIn(<<>>, Dispatch, H) = 0 /\ SumIn(<<>>, Receipt, H) = 0
  BY <1>2, SumNone DEF Kinds
<1> QED
  BY <1>1, <1>2, <1>3 DEF Sound, Stored, Unborn

(* OrdersService.create keeps every order sound. *)
LEMMA CreateOrderSound ==
  ASSUME TypeOK, AllSound, NEW o \in Orders, NEW h \in Hubs \cup {NoHub}, NEW q \in 1 .. MaxQty,
         CreateOrder(o, h, q)
  PROVE  AllSound'
<1> SUFFICES ASSUME NEW p \in Orders PROVE Sound(order'[p], ledger'[p])
  BY DEF AllSound
<1>1. Sound(order[p], ledger[p]) /\ ledger' = ledger
  BY DEF AllSound, CreateOrder
<1>2. CASE p = o
  <2>1. order'[o] = NewOrder(h, "DRAFT", q, q)
    BY DEF CreateOrder, TypeOK
  <2>2. order'[o].status \in DraftLike /\ order'[o].outb = 0
    BY <2>1, StatusKinds DEF NewOrder, NoOrder
  <2>3. order[o].status = Unborn
    BY DEF CreateOrder, IsUnborn
  <2> QED
    BY <1>1, <1>2, <2>2, <2>3, StatusKinds, EnteredSound
<1>3. CASE p # o
  <2>1. order'[p] = order[p]
    BY <1>3 DEF CreateOrder, TypeOK
  <2> QED
    BY <1>1, <2>1
<1> QED
  BY <1>2, <1>3

(* quickCreateInboundOrder keeps every order sound. *)
LEMMA QuickCreateSound ==
  ASSUME TypeOK, AllSound, NEW o \in Orders, NEW h \in Hubs, NEW q \in 1 .. MaxQty, NEW d \in BOOLEAN,
         QuickCreateInbound(o, h, q, d)
  PROVE  AllSound'
<1> SUFFICES ASSUME NEW p \in Orders PROVE Sound(order'[p], ledger'[p])
  BY DEF AllSound
<1>1. Sound(order[p], ledger[p])
  BY DEF AllSound
<1>2. CASE p = o
  <2>1. order'[o] = Intake(o, h, q, d)
    BY DEF QuickCreateInbound, TypeOK
  <2>2. ledger'[o] = IF d THEN ledger[o] ELSE Append(ledger[o], Row("INBOUND", h, NoTrip, q))
    BY DEF QuickCreateInbound, TypeOK
  <2>3. q \in Nat /\ NoTrip \in Nat /\ (IsUnborn(o) \/ IsLive(o))
    BY DEF NoTrip, QuickCreateInbound
  <2>4. Sound(Intake(o, h, q, d), IF d THEN ledger[o] ELSE Append(ledger[o], Row("INBOUND", h, NoTrip, q)))
    BY <1>1, <1>2, <2>3, IntakeSound
  <2> QED
    BY <1>2, <2>1, <2>2, <2>4
<1>3. CASE p # o
  <2>1. order'[p] = order[p] /\ ledger'[p] = ledger[p]
    BY <1>3 DEF QuickCreateInbound, TypeOK
  <2> QED
    BY <1>1, <2>1
<1> QED
  BY <1>2, <1>3

(* batchCreateInboundOrders keeps every order sound. *)
LEMMA BatchCreateSound ==
  ASSUME TypeOK, AllSound, NEW h \in Hubs, NEW got \in Cargo, NEW drafts \in SUBSET Orders,
         BatchCreateInbound(h, got, drafts)
  PROVE  AllSound'
<1> SUFFICES ASSUME NEW o \in Orders PROVE Sound(order'[o], ledger'[o])
  BY DEF AllSound
<1> DEFINE t == lastTrip + 1
           S == DOMAIN got
<1>1. Sound(order[o], ledger[o])
  BY DEF AllSound
<1>2. CASE o \in S
  <2>1. got[o] \in Nat /\ t \in Nat /\ (IsUnborn(o) \/ IsLive(o)) /\ (o \in drafts) \in BOOLEAN
    BY <1>2, CargoType DEF BatchCreateInbound, TypeOK
  <2>2. order'[o] = Intake(o, h, got[o], o \in drafts)
    BY <1>2 DEF BatchCreateInbound
  <2>3. ledger'[o] = IF o \in drafts THEN ledger[o] ELSE Append(ledger[o], Row("INBOUND", h, t, got[o]))
    BY <1>2 DEF BatchCreateInbound
  <2> HIDE DEF t
  <2>4. \A d \in BOOLEAN :
          Sound(Intake(o, h, got[o], d), IF d THEN ledger[o] ELSE Append(ledger[o], Row("INBOUND", h, t, got[o])))
    BY <1>1, <2>1, IntakeSound
  <2> QED
    BY <2>1, <2>2, <2>3, <2>4, Zenon
<1>3. CASE o \notin S
  <2>1. order'[o] = order[o] /\ ledger'[o] = ledger[o]
    BY <1>3 DEF BatchCreateInbound
  <2> QED
    BY <1>1, <2>1
<1> QED
  BY <1>2, <1>3

(* confirmInbound keeps every order sound under routine use. *)
LEMMA ConfirmInboundSound ==
  ASSUME TypeOK, AllSound, NEW h \in Hubs, NEW t \in Codes \cup {NoTrip}, NEW got \in Cargo,
         NEW keep \in BOOLEAN, OwnDrafts(h, got), ConfirmInbound(h, FALSE, t, got, keep)
  PROVE  AllSound'
<1> SUFFICES ASSUME NEW o \in Orders PROVE Sound(order'[o], ledger'[o])
  BY DEF AllSound
<1>1. Sound(order[o], ledger[o])
  BY DEF AllSound
<1>2. CASE o \in DOMAIN got
  <2>1. order'[o] = ReceivedOrder(o, h, FALSE, t, got[o]) /\ ledger'[o] = ReceivedLedger(o, h, FALSE, t, got[o])
    BY <1>2 DEF ConfirmInbound
  <2>2. got[o] \in Nat
    BY <1>2, CargoType
  <2>3. IsUnborn(o) \/ IsLive(o)
    BY <1>2 DEF ConfirmInbound
  <2>4. IsLive(o) /\ IsDraft(o) => Own(o, h, FALSE) \/ order[o].inb = 0
    BY <1>2 DEF OwnDrafts
  <2> QED
    BY <1>1, <2>1, <2>2, <2>3, <2>4, ReceivedSound
<1>3. CASE o \notin DOMAIN got
  <2>1. ledger'[o] = ledger[o] /\ order'[o] \in {RemovedOrder(o, t), order[o]}
    BY <1>3 DEF ConfirmInbound
  <2> QED
    BY <1>1, <2>1, RemovedSound
<1> QED
  BY <1>2, <1>3

(* A saved receiving note keeps every order sound under routine use. *)
LEMMA SaveInboundDraftSound ==
  ASSUME TypeOK, AllSound, NEW h \in Hubs, NEW t \in Codes, NEW got \in Cargo,
         NotYetStored(h, got), SaveInboundDraft(h, FALSE, t, got)
  PROVE  AllSound'
<1> SUFFICES ASSUME NEW o \in Orders PROVE Sound(order'[o], ledger'[o])
  BY DEF AllSound
<1>1. Sound(order[o], ledger[o]) /\ ledger'[o] = ledger[o]
  BY DEF AllSound, SaveInboundDraft
<1>2. CASE o \in DOMAIN got
  <2>1. order'[o] = DraftedOrder(o, h, FALSE, got[o])
    BY <1>2 DEF SaveInboundDraft
  <2>2. got[o] \in Nat
    BY <1>2, CargoType
  <2>3. IsUnborn(o) \/ IsLive(o)
    BY <1>2 DEF SaveInboundDraft
  <2>4. IsLive(o) /\ ~IsDraft(o) => ~Own(o, h, FALSE)
    BY <1>2 DEF NotYetStored
  <2> QED
    BY <1>1, <2>1, <2>2, <2>3, <2>4, DraftedSound
<1>3. CASE o \notin DOMAIN got
  <2>1. order'[o] \in {RemovedOrder(o, t), order[o]}
    BY <1>3 DEF SaveInboundDraft
  <2> QED
    BY <1>1, <2>1, RemovedSound
<1> QED
  BY <1>2, <1>3

(* confirmOutbound keeps every order sound when the ledger of the hub answers. *)
LEMMA ConfirmOutboundSound ==
  ASSUME TypeOK, AllSound, NEW h \in Hubs, NEW load \in Cargo, NEW to \in Hubs \cup {NoHub},
         NEW d \in Codes \cup {NoTrip}, Holds(h, load), ConfirmOutbound(h, load, to, d)
  PROVE  AllSound'
<1> SUFFICES ASSUME NEW o \in Orders PROVE Sound(order'[o], ledger'[o])
  BY DEF AllSound
<1> DEFINE t == TripFor(d)
<1>1. Sound(order[o], ledger[o])
  BY DEF AllSound
<1>2. CASE o \in DOMAIN load
  <2>1. order'[o] = DispatchedOrder(o, t, load[o], to)
        /\ ledger'[o] = Append(ledger[o], Row(OutKind(to), h, t, load[o]))
    BY <1>2 DEF ConfirmOutbound
  <2>2. load[o] \in Nat /\ load[o] > 0
    BY <1>2, CargoType
  <2>3. t \in Nat
    BY TripForType DEF ConfirmOutbound
  <2>4. IsLive(o) /\ ~IsDraft(o) /\ HasLedgerAt(o, h) /\ load[o] <= Available(o, h, d)
    BY <1>2 DEF ConfirmOutbound, Holds
  <2>5. ~IsUnborn(o)
    BY <1>1, <2>4 DEF Sound, IsUnborn, IsLive
  <2> HIDE DEF t
  <2> QED
    BY <1>1, <2>1, <2>2, <2>3, <2>4, <2>5, DispatchedSound
<1>3. CASE o \notin DOMAIN load
  <2>1. order'[o] = order[o] /\ ledger'[o] = ledger[o]
    BY <1>3 DEF ConfirmOutbound
  <2> QED
    BY <1>1, <2>1
<1> QED
  BY <1>2, <1>3

(* cancelInboundDraft keeps every order sound. *)
LEMMA CancelInboundDraftSound ==
  ASSUME TypeOK, AllSound, NEW h \in Hubs, NEW t \in Codes, CancelInboundDraft(h, t)
  PROVE  AllSound'
<1> SUFFICES ASSUME NEW o \in Orders PROVE Sound(order'[o], ledger'[o])
  BY DEF AllSound
<1>1. Sound(order[o], ledger[o])
  BY DEF AllSound
<1>2. order'[o] = CancelledOrder(o, t) /\ ledger'[o] = ledger[o]
  BY DEF CancelInboundDraft
<1> QED
  BY <1>1, <1>2, CancelledSound

(* The inductive step: no routine operation breaks the invariant. *)
LEMMA SoundStep == TypeOK /\ AllSound /\ [RoutineNext]_vars => AllSound'
<1> SUFFICES ASSUME TypeOK, AllSound, [RoutineNext]_vars PROVE AllSound'
  OBVIOUS
<1>1. ASSUME order' = order, ledger' = ledger
      PROVE  AllSound'
  BY <1>1 DEF AllSound
<1>2. ASSUME NEW h \in Hubs, NEW load \in Cargo, NEW to \in Hubs \cup {NoHub}, NEW d \in Codes \cup {NoTrip},
             SaveOutboundDraft(h, load, to, d)
      PROVE  AllSound'
  BY <1>1, <1>2 DEF SaveOutboundDraft
<1>3. ASSUME NEW h \in Hubs, NEW t \in Codes, CancelOutboundDraft(h, t) \/ UpdateTransitStep(h, t)
      PROVE  AllSound'
  BY <1>1, <1>3 DEF CancelOutboundDraft, UpdateTransitStep
<1>4. CASE UNCHANGED vars
  BY <1>1, <1>4 DEF vars
<1> QED
  BY <1>2, <1>3, <1>4, CreateOrderSound, QuickCreateSound, BatchCreateSound, ConfirmInboundSound,
     SaveInboundDraftSound, ConfirmOutboundSound, CancelInboundDraftSound DEF RoutineNext

-----------------------------------------------------------------------------
(* What follows for the hubs. *)

LEMMA SoundMeans ==
  ASSUME TypeOK, AllSound
  PROVE  CountersMatchLedger /\ RemainingIsStock /\ HubStockNonNegative /\ DeletedOrderHasNoStock
<1>1. ASSUME NEW o \in Orders
      PROVE  /\ Sound(order[o], ledger[o])
             /\ order[o].status \in {Unborn} \cup DraftLike \cup Stored
             /\ Rows(o, Kinds) = RowsIn(ledger[o], Kinds, Hubs)
             /\ Booked(o, Receipt) = SumIn(ledger[o], Receipt, Hubs)
             /\ Booked(o, Dispatch) = SumIn(ledger[o], Dispatch, Hubs)
             /\ \A h \in Hubs : /\ BookedAt(o, Receipt, h) = SumIn(ledger[o], Receipt, {h})
                               /\ BookedAt(o, Dispatch, h) = SumIn(ledger[o], Dispatch, {h})
  <2>1. Sound(order[o], ledger[o])
    BY DEF AllSound
  <2>2. order[o].status \in {Unborn} \cup DraftLike \cup Stored
    BY StatusKinds
  <2> QED
    BY <2>1, <2>2, StatusKinds, QueriesAreSums
<1>2. CountersMatchLedger
  <2> SUFFICES ASSUME NEW o \in Orders, IsLive(o)
               PROVE  IF IsDraft(o) THEN Rows(o, Kinds) = {} /\ order[o].outb = 0
                      ELSE order[o].inb = Booked(o, Receipt) /\ order[o].outb = Booked(o, Dispatch)
    BY DEF CountersMatchLedger
  <2> QED
    BY <1>1 DEF Sound, IsLive, IsDraft
<1>3. RemainingIsStock
  <2> SUFFICES ASSUME NEW o \in Orders, IsLive(o), ~IsDraft(o)
               PROVE  order[o].rem + Booked(o, Dispatch) = Booked(o, Receipt)
    BY DEF RemainingIsStock
  <2> QED
    BY <1>1 DEF Sound, IsLive, IsDraft
<1>4. HubStockNonNegative
  BY <1>1 DEF Sound, HubStockNonNegative
<1>5. DeletedOrderHasNoStock
  BY <1>1 DEF Sound, IsLive, DeletedOrderHasNoStock
<1> QED
  BY <1>2, <1>3, <1>4, <1>5

(* Under routine use (confirmInbound, confirmOutbound, their drafts and their
   cancellations) every order stays sound: the invariant the rest follows from. *)
THEOREM RoutineSound == RoutineSpec => [](TypeOK /\ AllSound)
<1>1. Init => TypeOK /\ AllSound
  BY InitType, InitSound
<1>2. TypeOK /\ [RoutineNext]_vars => TypeOK'
  BY TypeStep, RoutineAllowed
<1>3. TypeOK /\ AllSound /\ [RoutineNext]_vars => (TypeOK /\ AllSound)'
  BY <1>2, SoundStep
<1> QED
  BY <1>1, <1>3, PTL DEF RoutineSpec

(* The cached counters never drift from the invoices (confirmInbound,       *)
(* confirmOutbound and reconcileOrderQuantities all keep them together).    *)
THEOREM CountersNeverDrift == RoutineSpec => []CountersMatchLedger
<1>1. TypeOK /\ AllSound => CountersMatchLedger
  BY SoundMeans
<1> QED
  BY <1>1, RoutineSound, PTL

(* The remaining counter is the stock of all hubs together: no Math.max(0,  *)
(* ..) of confirmInbound or confirmOutbound ever swallows a package.        *)
THEOREM RemainingIsExact == RoutineSpec => []RemainingIsStock
<1>1. TypeOK /\ AllSound => RemainingIsStock
  BY SoundMeans
<1> QED
  BY <1>1, RoutineSound, PTL

(* No hub ever ships packages it did not receive (the availability check of *)
(* confirmOutbound, when the ledger of the hub answers it).                 *)
THEOREM NoHubOversells == RoutineSpec => []HubStockNonNegative
<1>1. TypeOK /\ AllSound => HubStockNonNegative
  BY SoundMeans
<1> QED
  BY <1>1, RoutineSound, PTL

-----------------------------------------------------------------------------
(***************************************************************************)
(* What survives everything the daily handlers accept, administrators and   *)
(* resubmissions included, for every number of orders, hubs and trips.      *)
(*                                                                          *)
(* Two arguments, one after the other.  Per order: Clean relates the order  *)
(* record to its own invoices and to the codes allocated so far.  Per trip: *)
(* a plan never meets a dispatch invoice, and a line on the road has one.   *)
(***************************************************************************)

(* Two live receipts of one trip at one hub. *)
Alike(a, b) ==
  /\ a.live /\ b.live /\ a.kind = "INBOUND" /\ b.kind = "INBOUND"
  /\ a.hub = b.hub /\ a.trip = b.trip /\ a.trip # NoTrip

Unstocked(ord) == ~ord.live \/ ord.status \in DraftLike

(* An order record that agrees with its invoices, when `last` is the last   *)
(* trip code allocated; a hub receives each trip of T at most once.         *)
Clean(ord, s, last, T) ==
  /\ ord.status = Unborn => ~ord.live
  /\ Unstocked(ord) => \A i \in DOMAIN s : ~s[i].live
  /\ ~Unstocked(ord) => ord.inb <= ord.total
  /\ ord.trip <= last
  /\ \A i \in DOMAIN s : s[i].trip <= last
  /\ \A i, j \in DOMAIN s : Alike(s[i], s[j]) /\ s[i].trip \in T => i = j

CleanFor(T) == \A o \in Orders : Clean(order[o], ledger[o], lastTrip, T)
AllClean == CleanFor(Nat)

(* The same invoices, whatever their quantities. *)
SameRows(s, z) ==
  /\ DOMAIN z = DOMAIN s
  /\ \A i \in DOMAIN s : /\ z[i].live = s[i].live /\ z[i].kind = s[i].kind
                         /\ z[i].hub = s[i].hub /\ z[i].trip = s[i].trip

-----------------------------------------------------------------------------
(* What the handlers do to one order and its invoices. *)

(* No invoice is added: at most a quantity is corrected. *)
LEMMA KeptClean ==
  ASSUME NEW T, NEW ord, NEW s, NEW last \in Nat, Clean(ord, s, last, T),
         NEW new, NEW z, NEW then \in Nat, last <= then,
         SameRows(s, z), \A i \in DOMAIN s : s[i].trip \in Nat,
         new.status = Unborn => ~new.live,
         Unstocked(new) => Unstocked(ord),
         ~Unstocked(new) => new.inb <= new.total,
         new.trip \in Nat, new.trip <= then
  PROVE  Clean(new, z, then, T)
<1>1. \A i \in DOMAIN z : z[i].trip <= then
  BY DEF Clean, SameRows
<1>2. \A i, j \in DOMAIN z : Alike(z[i], z[j]) /\ z[i].trip \in T => i = j
  BY DEF Clean, SameRows, Alike
<1>3. Unstocked(new) => \A i \in DOMAIN z : ~z[i].live
  BY DEF Clean, SameRows
<1> QED
  BY <1>1, <1>2, <1>3 DEF Clean

(* A corrected quantity leaves the rest of the invoices alone. *)
LEMMA CorrectedRows ==
  ASSUME NEW s \in Seq(RowRecord), NEW j \in DOMAIN s, NEW q
  PROVE  SameRows(s, [s EXCEPT ![j].qty = q])
<1> DEFINE z == [s EXCEPT ![j].qty = q]
<1>1. s[j] \in RowRecord
  BY LenProperties, ElementOfSeq
<1>2. DOMAIN z = DOMAIN s /\ (\A i \in DOMAIN s : i # j => z[i] = s[i]) /\ z[j] = [s[j] EXCEPT !.qty = q]
  OBVIOUS
<1>3. z[j].live = s[j].live /\ z[j].kind = s[j].kind /\ z[j].hub = s[j].hub /\ z[j].trip = s[j].trip
  BY <1>1, <1>2 DEF RowRecord
<1> HIDE DEF z
<1>4. SameRows(s, z)
  BY <1>2, <1>3 DEF SameRows
<1> QED
  BY <1>4 DEF z

(* One invoice is added, on a stored order. *)
LEMMA BookedClean ==
  ASSUME NEW T, NEW ord, NEW s \in Seq(RowRecord), NEW last \in Nat, Clean(ord, s, last, T),
         NEW new, NEW r \in RowRecord, NEW then \in Nat, last <= then,
         r.trip <= then, \A i \in DOMAIN s : ~Alike(s[i], r),
         new.live, new.status \in Stored, new.inb <= new.total,
         new.trip \in Nat, new.trip <= then
  PROVE  Clean(new, Append(s, r), then, T)
<1> DEFINE z == Append(s, r)
           n == Len(s) + 1
<1>1. /\ DOMAIN s = 1 .. Len(s) /\ Len(s) \in Nat
      /\ \A i \in DOMAIN s : s[i] \in RowRecord /\ s[i].trip \in Nat
  <2>1. DOMAIN s = 1 .. Len(s) /\ Len(s) \in Nat
    BY LenProperties
  <2>2. \A i \in DOMAIN s : s[i] \in RowRecord
    BY <2>1, ElementOfSeq
  <2> QED
    BY <2>1, <2>2 DEF RowRecord
<1>2. /\ DOMAIN z = 1 .. n
      /\ \A i \in 1 .. Len(s) : z[i] = s[i]
      /\ z[n] = r
  <2>1. z \in Seq(RowRecord) /\ Len(z) = n
    BY AppendProperties
  <2> QED
    BY <2>1, AppendProperties, LenProperties
<1> HIDE DEF z
<1>3. \A i \in DOMAIN z : z[i].trip <= then
  BY <1>1, <1>2 DEF Clean
<1>4. ASSUME NEW i \in DOMAIN z, NEW j \in DOMAIN z, Alike(z[i], z[j]), z[i].trip \in T
      PROVE  i = j
  <2>1. CASE i = n /\ j = n
    BY <2>1
  <2>2. CASE i # n /\ j # n
    BY <1>1, <1>2, <1>4, <2>2 DEF Clean
  <2>3. CASE i = n /\ j # n
    BY <1>1, <1>2, <1>4, <2>3 DEF Alike
  <2>4. CASE i # n /\ j = n
    BY <1>1, <1>2, <1>4, <2>4
  <2> QED
    BY <2>1, <2>2, <2>3, <2>4
<1>5. ~Unstocked(new) /\ new.status # Unborn
  BY DEF Unstocked, DraftLike, Stored, Unborn
<1> QED
  BY <1>3, <1>4, <1>5 DEF Clean, z

(* The tables around one order. *)
LEMMA OrderFacts ==
  ASSUME TypeOK, NEW o \in Orders
  PROVE  /\ order[o] \in OrderRecord /\ ledger[o] \in Seq(RowRecord)
         /\ order[o].status \in {Unborn} \cup DraftLike \cup Stored
         /\ order[o].inb \in Nat /\ order[o].outb \in Nat /\ order[o].rem \in Nat
         /\ order[o].total \in Nat /\ order[o].trip \in Nat
         /\ lastTrip \in Nat /\ NoTrip <= lastTrip
         /\ DraftLike \cap Stored = {} /\ Unborn \notin DraftLike \cup Stored
         /\ "DRAFT" \in DraftLike /\ "INBOUND" \in Stored /\ "COMPLETED_INBOUND" \in Stored
         /\ \A i \in DOMAIN ledger[o] : ledger[o][i] \in RowRecord /\ ledger[o][i].trip \in Nat
         /\ SameRows(ledger[o], ledger[o])
<1>1. order[o] \in OrderRecord /\ ledger[o] \in Seq(RowRecord) /\ lastTrip \in Nat /\ NoTrip <= lastTrip
  BY BoundsAssumption DEF TypeOK, NoTrip
<1>2. DraftLike \cap Stored = {} /\ Unborn \notin DraftLike \cup Stored
  BY DEF DraftLike, Stored, Unborn
<1>3. "DRAFT" \in DraftLike /\ "INBOUND" \in Stored /\ "COMPLETED_INBOUND" \in Stored
  BY DEF DraftLike, Stored
<1>4. \A i \in DOMAIN ledger[o] : ledger[o][i] \in RowRecord
  <2>1. DOMAIN ledger[o] = 1 .. Len(ledger[o])
    BY <1>1, LenProperties
  <2> QED
    BY <1>1, <2>1, ElementOfSeq
<1>5. \A i \in DOMAIN ledger[o] : ledger[o][i].trip \in Nat
  BY <1>4 DEF RowRecord
<1>6. SameRows(ledger[o], ledger[o])
  BY DEF SameRows
<1> QED
  BY <1>1, <1>2, <1>3, <1>4, <1>5, <1>6 DEF OrderRecord

(* Goods at the gate, with a code of their own or none. *)
LEMMA IntakeClean ==
  ASSUME NEW T, TypeOK, NEW o \in Orders, Clean(order[o], ledger[o], lastTrip, T), IsUnborn(o) \/ IsLive(o),
         NEW h \in Hubs, NEW c \in Nat, NEW q \in Nat, NEW draft \in BOOLEAN,
         NEW then \in Nat, lastTrip <= then, c <= then, c = NoTrip \/ c > lastTrip
  PROVE  Clean(Intake(o, h, q, draft),
               IF draft THEN ledger[o] ELSE Append(ledger[o], Row("INBOUND", h, c, q)), then, T)
<1> DEFINE ord == order[o]
           s == ledger[o]
           new == Intake(o, h, q, draft)
           r == Row("INBOUND", h, c, q)
<1>1. /\ ord \in OrderRecord /\ s \in Seq(RowRecord)
      /\ ord.status \in {Unborn} \cup DraftLike \cup Stored
      /\ ord.inb \in Nat /\ ord.total \in Nat /\ ord.trip \in Nat
      /\ lastTrip \in Nat /\ NoTrip <= lastTrip
      /\ DraftLike \cap Stored = {} /\ Unborn \notin DraftLike \cup Stored
      /\ "DRAFT" \in DraftLike /\ "INBOUND" \in Stored
      /\ \A i \in DOMAIN s : s[i] \in RowRecord /\ s[i].trip \in Nat
      /\ SameRows(s, s)
  BY OrderFacts
<1>2. NoTrip \in Nat /\ NoTrip <= then
  BY <1>1 DEF NoTrip
<1>3. CASE draft
  <2>1. CASE IsUnborn(o)
    <3>1. new = NewOrder(h, "DRAFT", q, 0)
      BY <1>3, <2>1 DEF Intake
    <3>2. new.status = "DRAFT" /\ new.trip = NoTrip
      BY <3>1 DEF NewOrder, NoOrder
    <3>3. Unstocked(new) /\ Unstocked(ord) /\ new.status # Unborn
      BY <1>1, <2>1, <3>2 DEF Unstocked, Clean, IsUnborn
    <3> HIDE DEF new
    <3> QED
      BY <1>1, <1>2, <1>3, <3>2, <3>3, KeptClean DEF new
  <2>2. CASE ~IsUnborn(o)
    <3>1. new = [ord EXCEPT !.total = ord.total + q]
      BY <1>3, <2>2 DEF Intake
    <3>2. new.status = ord.status /\ new.live = ord.live /\ new.inb = ord.inb
          /\ new.total = ord.total + q /\ new.trip = ord.trip
      BY <1>1, <3>1 DEF OrderRecord
    <3>3. /\ Unstocked(new) <=> Unstocked(ord)
          /\ ~Unstocked(new) => new.inb <= new.total
          /\ new.status # Unborn /\ new.trip <= then
      BY <1>1, <2>2, <3>2 DEF Unstocked, Clean, IsUnborn
    <3> HIDE DEF new
    <3> QED
      BY <1>1, <1>3, <3>2, <3>3, KeptClean DEF new
  <2> QED
    BY <2>1, <2>2
<1>4. CASE ~draft
  <2>1. new.live /\ new.status = "INBOUND" /\ new.inb <= new.total /\ new.trip \in Nat /\ new.trip <= then
    <3>1. CASE IsUnborn(o)
      <4>1. new = NewOrder(h, "INBOUND", q, q)
        BY <1>4, <3>1 DEF Intake
      <4> QED
        BY <1>2, <4>1 DEF NewOrder, NoOrder
    <3>2. CASE ~IsUnborn(o) /\ IsDraft(o)
      <4>1. new = [ord EXCEPT !.total = q, !.inb = q, !.rem = q, !.status = "INBOUND"]
        BY <1>4, <3>2 DEF Intake
      <4>2. new.live = ord.live /\ new.status = "INBOUND" /\ new.inb = q /\ new.total = q /\ new.trip = ord.trip
        BY <1>1, <4>1 DEF OrderRecord
      <4> QED
        BY <1>1, <3>2, <4>2 DEF IsLive, Clean
    <3>3. CASE ~IsUnborn(o) /\ ~IsDraft(o)
      <4>1. new = [ord EXCEPT !.total = ord.total + q, !.inb = ord.inb + q, !.rem = ord.rem + q,
                              !.status = "INBOUND"]
        BY <1>4, <3>3 DEF Intake
      <4>2. new.live = ord.live /\ new.status = "INBOUND" /\ new.inb = ord.inb + q
            /\ new.total = ord.total + q /\ new.trip = ord.trip
        BY <1>1, <4>1 DEF OrderRecord
      <4>3. ord.inb <= ord.total
        BY <3>3 DEF Clean, Unstocked, IsLive, IsDraft
      <4> QED
        BY <1>1, <3>3, <4>2, <4>3 DEF IsLive, Clean
    <3> QED
      BY <3>1, <3>2, <3>3
  <2>2. r \in RowRecord /\ r.trip = c
    BY DEF Row, RowRecord, Kinds, Receipt
  <2>3. \A i \in DOMAIN s : ~Alike(s[i], r)
    BY <1>1, <2>2 DEF Clean, Alike, NoTrip
  <2> HIDE DEF new, r
  <2>4. Clean(new, Append(s, r), then, T)
    BY <1>1, <2>1, <2>2, <2>3, BookedClean
  <2> QED
    BY <1>4, <2>4 DEF new, r
<1> QED
  BY <1>3, <1>4

(* The invoice an administrator corrects, and what the queries of a receipt *)
(* say in terms of rows. *)
LEMMA DuplicateRows ==
  ASSUME TypeOK, NEW o \in Orders, NEW h \in Hubs, NEW c \in Nat
  PROVE  /\ ~Duplicate(o, c, h) =>
              \A q \in Nat, i \in DOMAIN ledger[o] : ~Alike(ledger[o][i], Row("INBOUND", h, c, q))
         /\ Duplicate(o, c, h) => \E i \in DOMAIN ledger[o] : ledger[o][i].live
<1>1. ReceiptsOf(o, c, h) = IF c = NoTrip THEN {}
        ELSE {i \in DOMAIN ledger[o] : /\ ledger[o][i].live /\ ledger[o][i].kind = "INBOUND"
                                       /\ ledger[o][i].hub = h /\ ledger[o][i].trip = c}
  BY DEF ReceiptsOf, RowsAt, RowsOn, Rows, Receipt
<1>2. \A q \in Nat : LET r == Row("INBOUND", h, c, q) IN r.hub = h /\ r.trip = c
  BY DEF Row
<1> QED
  BY <1>1, <1>2 DEF Duplicate, Alike

(* confirmInbound, whichever branch a row of the request takes. *)
LEMMA ReceivedClean ==
  ASSUME NEW T, TypeOK, NEW o \in Orders, Clean(order[o], ledger[o], lastTrip, T), IsUnborn(o) \/ IsLive(o),
         NEW h \in Hubs, NEW admin \in BOOLEAN, NEW t \in Codes \cup {NoTrip}, NEW q \in Nat
  PROVE  Clean(ReceivedOrder(o, h, admin, t, q), ReceivedLedger(o, h, admin, t, q), lastTrip, T)
<1> DEFINE ord == order[o]
           s == ledger[o]
           c == TripOf(o, h, admin, t)
           new == ReceivedOrder(o, h, admin, t, q)
           z == ReceivedLedger(o, h, admin, t, q)
           r == Row("INBOUND", h, c, q)
<1>1. /\ ord \in OrderRecord /\ s \in Seq(RowRecord)
      /\ ord.status \in {Unborn} \cup DraftLike \cup Stored
      /\ ord.inb \in Nat /\ ord.outb \in Nat /\ ord.total \in Nat /\ ord.trip \in Nat
      /\ lastTrip \in Nat /\ NoTrip <= lastTrip
      /\ DraftLike \cap Stored = {} /\ Unborn \notin DraftLike \cup Stored
      /\ "DRAFT" \in DraftLike /\ "INBOUND" \in Stored
      /\ \A i \in DOMAIN s : s[i] \in RowRecord /\ s[i].trip \in Nat
      /\ SameRows(s, s)
  BY OrderFacts
<1>2. c \in Nat /\ c <= lastTrip
  BY <1>1, CodesAreTrips DEF TripOf, Clean, NoTrip, Codes
<1>3. r \in RowRecord /\ r.trip = c
  BY <1>2 DEF Row, RowRecord, Kinds, Receipt
<1>4. NoTrip \in Nat
  BY DEF NoTrip
(* A locked order with a receipt is stored. *)
<1>5. CASE Skipped(o, h, admin, t)
  <2>1. Locked(o, h, admin) /\ Duplicate(o, c, h)
    BY <1>5 DEF Skipped
  <2>2. ~Unstocked(ord) /\ ord.status # Unborn /\ ord.live
    BY <1>2, <2>1, DuplicateRows DEF Clean, Locked, IsLive
  <2>3. ~IsUnborn(o) /\ ~EditableDraft(o, h, admin)
    BY <2>1, <2>2 DEF IsUnborn, Locked
  <2>4. CASE ~admin
    <3>1. new = ord /\ z = s
      BY <1>5, <2>1, <2>3, <2>4 DEF ReceivedOrder, ReceivedLedger
    <3> QED
      BY <3>1
  <2>5. CASE admin
    <3> DEFINE i == TheReceipt(o, c, h)
    <3>1. new = CorrectReceipt(o, s[i].qty, q) /\ z = [s EXCEPT ![i].qty = q]
      BY <1>5, <2>1, <2>3, <2>5 DEF ReceivedOrder, ReceivedLedger
    <3>2. i \in DOMAIN s
      BY <2>1, TheReceiptChosen
    <3>3. SameRows(s, z)
      <4> HIDE DEF i, z
      <4> QED
        BY <1>1, <3>1, <3>2, CorrectedRows
    <3>4. s[i].qty \in Nat
      BY <1>1, <3>2 DEF RowRecord
    <3> DEFINE inb == Monus(ord.inb + q, s[i].qty)
    <3>5. inb \in Nat /\ inb <= Maximum(ord.total, inb)
      <4>0. ord.inb + q \in Nat
        BY <1>1
      <4>1. inb \in Nat
        BY <3>4, <4>0, MonusNat
      <4> HIDE DEF inb
      <4> QED
        BY <1>1, <4>1 DEF Maximum
    <3>6. /\ new.status = ord.status /\ new.live = ord.live /\ new.trip = ord.trip
          /\ new.inb <= new.total
      <4>1. CASE q = s[i].qty
        BY <2>2, <3>1, <4>1 DEF CorrectReceipt, Clean
      <4>2. CASE q # s[i].qty
        <5>1. new = [ord EXCEPT !.inb = inb, !.total = Maximum(ord.total, inb), !.rem = Monus(inb, ord.outb)]
          BY <3>1, <4>2 DEF CorrectReceipt
        <5> HIDE DEF new, inb
        <5> QED
          BY <1>1, <3>5, <5>1 DEF OrderRecord
      <4> QED
        BY <4>1, <4>2
    <3>7. Unstocked(new) => Unstocked(ord)
      BY <3>6 DEF Unstocked
    <3>8. new.trip <= lastTrip
      BY <3>6 DEF Clean
    <3> HIDE DEF new, z
    <3> QED
      BY <1>1, <2>2, <3>3, <3>6, <3>7, <3>8, KeptClean DEF new, z
  <2> QED
    BY <2>4, <2>5
<1>6. CASE ~Skipped(o, h, admin, t)
  <2>1. z = Append(s, r)
    BY <1>6 DEF ReceivedLedger
  <2>2. \A i \in DOMAIN s : ~Alike(s[i], r)
    <3>1. CASE Locked(o, h, admin)
      <4>1. ~Duplicate(o, c, h)
        BY <1>6, <3>1 DEF Skipped
      <4> QED
        BY <1>2, <4>1, DuplicateRows
    <3>2. CASE ~Locked(o, h, admin)
      <4>1. Unstocked(ord)
        BY <3>2 DEF Locked, EditableDraft, IsLive, IsDraft, Unstocked
      <4> QED
        BY <4>1 DEF Clean, Alike
    <3> QED
      BY <3>1, <3>2
  <2>3. /\ new.live /\ new.status = "INBOUND" /\ new.inb <= new.total
        /\ new.trip \in Nat /\ new.trip <= lastTrip
    <3>1. CASE IsUnborn(o)
      <4>1. new = NewOrder(h, "INBOUND", q, q)
        BY <3>1 DEF ReceivedOrder
      <4> QED
        BY <1>1, <1>4, <4>1 DEF NewOrder, NoOrder
    <3>2. CASE ~IsUnborn(o) /\ EditableDraft(o, h, admin)
      <4>1. new = ReceiveDraft(o, h, q)
        BY <3>2 DEF ReceivedOrder
      <4>2. new.live = ord.live /\ new.status = "INBOUND" /\ new.inb = q /\ new.total = q /\ new.trip = NoTrip
        BY <1>1, <4>1 DEF ReceiveDraft, OrderRecord
      <4> QED
        BY <1>1, <1>4, <3>2, <4>2 DEF IsLive
    <3>3. CASE ~IsUnborn(o) /\ ~EditableDraft(o, h, admin)
      <4>1. Locked(o, h, admin)
        BY <3>3 DEF Locked
      <4>2. ~Duplicate(o, c, h)
        BY <1>6, <4>1 DEF Skipped
      <4>3. new = ReceiveLocked(o, c, q)
        BY <3>3, <4>2 DEF ReceivedOrder
      <4>4. ord.inb + q \in Nat /\ ord.inb + q <= Maximum(ord.total, ord.inb + q)
        BY <1>1 DEF Maximum
      <4>5. /\ new.live = ord.live /\ new.status = "INBOUND" /\ new.inb <= new.total
            /\ new.trip \in {NoTrip, ord.trip}
        <5> HIDE DEF c
        <5> QED
          BY <1>1, <4>3, <4>4 DEF ReceiveLocked, OrderRecord
      <4> QED
        BY <1>1, <1>4, <3>3, <4>5 DEF IsLive, Clean
    <3> QED
      BY <3>1, <3>2, <3>3
  <2> HIDE DEF new, r
  <2>4. Clean(new, Append(s, r), lastTrip, T)
    BY <1>1, <1>2, <1>3, <2>2, <2>3, BookedClean
  <2> QED
    BY <2>1, <2>4 DEF new, r
<1> QED
  BY <1>5, <1>6

(* A line taken out of a receiving note: the order goes with it only when   *)
(* it is a draft. *)
LEMMA RemovedClean ==
  ASSUME NEW T, TypeOK, NEW o \in Orders, Clean(order[o], ledger[o], lastTrip, T), NEW t
  PROVE  Clean(RemovedOrder(o, t), ledger[o], lastTrip, T)
<1> DEFINE ord == order[o]
           s == ledger[o]
           new == RemovedOrder(o, t)
<1>1. /\ ord \in OrderRecord /\ s \in Seq(RowRecord)
      /\ ord.status \in {Unborn} \cup DraftLike \cup Stored
      /\ ord.inb \in Nat /\ ord.outb \in Nat /\ ord.rem \in Nat
      /\ ord.total \in Nat /\ ord.trip \in Nat
      /\ lastTrip \in Nat /\ NoTrip <= lastTrip /\ NoTrip \in Nat
      /\ DraftLike \cap Stored = {} /\ Unborn \notin DraftLike \cup Stored
      /\ "DRAFT" \in DraftLike /\ "INBOUND" \in Stored /\ "COMPLETED_INBOUND" \in Stored
      /\ \A i \in DOMAIN s : s[i] \in RowRecord /\ s[i].trip \in Nat
      /\ SameRows(s, s)
  BY OrderFacts DEF NoTrip
<1>2. /\ new.status = ord.status /\ new.inb = ord.inb /\ new.total = ord.total
      /\ new.trip \in {NoTrip, ord.trip}
      /\ new.live = ord.live \/ (new.live = FALSE /\ IsDraft(o))
  BY <1>1 DEF RemovedOrder, Orphan, OrderRecord, IsLive
<1>3. /\ new.status = Unborn => ~new.live
      /\ Unstocked(new) => Unstocked(ord)
      /\ ~Unstocked(new) => ~Unstocked(ord)
      /\ new.trip \in Nat /\ new.trip <= lastTrip
  BY <1>1, <1>2 DEF Unstocked, IsDraft, Clean
<1>4. ~Unstocked(new) => new.inb <= new.total
  BY <1>2, <1>3 DEF Clean
<1> HIDE DEF new
<1> QED
  BY <1>1, <1>3, <1>4, KeptClean DEF new

(* A saved receiving note rewrites contracts, and counters of stored orders. *)
LEMMA DraftedClean ==
  ASSUME NEW T, TypeOK, NEW o \in Orders, Clean(order[o], ledger[o], lastTrip, T), IsUnborn(o) \/ IsLive(o),
         NEW h \in Hubs, NEW admin \in BOOLEAN, NEW q \in Nat
  PROVE  Clean(DraftedOrder(o, h, admin, q), ledger[o], lastTrip, T)
<1> DEFINE ord == order[o]
           s == ledger[o]
           new == DraftedOrder(o, h, admin, q)
<1>1. /\ ord \in OrderRecord /\ s \in Seq(RowRecord)
      /\ ord.status \in {Unborn} \cup DraftLike \cup Stored
      /\ ord.inb \in Nat /\ ord.outb \in Nat /\ ord.rem \in Nat
      /\ ord.total \in Nat /\ ord.trip \in Nat
      /\ lastTrip \in Nat /\ NoTrip <= lastTrip /\ NoTrip \in Nat
      /\ DraftLike \cap Stored = {} /\ Unborn \notin DraftLike \cup Stored
      /\ "DRAFT" \in DraftLike /\ "INBOUND" \in Stored /\ "COMPLETED_INBOUND" \in Stored
      /\ \A i \in DOMAIN s : s[i] \in RowRecord /\ s[i].trip \in Nat
      /\ SameRows(s, s)
  BY OrderFacts DEF NoTrip
<1>2. CASE IsUnborn(o)
  <2>1. new.status = "DRAFT" /\ new.trip = NoTrip
    BY <1>2 DEF DraftedOrder, NewOrder, NoOrder
  <2>2. Unstocked(new) /\ Unstocked(ord) /\ new.status # Unborn
    BY <1>1, <1>2, <2>1 DEF Unstocked, Clean, IsUnborn
  <2> HIDE DEF new
  <2> QED
    BY <1>1, <2>1, <2>2, KeptClean DEF new
<1>3. CASE ~IsUnborn(o)
  <2>1. /\ new.status = ord.status /\ new.live = ord.live /\ new.trip = ord.trip
        /\ IsDraft(o) \/ (new.inb = ord.inb /\ new.total = ord.total) \/ (new.inb = q /\ new.total = q)
    BY <1>1, <1>3 DEF DraftedOrder, OrderRecord
  <2>2. /\ new.status # Unborn
        /\ Unstocked(new) <=> Unstocked(ord)
        /\ new.trip \in Nat /\ new.trip <= lastTrip
    BY <1>1, <1>3, <2>1 DEF Unstocked, IsUnborn, Clean
  <2>3. ~Unstocked(new) => new.inb <= new.total
    BY <2>1, <2>2 DEF Unstocked, IsDraft, Clean
  <2> HIDE DEF new
  <2> QED
    BY <1>1, <2>2, <2>3, KeptClean DEF new
<1> QED
  BY <1>2, <1>3

(* A dispatch books an invoice on a stored order, on its own code. *)
LEMMA DispatchedClean ==
  ASSUME NEW T, TypeOK, NEW o \in Orders, Clean(order[o], ledger[o], lastTrip, T), IsLive(o), ~IsDraft(o),
         NEW h \in Hubs, NEW to, NEW t \in Nat, NEW q \in Nat,
         NEW then \in Nat, lastTrip <= then, t <= then
  PROVE  Clean(DispatchedOrder(o, t, q, to), Append(ledger[o], Row(OutKind(to), h, t, q)), then, T)
<1> DEFINE ord == order[o]
           s == ledger[o]
           new == DispatchedOrder(o, t, q, to)
           r == Row(OutKind(to), h, t, q)
<1>1. /\ ord \in OrderRecord /\ s \in Seq(RowRecord)
      /\ ord.status \in {Unborn} \cup DraftLike \cup Stored
      /\ ord.inb \in Nat /\ ord.outb \in Nat /\ ord.rem \in Nat
      /\ ord.total \in Nat /\ ord.trip \in Nat
      /\ lastTrip \in Nat /\ NoTrip <= lastTrip /\ NoTrip \in Nat
      /\ DraftLike \cap Stored = {} /\ Unborn \notin DraftLike \cup Stored
      /\ "DRAFT" \in DraftLike /\ "INBOUND" \in Stored /\ "COMPLETED_INBOUND" \in Stored
      /\ \A i \in DOMAIN s : s[i] \in RowRecord /\ s[i].trip \in Nat
      /\ SameRows(s, s)
  BY OrderFacts DEF NoTrip
<1>2. r \in RowRecord /\ r.trip = t /\ r.kind # "INBOUND"
  BY DEF Row, RowRecord, Kinds, Dispatch, OutKind
<1>3. \A i \in DOMAIN s : ~Alike(s[i], r)
  BY <1>2 DEF Alike
<1>4. ~Unstocked(ord) /\ ord.live
  BY DEF Unstocked, IsLive, IsDraft
<1>5. /\ new.live = ord.live /\ new.status \in Stored
      /\ new.inb = ord.inb /\ new.total = ord.total /\ new.trip \in {ord.trip, t}
  BY <1>1 DEF DispatchedOrder, OrderRecord
<1>6. new.live /\ new.inb <= new.total /\ new.trip \in Nat /\ new.trip <= then
  BY <1>1, <1>4, <1>5 DEF Clean
<1> HIDE DEF new, r
<1>7. Clean(new, Append(s, r), then, T)
  BY <1>1, <1>2, <1>3, <1>5, <1>6, BookedClean
<1> QED
  BY <1>7 DEF new, r

(* A cancelled arrival deletes drafts and rebuilds counters from invoices:  *)
(* the total is rebuilt from them too. *)
LEMMA CancelledClean ==
  ASSUME NEW T, TypeOK, NEW o \in Orders, Clean(order[o], ledger[o], lastTrip, T), NEW t
  PROVE  Clean(CancelledOrder(o, t), ledger[o], lastTrip, T)
<1> DEFINE ord == order[o]
           s == ledger[o]
           new == CancelledOrder(o, t)
<1>1. /\ ord \in OrderRecord /\ s \in Seq(RowRecord)
      /\ ord.status \in {Unborn} \cup DraftLike \cup Stored
      /\ ord.inb \in Nat /\ ord.outb \in Nat /\ ord.rem \in Nat
      /\ ord.total \in Nat /\ ord.trip \in Nat
      /\ lastTrip \in Nat /\ NoTrip <= lastTrip /\ NoTrip \in Nat
      /\ DraftLike \cap Stored = {} /\ Unborn \notin DraftLike \cup Stored
      /\ "DRAFT" \in DraftLike /\ "INBOUND" \in Stored /\ "COMPLETED_INBOUND" \in Stored
      /\ \A i \in DOMAIN s : s[i] \in RowRecord /\ s[i].trip \in Nat
      /\ SameRows(s, s)
  BY OrderFacts DEF NoTrip
<1>2. CASE new = ord
  BY <1>2
<1>3. CASE ord.status \in {"DRAFT", "PENDING"} /\ new = [ord EXCEPT !.live = FALSE]
  <2>1. new.status = ord.status /\ new.live = FALSE /\ new.trip = ord.trip
    BY <1>1, <1>3 DEF OrderRecord
  <2>2. Unstocked(new) /\ Unstocked(ord) /\ new.trip <= lastTrip
    BY <1>3, <2>1 DEF Unstocked, DraftLike, Clean
  <2> HIDE DEF new
  <2> QED
    BY <1>1, <2>1, <2>2, KeptClean DEF new
<1>4. CASE new # ord /\ new = Reconciled(o, t)
  <2> DEFINE inb == Booked(o, Receipt)
             outb == Booked(o, Dispatch)
             rem == Monus(inb, outb)
             total == inb + StillPending(o, t)
             st == IF rem = 0 /\ outb > 0 THEN "COMPLETED_INBOUND" ELSE IF inb > 0 THEN "INBOUND" ELSE ord.status
  <2>1. IsLive(o) /\ Rows(o, Kinds) # {}
    BY <1>4 DEF Reconciled
  <2>2. ~Unstocked(ord)
    BY <2>1 DEF Clean, Rows
  <2>3. inb \in Nat /\ inb <= total
    <3>1. inb \in Nat /\ StillPending(o, t) \in Nat
      BY BookedNat, TripSumNat DEF StillPending
    <3> HIDE DEF inb
    <3> QED
      BY <3>1
  <2>4. new = [ord EXCEPT !.inb = inb, !.outb = outb, !.rem = rem, !.total = total, !.status = st]
    BY <1>4, <2>1, Zenon DEF Reconciled
  <2>5. st \in Stored
    BY <1>1, <2>2 DEF Unstocked, Clean, IsLive
  <2> HIDE DEF new, inb, outb, rem, total, st
  <2>6. new.live = ord.live /\ new.status = st /\ new.inb = inb /\ new.total = total /\ new.trip = ord.trip
    BY <1>1, <2>4 DEF OrderRecord
  <2>7. /\ new.status # Unborn /\ ~Unstocked(new) /\ new.inb <= new.total /\ new.trip <= lastTrip
    BY <1>1, <2>1, <2>3, <2>5, <2>6 DEF Unstocked, Clean, IsLive
  <2> QED
    BY <1>1, <2>6, <2>7, KeptClean DEF new
<1> QED
  BY <1>2, <1>3, <1>4, Zenon DEF CancelledOrder

(* An order nobody touches stays clean when a code is allocated. *)
LEMMA UntouchedClean ==
  ASSUME NEW T, TypeOK, NEW o \in Orders, Clean(order[o], ledger[o], lastTrip, T),
         NEW then \in Nat, lastTrip <= then
  PROVE  Clean(order[o], ledger[o], then, T)
BY OrderFacts DEF Clean

-----------------------------------------------------------------------------
(* Every handler keeps every order clean. *)

LEMMA InitClean ==
  ASSUME NEW T, Init
  PROVE  CleanFor(T)
<1> SUFFICES ASSUME NEW o \in Orders PROVE Clean(order[o], ledger[o], lastTrip, T)
  BY DEF CleanFor
<1>1. order[o] = NoOrder /\ ledger[o] = <<>> /\ lastTrip = 0
  BY DEF Init
<1> QED
  BY <1>1 DEF NoOrder, NoTrip, Clean, Unstocked

(* OrdersService.create. *)
LEMMA CreateOrderClean ==
  ASSUME NEW T, TypeOK, CleanFor(T), NEW n \in Orders, NEW h \in Hubs \cup {NoHub}, NEW q \in 1 .. MaxQty,
         CreateOrder(n, h, q)
  PROVE  CleanFor(T)'
<1> SUFFICES ASSUME NEW o \in Orders
             PROVE  Clean(order'[o], ledger[o], lastTrip, T)
  BY DEF CleanFor, CreateOrder
<1>1. Clean(order[o], ledger[o], lastTrip, T)
  BY DEF CleanFor
<1>2. CASE o # n
  BY <1>1, <1>2 DEF CreateOrder, TypeOK
<1>3. CASE o = n
  <2> DEFINE new == order'[o]
  <2>1. new = NewOrder(h, "DRAFT", q, q) /\ IsUnborn(o)
    BY <1>3 DEF CreateOrder, TypeOK
  <2>2. new.status = "DRAFT" /\ new.trip = NoTrip
    BY <2>1 DEF NewOrder, NoOrder
  <2>3. Unstocked(new) /\ Unstocked(order[o]) /\ new.status # Unborn
    BY <1>1, <2>1, <2>2 DEF Unstocked, Clean, IsUnborn, DraftLike, Unborn
  <2> HIDE DEF new
  <2>4. Clean(new, ledger[o], lastTrip, T)
    BY <1>1, <2>2, <2>3, OrderFacts, KeptClean DEF NoTrip
  <2> QED
    BY <2>4 DEF new
<1> QED
  BY <1>2, <1>3

(* quickCreateInboundOrder. *)
LEMMA QuickCreateClean ==
  ASSUME NEW T, TypeOK, CleanFor(T), NEW n \in Orders, NEW h \in Hubs, NEW q \in 1 .. MaxQty, NEW d \in BOOLEAN,
         QuickCreateInbound(n, h, q, d)
  PROVE  CleanFor(T)'
<1> SUFFICES ASSUME NEW o \in Orders
             PROVE  Clean(order'[o], ledger'[o], lastTrip, T)
  BY DEF CleanFor, QuickCreateInbound
<1>1. Clean(order[o], ledger[o], lastTrip, T)
  BY DEF CleanFor
<1>2. CASE o # n
  BY <1>1, <1>2 DEF QuickCreateInbound, TypeOK
<1>3. CASE o = n
  <2>1. /\ order'[o] = Intake(o, h, q, d)
        /\ ledger'[o] = IF d THEN ledger[o] ELSE Append(ledger[o], Row("INBOUND", h, NoTrip, q))
        /\ IsUnborn(o) \/ IsLive(o)
    BY <1>3 DEF QuickCreateInbound, TypeOK
  <2>2. q \in Nat /\ NoTrip \in Nat /\ lastTrip \in Nat /\ NoTrip <= lastTrip
    BY OrderFacts DEF NoTrip
  <2>3. Clean(Intake(o, h, q, d), IF d THEN ledger[o] ELSE Append(ledger[o], Row("INBOUND", h, NoTrip, q)),
              lastTrip, T)
    BY <1>1, <2>1, <2>2, IntakeClean
  <2> QED
    BY <2>1, <2>3
<1> QED
  BY <1>2, <1>3

(* batchCreateInboundOrders: its code is new. *)
LEMMA BatchCreateClean ==
  ASSUME NEW T, TypeOK, CleanFor(T), NEW h \in Hubs, NEW got \in Cargo, NEW drafts \in SUBSET Orders,
         BatchCreateInbound(h, got, drafts)
  PROVE  CleanFor(T)'
<1> DEFINE t == lastTrip + 1
<1>1. lastTrip \in Nat /\ t \in Nat /\ lastTrip' = t /\ lastTrip <= t /\ t > lastTrip
  BY BoundsAssumption DEF TypeOK, BatchCreateInbound
<1> SUFFICES ASSUME NEW o \in Orders
             PROVE  Clean(order'[o], ledger'[o], t, T)
  BY <1>1 DEF CleanFor
<1>2. Clean(order[o], ledger[o], lastTrip, T)
  BY DEF CleanFor
<1>3. CASE o \notin DOMAIN got
  <2>1. order'[o] = order[o] /\ ledger'[o] = ledger[o]
    BY <1>3 DEF BatchCreateInbound
  <2> HIDE DEF t
  <2> QED
    BY <1>1, <1>2, <2>1, UntouchedClean
<1>4. CASE o \in DOMAIN got
  <2> DEFINE d == o \in drafts
             q == got[o]
  <2>1. /\ order'[o] = Intake(o, h, q, d)
        /\ ledger'[o] = IF d THEN ledger[o] ELSE Append(ledger[o], Row("INBOUND", h, t, q))
        /\ IsUnborn(o) \/ IsLive(o)
    BY <1>4 DEF BatchCreateInbound
  <2>2. q \in Nat /\ d \in BOOLEAN
    BY <1>4, CargoType
  <2> HIDE DEF t, d, q
  <2>3. Clean(Intake(o, h, q, d), IF d THEN ledger[o] ELSE Append(ledger[o], Row("INBOUND", h, t, q)), t, T)
    BY <1>1, <1>2, <2>1, <2>2, IntakeClean
  <2> QED
    BY <2>1, <2>3
<1> QED
  BY <1>3, <1>4

(* confirmInbound. *)
LEMMA ConfirmInboundClean ==
  ASSUME NEW T, TypeOK, CleanFor(T), NEW h \in Hubs, NEW admin \in BOOLEAN, NEW t \in Codes \cup {NoTrip},
         NEW got \in Cargo, NEW keep \in BOOLEAN, ConfirmInbound(h, admin, t, got, keep)
  PROVE  CleanFor(T)'
<1>1. lastTrip' = lastTrip
  BY DEF ConfirmInbound
<1> SUFFICES ASSUME NEW o \in Orders
             PROVE  Clean(order'[o], ledger'[o], lastTrip, T)
  BY <1>1 DEF CleanFor
<1>2. Clean(order[o], ledger[o], lastTrip, T)
  BY DEF CleanFor
<1>3. CASE o \in DOMAIN got
  <2>1. /\ order'[o] = ReceivedOrder(o, h, admin, t, got[o])
        /\ ledger'[o] = ReceivedLedger(o, h, admin, t, got[o])
        /\ IsUnborn(o) \/ IsLive(o)
    BY <1>3 DEF ConfirmInbound
  <2>2. got[o] \in Nat
    BY <1>3, CargoType
  <2> QED
    BY <1>2, <2>1, <2>2, ReceivedClean
<1>4. CASE o \notin DOMAIN got
  <2>1. ledger'[o] = ledger[o] /\ order'[o] \in {order[o], RemovedOrder(o, t)}
    BY <1>4 DEF ConfirmInbound
  <2> QED
    BY <1>2, <2>1, RemovedClean
<1> QED
  BY <1>3, <1>4

(* confirmInbound with targetStatus KEEP. *)
LEMMA SaveInboundDraftClean ==
  ASSUME NEW T, TypeOK, CleanFor(T), NEW h \in Hubs, NEW admin \in BOOLEAN, NEW t \in Codes,
         NEW got \in Cargo, SaveInboundDraft(h, admin, t, got)
  PROVE  CleanFor(T)'
<1>1. lastTrip' = lastTrip /\ ledger' = ledger
  BY DEF SaveInboundDraft
<1> SUFFICES ASSUME NEW o \in Orders
             PROVE  Clean(order'[o], ledger[o], lastTrip, T)
  BY <1>1 DEF CleanFor
<1>2. Clean(order[o], ledger[o], lastTrip, T)
  BY DEF CleanFor
<1>3. CASE o \in DOMAIN got
  <2>1. order'[o] = DraftedOrder(o, h, admin, got[o]) /\ (IsUnborn(o) \/ IsLive(o))
    BY <1>3 DEF SaveInboundDraft
  <2>2. got[o] \in Nat
    BY <1>3, CargoType
  <2> QED
    BY <1>2, <2>1, <2>2, DraftedClean
<1>4. CASE o \notin DOMAIN got
  <2>1. order'[o] \in {order[o], RemovedOrder(o, t)}
    BY <1>4 DEF SaveInboundDraft
  <2> QED
    BY <1>2, <2>1, RemovedClean
<1> QED
  BY <1>3, <1>4

(* confirmOutbound. *)
LEMMA ConfirmOutboundClean ==
  ASSUME NEW T, TypeOK, CleanFor(T), NEW h \in Hubs, NEW load \in Cargo, NEW to \in Hubs \cup {NoHub},
         NEW d \in Codes \cup {NoTrip}, ConfirmOutbound(h, load, to, d)
  PROVE  CleanFor(T)'
<1> DEFINE t == TripFor(d)
<1>1. t \in Nat /\ lastTrip \in Nat /\ lastTrip' \in Nat /\ lastTrip <= lastTrip' /\ t <= lastTrip'
  <2>1. t \in Nat /\ lastTrip \in Nat /\ lastTrip' \in Nat
    BY TripForType, BoundsAssumption DEF ConfirmOutbound, TypeOK
  <2> QED
    BY <2>1 DEF ConfirmOutbound, TripFor, Codes, NoTrip
<1> SUFFICES ASSUME NEW o \in Orders
             PROVE  Clean(order'[o], ledger'[o], lastTrip', T)
  BY DEF CleanFor
<1>2. Clean(order[o], ledger[o], lastTrip, T)
  BY DEF CleanFor
<1>3. CASE o \notin DOMAIN load
  <2>1. order'[o] = order[o] /\ ledger'[o] = ledger[o]
    BY <1>3 DEF ConfirmOutbound
  <2> QED
    BY <1>1, <1>2, <2>1, UntouchedClean
<1>4. CASE o \in DOMAIN load
  <2>1. /\ order'[o] = DispatchedOrder(o, t, load[o], to)
        /\ ledger'[o] = Append(ledger[o], Row(OutKind(to), h, t, load[o]))
        /\ IsLive(o) /\ ~IsDraft(o)
    BY <1>4 DEF ConfirmOutbound
  <2>2. load[o] \in Nat
    BY <1>4, CargoType
  <2> HIDE DEF t
  <2> QED
    BY <1>1, <1>2, <2>1, <2>2, DispatchedClean
<1> QED
  BY <1>3, <1>4

(* The same when each order leaves from its own hub. *)
LEMMA AdminConfirmOutboundClean ==
  ASSUME NEW T, TypeOK, CleanFor(T), NEW load \in Cargo, NEW at \in [DOMAIN load -> Hubs],
         NEW first \in DOMAIN load, NEW to \in Hubs \cup {NoHub}, NEW d \in Codes \cup {NoTrip},
         AdminConfirmOutbound(at, first, load, to, d)
  PROVE  CleanFor(T)'
<1> DEFINE t == TripFor(d)
<1>1. t \in Nat /\ lastTrip \in Nat /\ lastTrip' \in Nat /\ lastTrip <= lastTrip' /\ t <= lastTrip'
  <2>1. t \in Nat /\ lastTrip \in Nat /\ lastTrip' \in Nat
    BY TripForType, BoundsAssumption DEF AdminConfirmOutbound, TypeOK
  <2> QED
    BY <2>1 DEF AdminConfirmOutbound, TripFor, Codes, NoTrip
<1> SUFFICES ASSUME NEW o \in Orders
             PROVE  Clean(order'[o], ledger'[o], lastTrip', T)
  BY DEF CleanFor
<1>2. Clean(order[o], ledger[o], lastTrip, T)
  BY DEF CleanFor
<1>3. CASE o \notin DOMAIN load
  <2>1. order'[o] = order[o] /\ ledger'[o] = ledger[o]
    BY <1>3 DEF AdminConfirmOutbound
  <2> QED
    BY <1>1, <1>2, <2>1, UntouchedClean
<1>4. CASE o \in DOMAIN load
  <2>1. /\ order'[o] = DispatchedOrder(o, t, load[o], to)
        /\ ledger'[o] = Append(ledger[o], Row(OutKind(to), at[o], t, load[o]))
        /\ IsLive(o) /\ ~IsDraft(o)
    BY <1>4 DEF AdminConfirmOutbound
  <2>2. load[o] \in Nat /\ at[o] \in Hubs
    BY <1>4, CargoType
  <2> HIDE DEF t
  <2> QED
    BY <1>1, <1>2, <2>1, <2>2, DispatchedClean
<1> QED
  BY <1>3, <1>4

(* cancelInboundDraft. *)
LEMMA CancelInboundDraftClean ==
  ASSUME NEW T, TypeOK, CleanFor(T), NEW h \in Hubs, NEW t \in Codes, CancelInboundDraft(h, t)
  PROVE  CleanFor(T)'
<1>1. lastTrip' = lastTrip /\ ledger' = ledger /\ \A o \in Orders : order'[o] = CancelledOrder(o, t)
  BY DEF CancelInboundDraft
<1>2. \A o \in Orders : Clean(order[o], ledger[o], lastTrip, T)
  BY DEF CleanFor
<1> QED
  BY <1>1, <1>2, CancelledClean DEF CleanFor

(* saveOutboundDraft, cancelOutboundDraft and the transit step touch no     *)
(* order. *)
LEMMA UntouchedOrders ==
  ASSUME NEW T, TypeOK, CleanFor(T), UNCHANGED <<order, ledger>>, lastTrip' \in Nat, lastTrip <= lastTrip'
  PROVE  CleanFor(T)'
BY UntouchedClean DEF CleanFor

(* Whatever the handlers accept, orders stay clean. *)
LEMMA CleanForStep ==
  ASSUME NEW T, TypeOK, CleanFor(T), [Next]_vars
  PROVE  CleanFor(T)'
<1>1. lastTrip \in Nat
  BY BoundsAssumption DEF TypeOK
<1>2. CASE UNCHANGED vars
  BY <1>1, <1>2, UntouchedOrders DEF vars
<1>3. ASSUME NEW h \in Hubs, NEW load \in Cargo, NEW to \in Hubs \cup {NoHub}, NEW d \in Codes \cup {NoTrip},
             SaveOutboundDraft(h, load, to, d)
      PROVE  CleanFor(T)'
  BY <1>1, <1>3, UntouchedOrders DEF SaveOutboundDraft, TripFor
<1>4. ASSUME NEW h \in Hubs \cup {NoHub}, NEW t \in Codes, CancelOutboundDraft(h, t) \/ UpdateTransitStep(h, t)
      PROVE  CleanFor(T)'
  BY <1>1, <1>4, UntouchedOrders DEF CancelOutboundDraft, UpdateTransitStep
<1>5. CASE HubNext
  BY <1>3, <1>4, <1>5, CreateOrderClean, QuickCreateClean, BatchCreateClean, ConfirmInboundClean,
     SaveInboundDraftClean, ConfirmOutboundClean, CancelInboundDraftClean DEF HubNext
<1>6. ASSUME NEW load \in Cargo, NEW to \in Hubs \cup {NoHub}, NEW d \in Codes \cup {NoTrip},
             NEW at \in [DOMAIN load -> Hubs], NEW first \in DOMAIN load, AdminOutbound(at, first, load, to, d)
      PROVE  CleanFor(T)'
  <2>1. CASE AdminSaveOutboundDraft(at, first, load, to, d)
    BY <1>1, <2>1, UntouchedOrders DEF AdminSaveOutboundDraft, TripFor
  <2> QED
    BY <1>6, <2>1, AdminConfirmOutboundClean DEF AdminOutbound
<1> QED
  BY <1>2, <1>5, <1>6 DEF Next

LEMMA CleanStep == TypeOK /\ AllClean /\ [Next]_vars => AllClean'
BY CleanForStep DEF AllClean

(* What clean orders say of the properties. *)
LEMMA CleanMeans ==
  ASSUME TypeOK, AllClean
  PROVE  TotalCoversInbound /\ OneReceiptPerStop /\ DeletedOrderHasNoStock
<1>0. \A o \in Orders : Clean(order[o], ledger[o], lastTrip, Nat)
  BY DEF AllClean, CleanFor
<1>1. TotalCoversInbound
  BY <1>0 DEF Clean, Unstocked, TotalCoversInbound, IsLive, IsDraft
<1>2. DeletedOrderHasNoStock
  BY <1>0 DEF Clean, Unstocked, DeletedOrderHasNoStock, IsLive, Rows
<1>3. ASSUME NEW o \in Orders, NEW t \in Trips, NEW h \in Hubs
      PROVE  Cardinality(ReceiptsOf(o, t, h)) <= 1
  <2>1. t # NoTrip /\ t \in Nat
    BY BoundsAssumption DEF Trips, NoTrip
  <2>2. \A i, j \in ReceiptsOf(o, t, h) : i = j
    BY <1>0, <2>1 DEF Clean, Alike, ReceiptsOf, RowsAt, RowsOn, Rows, Receipt
  <2>3. CASE ReceiptsOf(o, t, h) = {}
    BY <2>3, FS_EmptySet
  <2>4. CASE ReceiptsOf(o, t, h) # {}
    <3>1. PICK i \in ReceiptsOf(o, t, h) : ReceiptsOf(o, t, h) = {i}
      BY <2>2, <2>4
    <3>2. Cardinality({i}) = 1
      BY FS_Singleton
    <3> QED
      BY <3>1, <3>2
  <2> QED
    BY <2>3, <2>4
<1> QED
  BY <1>1, <1>2, <1>3 DEF OneReceiptPerStop

(* Orders stay clean from the first request on. *)
LEMMA AlwaysClean == Spec => [](TypeOK /\ AllClean)
<1>1. Init => TypeOK /\ AllClean
  BY InitType, InitClean DEF AllClean
<1>2. TypeOK /\ AllClean /\ [Next]_vars => (TypeOK /\ AllClean)'
  BY TypeStep, CleanStep
<1> QED
  BY <1>1, <1>2, PTL DEF Spec

(* The contract total covers what was received, through receipts, their     *)
(* corrections by administrators, notes saved back and cancelled arrivals.  *)
THEOREM ContractCoversReceipts == Spec => []TotalCoversInbound
<1>1. TypeOK /\ AllClean => TotalCoversInbound
  BY CleanMeans
<1> QED
  BY <1>1, AlwaysClean, PTL

(* A vehicle is received at most once per order and hub: the duplicate      *)
(* check of confirmInbound suffices, because a draft has no invoice and a   *)
(* batch intake takes a code no invoice has.                                *)
THEOREM ReceivedOnce == Spec => []OneReceiptPerStop
<1>1. TypeOK /\ AllClean => OneReceiptPerStop
  BY CleanMeans
<1> QED
  BY <1>1, AlwaysClean, PTL

(* Only an order without invoices is ever removed: the two handlers that    *)
(* delete orders check the status only, and a draft never has any.          *)
THEOREM RemovedHadNoStock == Spec => []DeletedOrderHasNoStock
<1>1. TypeOK /\ AllClean => DeletedOrderHasNoStock
  BY CleanMeans
<1> QED
  BY <1>1, AlwaysClean, PTL

-----------------------------------------------------------------------------
(* Plans and vehicles on the road. *)

(* A live dispatch invoice is booked on trip t. *)
ShippedOn(s, t) == \E i \in DOMAIN s : s[i].live /\ s[i].kind \in Dispatch /\ s[i].trip = t

(* A line on the road has its invoice, and its trip left from a processed   *)
(* stop; where one has shipped nothing is planned any more. *)
RoadOK ==
  /\ \A t \in Trips, o \in Orders : line[t][o].status = "IN_TRANSIT" =>
       /\ ShippedOn(ledger[o], t)
       /\ \E p \in Orders : LeftFrom(t, p) /\ line[t][p].hub \in Hubs
  /\ \A t \in Trips, p \in Orders : ShippedOn(ledger[p], t) => \A o \in Orders : ~PendingOut(t, o)

(* The query of the handlers in these terms. *)
LEMMA ShippedQuery ==
  ASSUME NEW o \in Orders, NEW t
  PROVE  RowsOn(o, Dispatch, t) # {} <=> ShippedOn(ledger[o], t)
BY DEF RowsOn, Rows, ShippedOn

(* What a new invoice ships. *)
LEMMA ShippedAppend ==
  ASSUME NEW s \in Seq(RowRecord), NEW r \in RowRecord, NEW t
  PROVE  ShippedOn(Append(s, r), t) <=> ShippedOn(s, t) \/ (r.live /\ r.kind \in Dispatch /\ r.trip = t)
<1> DEFINE z == Append(s, r)
           n == Len(s) + 1
<1>1. DOMAIN s = 1 .. Len(s) /\ Len(s) \in Nat
  BY LenProperties
<1>2. DOMAIN z = 1 .. n /\ (\A i \in 1 .. Len(s) : z[i] = s[i]) /\ z[n] = r
  <2>1. z \in Seq(RowRecord) /\ Len(z) = n
    BY AppendProperties
  <2> QED
    BY <2>1, AppendProperties, LenProperties
<1>3. DOMAIN z = DOMAIN s \cup {n}
  BY <1>1, <1>2
<1> HIDE DEF z, n
<1>4. ShippedOn(z, t) <=> ShippedOn(s, t) \/ (r.live /\ r.kind \in Dispatch /\ r.trip = t)
  BY <1>1, <1>2, <1>3 DEF ShippedOn
<1> QED
  BY <1>4 DEF z

(* A receipt ships nothing, a correction of one neither. *)
LEMMA ReceiptShipsNothing ==
  ASSUME TypeOK, NEW o \in Orders, NEW h \in Hubs, NEW q \in Nat
  PROVE  /\ \A c \in Nat : \A t : ShippedOn(Append(ledger[o], Row("INBOUND", h, c, q)), t) <=> ShippedOn(ledger[o], t)
         /\ \A admin \in BOOLEAN, u \in Codes \cup {NoTrip} : \A t :
              ShippedOn(ReceivedLedger(o, h, admin, u, q), t) <=> ShippedOn(ledger[o], t)
<1>1. ledger[o] \in Seq(RowRecord) /\ order[o].trip \in Nat
  BY OrderFacts
<1>2. ASSUME NEW c \in Nat, NEW t
      PROVE  ShippedOn(Append(ledger[o], Row("INBOUND", h, c, q)), t) <=> ShippedOn(ledger[o], t)
  <2> DEFINE r == Row("INBOUND", h, c, q)
  <2>1. r \in RowRecord /\ r.kind \notin Dispatch
    BY DEF Row, RowRecord, Kinds, Receipt, Dispatch
  <2> HIDE DEF r
  <2>2. ShippedOn(Append(ledger[o], r), t) <=> ShippedOn(ledger[o], t)
    BY <1>1, <2>1, ShippedAppend
  <2> QED
    BY <2>2 DEF r
<1>3. ASSUME NEW admin \in BOOLEAN, NEW u \in Codes \cup {NoTrip}, NEW t
      PROVE  ShippedOn(ReceivedLedger(o, h, admin, u, q), t) <=> ShippedOn(ledger[o], t)
  <2> DEFINE c == TripOf(o, h, admin, u)
             i == TheReceipt(o, c, h)
             z == [ledger[o] EXCEPT ![i].qty = q]
  <2>1. c \in Nat
    BY <1>1, CodesAreTrips DEF TripOf, NoTrip
  <2>2. CASE ReceivedLedger(o, h, admin, u, q) = Append(ledger[o], Row("INBOUND", h, c, q))
    BY <1>2, <2>1, <2>2
  <2>3. CASE ReceivedLedger(o, h, admin, u, q) = ledger[o]
    BY <2>3
  <2>4. CASE Skipped(o, h, admin, u) /\ ReceivedLedger(o, h, admin, u, q) = z
    <3>1. i \in DOMAIN ledger[o]
      BY <2>4, TheReceiptChosen DEF Skipped
    <3> HIDE DEF i
    <3>2. SameRows(ledger[o], z)
      BY <1>1, <3>1, CorrectedRows
    <3> HIDE DEF z
    <3> QED
      BY <2>4, <3>2 DEF SameRows, ShippedOn
  <2> QED
    BY <2>2, <2>3, <2>4 DEF ReceivedLedger
<1> QED
  BY <1>2, <1>3

(* A handler that ships nothing, loads nothing, and plans only where        *)
(* nothing was shipped. *)
LEMMA QuietRoad ==
  ASSUME TypeOK, RoadOK, Next,
         \A t \in Trips, o \in Orders : ShippedOn(ledger'[o], t) <=> ShippedOn(ledger[o], t),
         \A t \in Trips, o \in Orders :
           /\ line'[t][o].status = "IN_TRANSIT" => line[t][o].status = "IN_TRANSIT"
           /\ line'[t][o].status = "PENDING" /\ line'[t][o].kind \in Dispatch =>
                PendingOut(t, o) \/ \A p \in Orders : ~ShippedOn(ledger[p], t)
           /\ LiveLine(t, o) /\ line[t][o].kind \in Dispatch /\ ~PendingOut(t, o) =>
                \/ \A p \in Orders : ~ShippedOn(ledger[p], t)
                \/ /\ line'[t][o].status \notin {"NONE", "DELETED"}
                   /\ line'[t][o].kind = line[t][o].kind /\ line'[t][o].hub = line[t][o].hub
  PROVE  RoadOK'
<1>1. ASSUME NEW t \in Trips, NEW o \in Orders, line'[t][o].status = "IN_TRANSIT"
      PROVE  /\ ShippedOn(ledger'[o], t)
             /\ \E p \in Orders : LeftFrom(t, p)' /\ line'[t][p].hub \in Hubs
  <2>1. line[t][o].status = "IN_TRANSIT" /\ ShippedOn(ledger[o], t)
    BY <1>1 DEF RoadOK
  <2>2. PICK p \in Orders : LeftFrom(t, p) /\ line[t][p].hub \in Hubs
    BY <2>1 DEF RoadOK
  <2>3. ~PendingOut(t, p)
    BY <2>1 DEF RoadOK
  <2>4. /\ line'[t][p].status \notin {"NONE", "DELETED"}
        /\ line'[t][p].kind = line[t][p].kind /\ line'[t][p].hub = line[t][p].hub
    BY <2>1, <2>2, <2>3 DEF LeftFrom
  <2>5. stop'[t][line[t][p].hub] = "COMPLETED"
    BY <2>2, StopStep DEF LeftFrom
  <2>6. LeftFrom(t, p)' /\ line'[t][p].hub \in Hubs
    BY <2>2, <2>4, <2>5 DEF LeftFrom, LiveLine
  <2> QED
    BY <2>1, <2>6
<1>2. ASSUME NEW t \in Trips, NEW p \in Orders, ShippedOn(ledger'[p], t), NEW o \in Orders
      PROVE  ~(line'[t][o].status = "PENDING" /\ line'[t][o].kind \in Dispatch)
  BY <1>2 DEF RoadOK
<1> QED
  BY <1>1, <1>2 DEF RoadOK, PendingOut

(* Nothing was ever booked on a code not yet allocated. *)
LEMMA FreshCode ==
  ASSUME TypeOK, AllClean, NEW o \in Orders
  PROVE  ~ShippedOn(ledger[o], lastTrip + 1)
<1>1. Clean(order[o], ledger[o], lastTrip, Nat) /\ lastTrip \in Nat
  BY OrderFacts DEF AllClean, CleanFor
<1> QED
  BY <1>1, OrderFacts DEF Clean, ShippedOn

-----------------------------------------------------------------------------
(* Every handler keeps the road in order. *)

LEMMA InitRoad == Init => RoadOK
BY DEF Init, RoadOK, NoLine, ShippedOn

(* Order entry and intake without a vehicle touch neither lines nor stops. *)
LEMMA EntryRoad ==
  ASSUME TypeOK, RoadOK, Next, NEW n \in Orders, NEW q \in 1 .. MaxQty,
         \/ \E h \in Hubs \cup {NoHub} : CreateOrder(n, h, q)
         \/ \E h \in Hubs, d \in BOOLEAN : QuickCreateInbound(n, h, q, d)
  PROVE  RoadOK'
<1>1. line' = line
  BY DEF CreateOrder, QuickCreateInbound
<1>2. ASSUME NEW t \in Trips, NEW o \in Orders
      PROVE  ShippedOn(ledger'[o], t) <=> ShippedOn(ledger[o], t)
  <2>1. CASE ledger' = ledger
    BY <2>1
  <2>2. CASE \E h \in Hubs : ledger' = [ledger EXCEPT ![n] = Append(ledger[n], Row("INBOUND", h, NoTrip, q))]
    <3>1. PICK h \in Hubs : ledger' = [ledger EXCEPT ![n] = Append(ledger[n], Row("INBOUND", h, NoTrip, q))]
      BY <2>2
    <3>2. ShippedOn(Append(ledger[n], Row("INBOUND", h, NoTrip, q)), t) <=> ShippedOn(ledger[n], t)
      BY ReceiptShipsNothing DEF NoTrip
    <3>3. ledger'[o] = IF o = n THEN Append(ledger[n], Row("INBOUND", h, NoTrip, q)) ELSE ledger[o]
      BY <3>1 DEF TypeOK
    <3> QED
      BY <3>2, <3>3
  <2> QED
    BY <2>1, <2>2 DEF CreateOrder, QuickCreateInbound
<1> QED
  BY <1>1, <1>2, QuietRoad DEF PendingOut, LiveLine

(* batchCreateInboundOrders plans receipts, on a code of its own. *)
LEMMA BatchRoad ==
  ASSUME TypeOK, AllClean, RoadOK, Next, NEW h \in Hubs, NEW got \in Cargo, NEW drafts \in SUBSET Orders,
         BatchCreateInbound(h, got, drafts)
  PROVE  RoadOK'
<1> DEFINE n == lastTrip + 1
<1>1. n \in Trips /\ n \in Nat
  BY BoundsAssumption DEF BatchCreateInbound, TypeOK, Trips
<1>2. ASSUME NEW t \in Trips, NEW o \in Orders
      PROVE  ShippedOn(ledger'[o], t) <=> ShippedOn(ledger[o], t)
  <2>1. CASE ledger'[o] = ledger[o]
    BY <2>1
  <2>2. CASE o \in DOMAIN got /\ ledger'[o] = Append(ledger[o], Row("INBOUND", h, n, got[o]))
    <3>1. got[o] \in Nat
      BY <2>2, CargoType
    <3> HIDE DEF n
    <3> QED
      BY <1>1, <2>2, <3>1, ReceiptShipsNothing
  <2> QED
    BY <2>1, <2>2 DEF BatchCreateInbound
<1>3. ASSUME NEW t \in Trips, NEW o \in Orders
      PROVE  \/ line'[t][o] = line[t][o]
             \/ t = n /\ line'[t][o].kind = "INBOUND" /\ line'[t][o].status \in {"PENDING", "COMPLETED"}
  BY <1>1 DEF BatchCreateInbound, TypeOK, Line
<1>4. \A p \in Orders : ~ShippedOn(ledger[p], n)
  BY FreshCode
<1> HIDE DEF n
<1> QED
  BY <1>2, <1>3, <1>4, QuietRoad DEF PendingOut, LiveLine, Dispatch

(* confirmInbound closes lines, plans receipts, and keeps the rest. *)
LEMMA ConfirmInboundRoad ==
  ASSUME TypeOK, RoadOK, Next, NEW h \in Hubs, NEW admin \in BOOLEAN, NEW t \in Codes \cup {NoTrip},
         NEW got \in Cargo, NEW keep \in BOOLEAN, ConfirmInbound(h, admin, t, got, keep)
  PROVE  RoadOK'
<1>1. ASSUME NEW c \in Trips, NEW o \in Orders
      PROVE  ShippedOn(ledger'[o], c) <=> ShippedOn(ledger[o], c)
  <2>1. CASE o \notin DOMAIN got
    BY <2>1 DEF ConfirmInbound
  <2>2. CASE o \in DOMAIN got
    <3>1. ledger'[o] = ReceivedLedger(o, h, admin, t, got[o]) /\ got[o] \in Nat
      BY <2>2, CargoType DEF ConfirmInbound
    <3> QED
      BY <3>1, ReceiptShipsNothing
  <2> QED
    BY <2>1, <2>2
<1>2. ASSUME NEW c \in Trips, NEW o \in Orders
      PROVE  /\ line'[c][o].status = "IN_TRANSIT" => line[c][o].status = "IN_TRANSIT"
             /\ line'[c][o].status = "PENDING" /\ line'[c][o].kind \in Dispatch => PendingOut(c, o)
             /\ LiveLine(c, o) /\ line[c][o].kind \in Dispatch =>
                  /\ line'[c][o].status \notin {"NONE", "DELETED"}
                  /\ line'[c][o].kind = line[c][o].kind /\ line'[c][o].hub = line[c][o].hub
  <2> DEFINE old == line[c][o]
  <2>1. old \in LineRecord
    BY DEF TypeOK
  <2>2. PICK l : /\ \/ l = old
                    \/ l = DeletedLine /\ ~(LiveLine(c, o) /\ old.kind \in Dispatch)
                    \/ \E q \in Nat : l = ReceivedLine(c, o, h, admin, t, q, keep)
                 /\ \E done \in BOOLEAN : line'[c][o] = Sweep(l, done)
    <3> DEFINE S == DOMAIN got
               gone == Removed(t, h, S, keep)
               on(e) == {p \in S : TripOf(p, h, admin, t) = e}
               processed == {e \in Trips : on(e) # {}}
               before == IF o \in on(c) THEN ReceivedLine(c, o, h, admin, t, got[o], keep)
                         ELSE IF c = t /\ o \in gone THEN DeletedLine ELSE line[c][o]
               done == c \in processed /\ ~keep /\ ~AnyPending(ReceivedStops(c, h, keep))
    <3>1. line'[c][o] = Sweep(before, done)
      BY DEF ConfirmInbound
    <3>2. done \in BOOLEAN
      OBVIOUS
    <3>3. \/ before = old
          \/ before = DeletedLine /\ ~(LiveLine(c, o) /\ old.kind \in Dispatch)
          \/ \E q \in Nat : before = ReceivedLine(c, o, h, admin, t, q, keep)
      <4>1. c = t /\ o \in gone => old.kind \notin Dispatch
        BY DEF Removed, Dispatch
      <4>2. o \in on(c) => got[o] \in Nat
        BY CargoType
      <4> HIDE DEF on, gone, old
      <4>3. ASSUME o \in on(c)
            PROVE  \E q \in Nat : before = ReceivedLine(c, o, h, admin, t, q, keep)
        <5>1. before = ReceivedLine(c, o, h, admin, t, got[o], keep)
          BY <4>3
        <5> HIDE DEF before
        <5> QED
          BY <4>2, <4>3, <5>1
      <4>4. ASSUME o \notin on(c), ~(c = t /\ o \in gone)
            PROVE  before = old
        BY <4>4 DEF old
      <4>5. ASSUME o \notin on(c), c = t /\ o \in gone
            PROVE  before = DeletedLine /\ ~(LiveLine(c, o) /\ old.kind \in Dispatch)
        BY <4>1, <4>5
      <4> HIDE DEF before
      <4> QED
        BY <4>3, <4>4, <4>5
    <3> HIDE DEF before, done
    <3> QED
      BY <3>1, <3>2, <3>3
  <2>3. /\ l.status = "IN_TRANSIT" => old.status = "IN_TRANSIT"
        /\ l.status = "PENDING" /\ l.kind \in Dispatch => old.status = "PENDING" /\ old.kind \in Dispatch
        /\ LiveLine(c, o) /\ old.kind \in Dispatch =>
             l.status \notin {"NONE", "DELETED"} /\ l.kind = old.kind /\ l.hub = old.hub
    <3>1. CASE l = old
      BY <3>1 DEF LiveLine
    <3>2. CASE l = DeletedLine /\ ~(LiveLine(c, o) /\ old.kind \in Dispatch)
      BY <3>2 DEF DeletedLine, NoLine
    <3>3. ASSUME NEW q \in Nat, l = ReceivedLine(c, o, h, admin, t, q, keep)
          PROVE  \/ /\ l.hub = old.hub /\ l.kind = old.kind
                    /\ l.status = old.status \/ l.status = "COMPLETED"
                 \/ ~LiveLine(c, o) /\ l.kind = "INBOUND" /\ l.status \in {"PENDING", "COMPLETED"}
      <4>1. \/ l = old
            \/ l = [old EXCEPT !.qty = q]
            \/ l = [old EXCEPT !.qty = q, !.status = IF keep THEN old.status ELSE "COMPLETED"]
            \/ ~LiveLine(c, o) /\ l = Line(IF keep THEN "PENDING" ELSE "COMPLETED", "INBOUND", h, q)
        BY <3>3, Zenon DEF ReceivedLine
      <4> HIDE DEF old
      <4>2. CASE l = [old EXCEPT !.qty = q]
        BY <2>1, <4>2 DEF LineRecord
      <4>3. CASE l = [old EXCEPT !.qty = q, !.status = IF keep THEN old.status ELSE "COMPLETED"]
        BY <2>1, <4>3 DEF LineRecord
      <4>4. CASE ~LiveLine(c, o) /\ l = Line(IF keep THEN "PENDING" ELSE "COMPLETED", "INBOUND", h, q)
        BY <4>4 DEF Line
      <4> QED
        BY <4>1, <4>2, <4>3, <4>4
    <3> QED
      BY <2>2, <3>1, <3>2, <3>3 DEF Dispatch, LiveLine
  <2>4. /\ line'[c][o].status = "IN_TRANSIT" => line'[c][o] = l
        /\ line'[c][o].status = "PENDING" => line'[c][o] = l
        /\ l.status \notin {"NONE", "DELETED"} => line'[c][o].status \notin {"NONE", "DELETED"}
        /\ line'[c][o].kind = l.kind /\ line'[c][o].hub = l.hub
    <3>1. l \in LineRecord
      BY <2>1, <2>2, LineType, ReceivedLineType
    <3> QED
      BY <2>2, <3>1 DEF Sweep, LineRecord
  <2> QED
    BY <2>3, <2>4 DEF PendingOut
<1> QED
  BY <1>1, <1>2, QuietRoad

(* A saved receiving note changes quantities and plans receipts. *)
LEMMA SaveInboundDraftRoad ==
  ASSUME TypeOK, RoadOK, Next, NEW h \in Hubs, NEW admin \in BOOLEAN, NEW t \in Codes, NEW got \in Cargo,
         SaveInboundDraft(h, admin, t, got)
  PROVE  RoadOK'
<1>1. t \in Trips /\ ledger' = ledger
  BY CodesAreTrips DEF SaveInboundDraft
<1>2. ASSUME NEW c \in Trips, NEW o \in Orders
      PROVE  /\ line'[c][o].status = "IN_TRANSIT" => line[c][o].status = "IN_TRANSIT"
             /\ line'[c][o].status = "PENDING" /\ line'[c][o].kind \in Dispatch => PendingOut(c, o)
             /\ LiveLine(c, o) /\ line[c][o].kind \in Dispatch =>
                  /\ line'[c][o].status \notin {"NONE", "DELETED"}
                  /\ line'[c][o].kind = line[c][o].kind /\ line'[c][o].hub = line[c][o].hub
  <2>1. line[c][o] \in LineRecord
    BY DEF TypeOK
  <2>2. \/ line'[c][o] = line[c][o]
        \/ line'[c][o] = DeletedLine /\ ~(LiveLine(c, o) /\ line[c][o].kind \in Dispatch)
        \/ line'[c][o] = [line[c][o] EXCEPT !.qty = got[o]]
        \/ ~LiveLine(c, o) /\ line'[c][o] = Line("PENDING", "INBOUND", h, got[o])
    BY <1>1 DEF SaveInboundDraft, TypeOK, Removed, Dispatch
  <2> QED
    BY <2>1, <2>2 DEF LineRecord, DeletedLine, NoLine, Line, LiveLine, PendingOut, Dispatch
<1> QED
  BY <1>1, <1>2, QuietRoad

(* The code a dispatch or a note writes on has shipped nothing. *)
LEMMA NoteUnshipped ==
  ASSUME TypeOK, AllClean, NEW h, NEW d \in Codes \cup {NoTrip},
         d # NoTrip => OutboundDraft(d, h)
  PROVE  \A p \in Orders : ~ShippedOn(ledger[p], TripFor(d))
<1>1. CASE d = NoTrip
  BY <1>1, FreshCode DEF TripFor
<1>2. CASE d # NoTrip
  BY <1>2, ShippedQuery DEF OutboundDraft, TripFor
<1> QED
  BY <1>1, <1>2

(* A saved outbound note plans where nothing was shipped. *)
LEMMA NoteRoad ==
  ASSUME TypeOK, RoadOK, Next, NEW n \in Trips, \A p \in Orders : ~ShippedOn(ledger[p], n),
         UNCHANGED ledger, NEW new, line' = [line EXCEPT ![n] = new],
         \A o \in Orders : new[o].status # "IN_TRANSIT"
  PROVE  RoadOK'
<1>1. ASSUME NEW t \in Trips, NEW o \in Orders
      PROVE  /\ t # n => line'[t][o] = line[t][o]
             /\ t = n => line'[t][o].status # "IN_TRANSIT"
  BY DEF TypeOK
<1> QED
  BY <1>1, QuietRoad DEF PendingOut, LiveLine

LEMMA SaveOutboundDraftRoad ==
  ASSUME TypeOK, AllClean, RoadOK, Next, NEW h \in Hubs, NEW load \in Cargo, NEW to \in Hubs \cup {NoHub},
         NEW d \in Codes \cup {NoTrip}, SaveOutboundDraft(h, load, to, d)
  PROVE  RoadOK'
<1> DEFINE n == TripFor(d)
           new == Planned(n, h, load, to, "PENDING")
<1>1. n \in Trips /\ ledger' = ledger /\ line' = [line EXCEPT ![n] = new]
  BY TripForType DEF SaveOutboundDraft
<1>2. \A p \in Orders : ~ShippedOn(ledger[p], n)
  BY NoteUnshipped DEF SaveOutboundDraft
<1>3. \A o \in Orders : new[o].status # "IN_TRANSIT"
  BY DEF Planned, Line, LiveLine, DeletedLine, NoLine
<1> HIDE DEF n, new
<1> QED
  BY <1>1, <1>2, <1>3, NoteRoad

LEMMA AdminSaveOutboundDraftRoad ==
  ASSUME TypeOK, AllClean, RoadOK, Next, NEW load \in Cargo, NEW at \in [DOMAIN load -> Hubs],
         NEW first \in DOMAIN load, NEW to \in Hubs \cup {NoHub}, NEW d \in Codes \cup {NoTrip},
         AdminSaveOutboundDraft(at, first, load, to, d)
  PROVE  RoadOK'
<1> DEFINE n == TripFor(d)
           new == PlannedFrom(n, at, load, to, "PENDING")
<1>1. n \in Trips /\ ledger' = ledger /\ line' = [line EXCEPT ![n] = new]
  BY TripForType DEF AdminSaveOutboundDraft
<1>2. \A p \in Orders : ~ShippedOn(ledger[p], n)
  BY NoteUnshipped DEF AdminSaveOutboundDraft
<1>3. \A o \in Orders : new[o].status # "IN_TRANSIT"
  BY DEF PlannedFrom, Line, LiveLine, DeletedLine, NoLine
<1> HIDE DEF n, new
<1> QED
  BY <1>1, <1>2, <1>3, NoteRoad

(* A dispatch ships every line it leaves on its code, from the hub at[o] of *)
(* each, and closes the stop of one of them.                                *)
ShipsFrom(n, load, at, first, to) ==
  /\ \A o \in Orders : ledger'[o] = IF o \in DOMAIN load
                                    THEN Append(ledger[o], Row(OutKind(to), at[o], n, load[o]))
                                    ELSE ledger[o]
  /\ line' = [line EXCEPT ![n] = PlannedFrom(n, at, load, to, "IN_TRANSIT")]
  /\ stop'[n][at[first]] = "COMPLETED"

LEMMA DispatchRoad ==
  ASSUME TypeOK, RoadOK, Next, NEW n \in Trips, \A p \in Orders : ~ShippedOn(ledger[p], n),
         NEW load \in Cargo, NEW at \in [DOMAIN load -> Hubs], NEW first \in DOMAIN load,
         NEW to \in Hubs \cup {NoHub}, ShipsFrom(n, load, at, first, to)
  PROVE  RoadOK'
<1> DEFINE S == DOMAIN load
           r(o) == Row(OutKind(to), at[o], n, load[o])
<1>1. n \in Nat /\ S \subseteq Orders /\ \A o \in S : at[o] \in Hubs
  BY CargoType, BoundsAssumption DEF Trips
<1>2. \A o \in S : r(o) \in RowRecord /\ r(o).live /\ r(o).kind \in Dispatch /\ r(o).trip = n
  BY <1>1, CargoType DEF Row, RowRecord, Kinds, Dispatch, OutKind
<1> HIDE DEF r
(* The invoices. *)
<1>3. ASSUME NEW t \in Trips, NEW o \in Orders
      PROVE  ShippedOn(ledger'[o], t) <=> ShippedOn(ledger[o], t) \/ (t = n /\ o \in S)
  <2>1. CASE o \in S
    <3>1. ledger[o] \in Seq(RowRecord)
      BY OrderFacts
    <3>2. ShippedOn(Append(ledger[o], r(o)), t) <=> ShippedOn(ledger[o], t) \/ n = t
      BY <1>2, <2>1, <3>1, ShippedAppend
    <3> QED
      BY <2>1, <3>2 DEF r, ShipsFrom
  <2>2. CASE o \notin S
    BY <2>2 DEF ShipsFrom
  <2> QED
    BY <2>1, <2>2
(* The lines. *)
<1>4. ASSUME NEW t \in Trips, NEW o \in Orders
      PROVE  /\ t # n => line'[t][o] = line[t][o]
             /\ t = n /\ o \in S =>
                  line'[t][o].status = "IN_TRANSIT" /\ line'[t][o].kind \in Dispatch /\ line'[t][o].hub = at[o]
             /\ t = n /\ o \notin S => line'[t][o].status \in {"NONE", "DELETED"}
  <2>1. CASE t # n
    BY <2>1 DEF ShipsFrom, TypeOK
  <2>2. CASE t = n
    <3>1. line'[t][o] = IF o \in S THEN Line("IN_TRANSIT", OutKind(to), at[o], load[o])
                        ELSE IF LiveLine(t, o) THEN DeletedLine ELSE line[t][o]
      BY <2>2 DEF ShipsFrom, TypeOK, PlannedFrom
    <3> QED
      BY <2>2, <3>1 DEF Line, LiveLine, DeletedLine, NoLine, OutKind, Dispatch
  <2> QED
    BY <2>1, <2>2
<1>5. LeftFrom(n, first)' /\ line'[n][first].hub \in Hubs
  BY <1>1, <1>4 DEF ShipsFrom, LeftFrom, LiveLine
<1>6. ASSUME NEW t \in Trips, NEW o \in Orders, line'[t][o].status = "IN_TRANSIT"
      PROVE  /\ ShippedOn(ledger'[o], t)
             /\ \E p \in Orders : LeftFrom(t, p)' /\ line'[t][p].hub \in Hubs
  <2>1. CASE t = n
    BY <1>1, <1>3, <1>4, <1>5, <1>6, <2>1
  <2>2. CASE t # n
    <3>1. line[t][o].status = "IN_TRANSIT" /\ ShippedOn(ledger[o], t)
      BY <1>4, <1>6, <2>2 DEF RoadOK
    <3>2. PICK p \in Orders : LeftFrom(t, p) /\ line[t][p].hub \in Hubs
      BY <3>1 DEF RoadOK
    <3>3. line'[t][p] = line[t][p] /\ stop'[t][line[t][p].hub] = "COMPLETED"
      BY <1>4, <2>2, <3>2, StopStep DEF LeftFrom
    <3> QED
      BY <1>3, <3>1, <3>2, <3>3 DEF LeftFrom, LiveLine
  <2> QED
    BY <2>1, <2>2
<1>7. ASSUME NEW t \in Trips, NEW p \in Orders, ShippedOn(ledger'[p], t), NEW o \in Orders
      PROVE  ~(line'[t][o].status = "PENDING" /\ line'[t][o].kind \in Dispatch)
  <2>1. CASE t = n
    BY <1>4, <2>1
  <2>2. CASE t # n
    BY <1>3, <1>4, <1>7, <2>2 DEF RoadOK, PendingOut
  <2> QED
    BY <2>1, <2>2
<1> QED
  BY <1>6, <1>7 DEF RoadOK, PendingOut

LEMMA ConfirmOutboundRoad ==
  ASSUME TypeOK, AllClean, RoadOK, Next, NEW h \in Hubs, NEW load \in Cargo, NEW to \in Hubs \cup {NoHub},
         NEW d \in Codes \cup {NoTrip}, ConfirmOutbound(h, load, to, d)
  PROVE  RoadOK'
<1> DEFINE n == TripFor(d)
           at == [o \in DOMAIN load |-> h]
<1>1. n \in Trips /\ \A p \in Orders : ~ShippedOn(ledger[p], n)
  BY TripForType, NoteUnshipped DEF ConfirmOutbound
<1>2. PICK first \in DOMAIN load : TRUE
  BY DEF Cargo
<1>3. at \in [DOMAIN load -> Hubs] /\ \A o \in DOMAIN load : at[o] = h
  OBVIOUS
<1>4. PlannedFrom(n, at, load, to, "IN_TRANSIT") = Planned(n, h, load, to, "IN_TRANSIT")
  BY DEF PlannedFrom, Planned
<1>5. stop'[n][h] = "COMPLETED"
  BY <1>1 DEF ConfirmOutbound, TypeOK, Upsert
<1>6. /\ line' = [line EXCEPT ![n] = Planned(n, h, load, to, "IN_TRANSIT")]
      /\ \A o \in Orders : ledger'[o] = IF o \in DOMAIN load
                                        THEN Append(ledger[o], Row(OutKind(to), h, n, load[o])) ELSE ledger[o]
  BY DEF ConfirmOutbound
<1>7. ShipsFrom(n, load, at, first, to)
  <2> HIDE DEF n, at
  <2> QED
    BY <1>2, <1>3, <1>4, <1>5, <1>6 DEF ShipsFrom
<1> HIDE DEF n, at
<1> QED
  BY <1>1, <1>3, <1>7, DispatchRoad

LEMMA AdminConfirmOutboundRoad ==
  ASSUME TypeOK, AllClean, RoadOK, Next, NEW load \in Cargo, NEW at \in [DOMAIN load -> Hubs],
         NEW first \in DOMAIN load, NEW to \in Hubs \cup {NoHub}, NEW d \in Codes \cup {NoTrip},
         AdminConfirmOutbound(at, first, load, to, d)
  PROVE  RoadOK'
<1> DEFINE n == TripFor(d)
<1>1. n \in Trips /\ \A p \in Orders : ~ShippedOn(ledger[p], n)
  BY TripForType, NoteUnshipped DEF AdminConfirmOutbound
<1>2. stop'[n][at[first]] = "COMPLETED"
  BY <1>1 DEF AdminConfirmOutbound, TypeOK, Upsert
<1>3. /\ line' = [line EXCEPT ![n] = PlannedFrom(n, at, load, to, "IN_TRANSIT")]
      /\ \A o \in Orders : ledger'[o] = IF o \in DOMAIN load
                                        THEN Append(ledger[o], Row(OutKind(to), at[o], n, load[o]))
                                        ELSE ledger[o]
  BY DEF AdminConfirmOutbound
<1>4. ShipsFrom(n, load, at, first, to)
  BY <1>2, <1>3 DEF ShipsFrom
<1> HIDE DEF n
<1> QED
  BY <1>1, <1>4, DispatchRoad

(* The cancellations and the transit step take lines away. *)
LEMMA CancelRoad ==
  ASSUME TypeOK, RoadOK, Next, NEW h \in Hubs \cup {NoHub}, NEW t \in Codes,
         CancelOutboundDraft(h, t) \/ CancelInboundDraft(h, t) \/ UpdateTransitStep(h, t)
  PROVE  RoadOK'
<1>1. ledger' = ledger
  BY DEF CancelOutboundDraft, CancelInboundDraft, UpdateTransitStep
<1>2. ASSUME NEW c \in Trips, NEW o \in Orders
      PROVE  \/ line'[c][o] = line[c][o]
             \/ line'[c][o] = DeletedLine /\ (line[c][o].status = "PENDING" \/ ~LiveLine(c, o))
  <2>1. t \in Trips
    BY CodesAreTrips
  <2>2. CASE CancelOutboundDraft(h, t)
    <3>1. line' = [line EXCEPT ![t] = [p \in Orders |-> IF LiveLine(t, p) THEN DeletedLine ELSE line[t][p]]]
      BY <2>2 DEF CancelOutboundDraft
    <3>2. LiveLine(t, o) => line[t][o].status = "PENDING"
      BY <2>2 DEF CancelOutboundDraft, OutboundDraft, LiveLines, PendingOut
    <3>3. line'[c][o] = IF c = t /\ LiveLine(t, o) THEN DeletedLine ELSE line[c][o]
      BY <2>1, <3>1 DEF TypeOK
    <3>4. CASE c = t
      BY <3>2, <3>3, <3>4
    <3>5. CASE c # t
      BY <3>3, <3>5
    <3> QED
      BY <3>4, <3>5
  <2>3. CASE CancelInboundDraft(h, t)
    <3>1. line' = [line EXCEPT ![t] = [p \in Orders |-> IF line[t][p].status = "PENDING" THEN DeletedLine
                                                       ELSE line[t][p]]]
      BY <2>3 DEF CancelInboundDraft
    <3>2. line'[c][o] = IF c = t /\ line[t][o].status = "PENDING" THEN DeletedLine ELSE line[c][o]
      BY <2>1, <3>1 DEF TypeOK
    <3> QED
      BY <3>2
  <2>4. CASE UpdateTransitStep(h, t)
    BY <2>4 DEF UpdateTransitStep
  <2> QED
    BY <2>2, <2>3, <2>4
<1> QED
  BY <1>1, <1>2, QuietRoad DEF DeletedLine, NoLine, LiveLine, PendingOut

(* Whatever the handlers accept, the road stays in order. *)
LEMMA RoadStep == TypeOK /\ AllClean /\ RoadOK /\ [Next]_vars => RoadOK'
<1> SUFFICES ASSUME TypeOK, AllClean, RoadOK, [Next]_vars PROVE RoadOK'
  OBVIOUS
<1>1. CASE UNCHANGED vars
  BY <1>1 DEF vars, RoadOK, PendingOut, LeftFrom, LiveLine
<1>2. CASE Next
  <2>1. ASSUME NEW n \in Orders, NEW h \in Hubs \cup {NoHub}, NEW q \in 1 .. MaxQty, CreateOrder(n, h, q)
        PROVE  RoadOK'
    BY <1>2, <2>1, EntryRoad
  <2>2. ASSUME NEW n \in Orders, NEW h \in Hubs, NEW q \in 1 .. MaxQty, NEW d \in BOOLEAN,
               QuickCreateInbound(n, h, q, d)
        PROVE  RoadOK'
    BY <1>2, <2>2, EntryRoad
  <2>3. CASE HubNext
    BY <1>2, <2>1, <2>2, <2>3, BatchRoad, ConfirmInboundRoad, SaveInboundDraftRoad, ConfirmOutboundRoad,
       SaveOutboundDraftRoad, CancelRoad DEF HubNext
  <2>4. ASSUME NEW load \in Cargo, NEW to \in Hubs \cup {NoHub}, NEW d \in Codes \cup {NoTrip},
               NEW at \in [DOMAIN load -> Hubs], NEW first \in DOMAIN load, AdminOutbound(at, first, load, to, d)
        PROVE  RoadOK'
    BY <1>2, <2>4, AdminConfirmOutboundRoad, AdminSaveOutboundDraftRoad DEF AdminOutbound
  <2> QED
    BY <1>2, <2>3, <2>4 DEF Next
<1> QED
  BY <1>1, <1>2

(* What the road in order says of the properties. *)
LEMMA RoadMeans == RoadOK => DispatchLeavesDraft /\ InTransitIsInvoiced
BY ShippedQuery DEF RoadOK, DispatchLeavesDraft, InTransitIsInvoiced

(* The road stays in order from the first request on. *)
LEMMA AlwaysRoad == Spec => []RoadOK
<1>1. Init => RoadOK
  BY InitRoad
<1>2. TypeOK /\ AllClean /\ RoadOK /\ [Next]_vars => RoadOK'
  BY RoadStep
<1> QED
  BY <1>1, <1>2, AlwaysClean, PTL DEF Spec

(* No package is both shipped and planned on one trip: an outbound note is  *)
(* accepted only on a code without dispatch invoices (OutboundDraft), and   *)
(* no other handler plans a dispatch.                                       *)
THEOREM ShippedIsNotPlanned == Spec => []DispatchLeavesDraft
BY AlwaysRoad, RoadMeans, PTL

(* A line on the road has its invoice, and its trip left from a processed   *)
(* stop, whatever is received, saved back or cancelled on the trip          *)
(* meanwhile, and also when an administrator dispatched orders of several   *)
(* hubs on it.                                                              *)
THEOREM OnTheRoadIsInvoiced == Spec => []InTransitIsInvoiced
BY AlwaysRoad, RoadMeans, PTL

-----------------------------------------------------------------------------
(***************************************************************************)
(* Under routine use every saved outbound note can be dispatched, and the   *)
(* warehouse implements the stock promise of HubStock.                      *)
(*                                                                          *)
(* A plan is a pending line, stock is a sum of invoices.  Every handler     *)
(* does one of three things: it adds receipts at one hub and no plan, adds  *)
(* dispatches at one hub and drops the plan they were loaded from, or       *)
(* replaces one hub's note by another that fits.  The one step that could   *)
(* add packages to a plan behind a hub's back is a receipt on the trip an   *)
(* order is riding; such a trip has been dispatched (Riding), so nothing on *)
(* it is a plan any more.                                                   *)
(***************************************************************************)

(* The trip an order is riding has a dispatch invoice of that order. *)
Riding == \A o \in Orders : order[o].trip # NoTrip => ShippedOn(ledger[o], order[o].trip)

(* Packages of o that the lines l plan to ship from h on trips other than x. *)
NoteTrips(l, o, h, x) == {t \in Trips \ {x} : /\ l[t][o].status = "PENDING" /\ l[t][o].kind \in Dispatch
                                             /\ l[t][o].hub = h}
PlanSum(l, o, h, x) == QtyOf([t \in Trips |-> l[t][o]], NoteTrips(l, o, h, x))
LineTable == [Trips -> [Orders -> LineRecord]]

(* What hub h received and shipped of an order with invoices s. *)
In(s, h) == SumIn(s, Receipt, {h})
Out(s, h) == SumIn(s, Dispatch, {h})
Covers(s, l, o, h) == Out(s, h) + PlanSum(l, o, h, NoTrip) <= In(s, h)

-----------------------------------------------------------------------------
(* Plans as sums. *)

(* The queries of the handlers in these terms, before and after a step. *)
LEMMA PlanQueries ==
  ASSUME NEW o \in Orders, NEW h \in Hubs
  PROVE  /\ \A x : Reserved(o, h, x) = PlanSum(line, o, h, x)
         /\ \A K : BookedAt(o, K, h) = SumIn(ledger[o], K, {h})
         /\ Reserved(o, h, NoTrip)' = PlanSum(line', o, h, NoTrip)
         /\ BookedAt(o, Receipt, h)' = In(ledger'[o], h)
         /\ BookedAt(o, Dispatch, h)' = Out(ledger'[o], h)
<1>1. \A x : Reserved(o, h, x) = PlanSum(line, o, h, x)
  BY DEF Reserved, ReservingTrips, PendingOut, PlanSum, NoteTrips
<1>2. Reserved(o, h, NoTrip)' = PlanSum(line', o, h, NoTrip)
  BY DEF Reserved, ReservingTrips, PendingOut, PlanSum, NoteTrips
<1>3. \A K : RowsAt(o, K, h) = RowsIn(ledger[o], K, {h})
  BY DEF RowsAt, Rows, RowsIn
<1>4. /\ RowsAt(o, Receipt, h)' = RowsIn(ledger'[o], Receipt, {h})
      /\ RowsAt(o, Dispatch, h)' = RowsIn(ledger'[o], Dispatch, {h})
  BY DEF RowsAt, Rows, RowsIn
<1> QED
  BY <1>1, <1>2, <1>3, <1>4 DEF BookedAt, SumIn, In, Out

(* A set of trips is finite and its lines have natural quantities. *)
LEMMA PlanSumNat ==
  ASSUME NEW l \in LineTable, NEW o \in Orders, NEW T \in SUBSET Trips
  PROVE  /\ IsFiniteSet(T)
         /\ \A t \in T : [u \in Trips |-> l[u][o]][t].qty \in Nat
         /\ QtyOf([u \in Trips |-> l[u][o]], T) \in Nat
<1>1. IsFiniteSet(Trips)
  BY BoundsAssumption, FS_Interval DEF Trips
<1>2. IsFiniteSet(T)
  BY <1>1, FS_Subset
<1>3. \A t \in T : [u \in Trips |-> l[u][o]][t].qty \in Nat
  BY DEF LineTable, LineRecord
<1> QED
  BY <1>2, <1>3, QtyFinite

(* Where no line becomes a plan, and none that is one changes, plans shrink. *)
LEMMA PlansShrink ==
  ASSUME NEW l \in LineTable, NEW m \in LineTable, NEW o \in Orders, NEW h,
         \A t \in Trips : m[t][o].status = "PENDING" /\ m[t][o].kind \in Dispatch => m[t][o] = l[t][o]
  PROVE  PlanSum(m, o, h, NoTrip) <= PlanSum(l, o, h, NoTrip)
<1> DEFINE I == NoteTrips(m, o, h, NoTrip)
           J == NoteTrips(l, o, h, NoTrip)
           a == [t \in Trips |-> m[t][o]]
           b == [t \in Trips |-> l[t][o]]
<1>1. I \subseteq J /\ J \subseteq Trips
  BY DEF NoteTrips
<1>2. \A t \in I : a[t].qty = b[t].qty
  BY DEF NoteTrips
<1>3. IsFiniteSet(J) /\ \A t \in J : b[t].qty \in Nat
  BY <1>1, PlanSumNat
<1> HIDE DEF I, J, a, b
<1>4. QtyOf(a, I) = QtyOf(b, I)
  BY <1>2, QtySame
<1>5. QtyOf(b, I) <= QtyOf(b, J)
  BY <1>1, <1>3, QtyMonotone
<1> QED
  BY <1>4, <1>5 DEF PlanSum, I, J, a, b

(* Where trip n alone gets new plans, at most its quantity is added to the  *)
(* plans of the other trips.                                                *)
LEMMA PlansReplaced ==
  ASSUME NEW l \in LineTable, NEW m \in LineTable, NEW o \in Orders, NEW h, NEW n \in Trips,
         \A t \in Trips \ {n} : m[t][o] = l[t][o]
  PROVE  /\ n \notin NoteTrips(m, o, h, NoTrip) => PlanSum(m, o, h, NoTrip) <= PlanSum(l, o, h, n)
         /\ PlanSum(m, o, h, NoTrip) <= PlanSum(l, o, h, n) + m[n][o].qty
         /\ PlanSum(l, o, h, n) <= PlanSum(l, o, h, NoTrip)
<1> DEFINE I == NoteTrips(m, o, h, NoTrip) \ {n}
           K == NoteTrips(l, o, h, n)
           J == NoteTrips(l, o, h, NoTrip)
           a == [t \in Trips |-> m[t][o]]
           b == [t \in Trips |-> l[t][o]]
<1>1. I \subseteq K /\ K \subseteq Trips /\ I \subseteq Trips /\ J \subseteq Trips /\ n \notin I
  BY DEF NoteTrips
<1>1a. K \subseteq J
  BY BoundsAssumption DEF NoteTrips, Trips, NoTrip
<1>2. \A t \in I : a[t].qty = b[t].qty
  BY DEF NoteTrips
<1>3. /\ IsFiniteSet(K) /\ \A t \in K : b[t].qty \in Nat
      /\ IsFiniteSet(I) /\ \A t \in I : a[t].qty \in Nat
      /\ IsFiniteSet(J) /\ \A t \in J : b[t].qty \in Nat
      /\ QtyOf(a, I) \in Nat /\ QtyOf(b, K) \in Nat
  BY <1>1, PlanSumNat
<1>4. a[n].qty = m[n][o].qty /\ m[n][o].qty \in Nat
  BY DEF LineTable, LineRecord
<1>5. NoteTrips(m, o, h, NoTrip) = I \/ NoteTrips(m, o, h, NoTrip) = I \cup {n}
  BY DEF NoteTrips
<1>5a. n \notin NoteTrips(m, o, h, NoTrip) => NoteTrips(m, o, h, NoTrip) = I
  OBVIOUS
<1> HIDE DEF I, J, K, a, b
<1>6. QtyOf(a, I) <= QtyOf(b, K)
  <2>1. QtyOf(a, I) = QtyOf(b, I)
    BY <1>2, QtySame
  <2>2. QtyOf(b, I) <= QtyOf(b, K)
    BY <1>1, <1>3, QtyMonotone
  <2> QED
    BY <2>1, <2>2
<1>7. QtyOf(a, I \cup {n}) = QtyOf(a, I) + m[n][o].qty
  <2>1. a[n].qty \in Nat
    BY <1>4
  <2>2. QtyOf(a, I \cup {n}) = QtyOf(a, I) + a[n].qty
    BY <1>1, <1>3, <2>1, QtyAdd
  <2> QED
    BY <1>4, <2>2
<1>8. QtyOf(b, K) <= QtyOf(b, J)
  BY <1>1a, <1>3, QtyMonotone
<1>9. PlanSum(m, o, h, NoTrip) = QtyOf(a, NoteTrips(m, o, h, NoTrip)) /\ PlanSum(l, o, h, n) = QtyOf(b, K)
      /\ PlanSum(l, o, h, NoTrip) = QtyOf(b, J)
  BY DEF PlanSum, a, b, K, J
<1>10. PlanSum(m, o, h, NoTrip) \in {QtyOf(a, I), QtyOf(a, I) + m[n][o].qty}
  BY <1>5, <1>7, <1>9
<1> QED
  BY <1>3, <1>4, <1>5a, <1>6, <1>8, <1>9, <1>10

-----------------------------------------------------------------------------
(* Stock as sums. *)

(* What invoices z changed of invoices s: receipts at hub h, and nothing else. *)
ReceivedAt(s, z, h) ==
  \A g \in Hubs : /\ Out(z, g) = Out(s, g)
                  /\ IF g = h THEN In(s, g) <= In(z, g) ELSE In(z, g) = In(s, g)

(* Dispatches from hub h, and nothing else. *)
ShippedFrom(s, z, h) ==
  \A g \in Hubs : /\ In(z, g) = In(s, g)
                  /\ IF g = h THEN Out(s, g) <= Out(z, g) ELSE Out(z, g) = Out(s, g)

(* In one step one hub receives, or one hub ships, whatever the orders. *)
Moves(h) == \/ \A o \in Orders : ReceivedAt(ledger[o], ledger'[o], h)
            \/ \A o \in Orders : ShippedFrom(ledger[o], ledger'[o], h)

AllCovered == \A o \in Orders, g \in Hubs : Covers(ledger[o], line, o, g)

LEMMA HubSums ==
  ASSUME TypeOK, NEW o \in Orders
  PROVE  /\ ledger[o] \in Seq(RowRecord)
         /\ \A h : In(ledger[o], h) \in Nat /\ Out(ledger[o], h) \in Nat
         /\ \A h : ReceivedAt(ledger[o], ledger[o], h) /\ ShippedFrom(ledger[o], ledger[o], h)
<1>1. ledger[o] \in Seq(RowRecord)
  BY DEF TypeOK
<1>2. \A h : In(ledger[o], h) \in Nat /\ Out(ledger[o], h) \in Nat
  BY <1>1, RowsInFinite DEF In, Out
<1> QED
  BY <1>1, <1>2 DEF ReceivedAt, ShippedFrom

(* An invoice more moves packages at its hub only. *)
LEMMA ReceiptMoves ==
  ASSUME TypeOK, NEW o \in Orders, NEW h \in Hubs, NEW c \in Nat, NEW q \in Nat
  PROVE  ReceivedAt(ledger[o], Append(ledger[o], Row("INBOUND", h, c, q)), h)
<1> DEFINE s == ledger[o]
           r == Row("INBOUND", h, c, q)
<1>1. r \in RowRecord /\ r.live /\ r.kind = "INBOUND" /\ r.hub = h /\ r.qty = q
  BY DEF Row, RowRecord, Kinds, Receipt
<1> HIDE DEF r
<1>2. \A K, H : SumIn(Append(s, r), K, H) = SumIn(s, K, H) + (IF r.kind \in K /\ r.hub \in H THEN r.qty ELSE 0)
  BY <1>1, HubSums, SumAppend
<1>3. ASSUME NEW g \in Hubs
      PROVE  Out(Append(s, r), g) = Out(s, g) /\ In(Append(s, r), g) = In(s, g) + (IF g = h THEN q ELSE 0)
  <2>1. Out(Append(s, r), g) = Out(s, g) + 0
    BY <1>1, <1>2 DEF Out, Dispatch
  <2>2. In(Append(s, r), g) = In(s, g) + (IF g = h THEN q ELSE 0)
    BY <1>1, <1>2 DEF In, Receipt
  <2> QED
    BY <2>1, <2>2, HubSums
<1>4. \A g : In(s, g) \in Nat
  BY HubSums
<1>5. ReceivedAt(s, Append(s, r), h)
  BY <1>3, <1>4 DEF ReceivedAt
<1> QED
  BY <1>5 DEF r

LEMMA DispatchMoves ==
  ASSUME TypeOK, NEW o \in Orders, NEW h \in Hubs, NEW c \in Nat, NEW q \in Nat, NEW k \in Dispatch
  PROVE  /\ ShippedFrom(ledger[o], Append(ledger[o], Row(k, h, c, q)), h)
         /\ Out(Append(ledger[o], Row(k, h, c, q)), h) = Out(ledger[o], h) + q
<1> DEFINE s == ledger[o]
           r == Row(k, h, c, q)
<1>1. r \in RowRecord /\ r.live /\ r.kind \in Dispatch /\ r.kind \notin Receipt /\ r.hub = h /\ r.qty = q
  BY DEF Row, RowRecord, Kinds, Receipt, Dispatch
<1> HIDE DEF r
<1>2. \A K, H : SumIn(Append(s, r), K, H) = SumIn(s, K, H) + (IF r.kind \in K /\ r.hub \in H THEN r.qty ELSE 0)
  BY <1>1, HubSums, SumAppend
<1>3. ASSUME NEW g \in Hubs
      PROVE  In(Append(s, r), g) = In(s, g) /\ Out(Append(s, r), g) = Out(s, g) + (IF g = h THEN q ELSE 0)
  <2>1. In(Append(s, r), g) = In(s, g) + 0
    BY <1>1, <1>2 DEF In
  <2>2. Out(Append(s, r), g) = Out(s, g) + (IF g = h THEN q ELSE 0)
    BY <1>1, <1>2 DEF Out
  <2> QED
    BY <2>1, <2>2, HubSums
<1>4. \A g : Out(s, g) \in Nat
  BY HubSums
<1>5. ShippedFrom(s, Append(s, r), h) /\ Out(Append(s, r), h) = Out(s, h) + q
  BY <1>3, <1>4 DEF ShippedFrom
<1> QED
  BY <1>5 DEF r

(* Receipts keep every note covered as long as no plan is added. *)
LEMMA ReceiptsCover ==
  ASSUME TypeOK, TypeOK', AllCovered, NEW h \in Hubs,
         \A o \in Orders : ReceivedAt(ledger[o], ledger'[o], h),
         \A o \in Orders, t \in Trips :
           line'[t][o].status = "PENDING" /\ line'[t][o].kind \in Dispatch => line'[t][o] = line[t][o]
  PROVE  Moves(h) /\ AllCovered'
<1> SUFFICES ASSUME NEW o \in Orders, NEW g \in Hubs
             PROVE  Covers(ledger'[o], line', o, g)
  BY DEF AllCovered, Moves
<1>1. line \in LineTable /\ line' \in LineTable
  BY DEF TypeOK, LineTable
<1>2. PlanSum(line', o, g, NoTrip) <= PlanSum(line, o, g, NoTrip)
  BY <1>1, PlansShrink
<1>3. Out(ledger[o], g) + PlanSum(line, o, g, NoTrip) <= In(ledger[o], g)
  BY DEF AllCovered, Covers
<1>4. Out(ledger'[o], g) = Out(ledger[o], g) /\ In(ledger[o], g) <= In(ledger'[o], g)
  BY HubSums DEF ReceivedAt
<1>5. /\ Out(ledger[o], g) \in Nat /\ In(ledger[o], g) \in Nat
      /\ PlanSum(line, o, g, NoTrip) \in Nat /\ PlanSum(line', o, g, NoTrip) \in Nat
  BY <1>1, HubSums, PlanSumNat DEF PlanSum, NoteTrips
<1>6. In(ledger'[o], g) \in Nat
  <2>1. ledger'[o] \in Seq(RowRecord)
    BY DEF TypeOK
  <2> QED
    BY <2>1, RowsInFinite DEF In
<1> QED
  BY <1>2, <1>3, <1>4, <1>5, <1>6 DEF Covers

-----------------------------------------------------------------------------
(* The handlers that receive. *)

(* quickCreateInboundOrder receives at one hub, without a trip. *)
LEMMA QuickCreateCovers ==
  ASSUME TypeOK, TypeOK', AllCovered, NEW n \in Orders, NEW h \in Hubs, NEW q \in 1 .. MaxQty,
         NEW d \in BOOLEAN, QuickCreateInbound(n, h, q, d)
  PROVE  Moves(h) /\ AllCovered'
<1>1. line' = line
  BY DEF QuickCreateInbound
<1>2. ASSUME NEW o \in Orders
      PROVE  ReceivedAt(ledger[o], ledger'[o], h)
  <2>1. CASE ledger'[o] = ledger[o]
    BY <2>1, HubSums
  <2>2. CASE ledger'[o] = Append(ledger[o], Row("INBOUND", h, NoTrip, q))
    BY <2>2, ReceiptMoves DEF NoTrip
  <2> QED
    BY <2>1, <2>2 DEF QuickCreateInbound, TypeOK
<1> QED
  BY <1>1, <1>2, ReceiptsCover

(* batchCreateInboundOrders receives at one hub and plans receipts only. *)
LEMMA BatchCovers ==
  ASSUME TypeOK, TypeOK', AllCovered, NEW h \in Hubs, NEW got \in Cargo, NEW drafts \in SUBSET Orders,
         BatchCreateInbound(h, got, drafts)
  PROVE  Moves(h) /\ AllCovered'
<1> DEFINE n == lastTrip + 1
<1>1. n \in Trips /\ n \in Nat
  BY BoundsAssumption DEF BatchCreateInbound, TypeOK, Trips
<1>2. ASSUME NEW o \in Orders
      PROVE  ReceivedAt(ledger[o], ledger'[o], h)
  <2>1. CASE ledger'[o] = ledger[o]
    BY <2>1, HubSums
  <2>2. CASE o \in DOMAIN got /\ ledger'[o] = Append(ledger[o], Row("INBOUND", h, n, got[o]))
    <3>1. got[o] \in Nat
      BY <2>2, CargoType
    <3> HIDE DEF n
    <3> QED
      BY <1>1, <2>2, <3>1, ReceiptMoves
  <2> QED
    BY <2>1, <2>2 DEF BatchCreateInbound
<1>3. ASSUME NEW t \in Trips, NEW o \in Orders
      PROVE  line'[t][o] = line[t][o] \/ line'[t][o].kind = "INBOUND"
  BY <1>1 DEF BatchCreateInbound, TypeOK, Line
<1> QED
  BY <1>2, <1>3, ReceiptsCover DEF Dispatch

(* The trip of a receipt plans none of the orders received. *)
LEMMA ReceivedTripUnplanned ==
  ASSUME TypeOK, RoadOK, Riding, NEW h \in Hubs, NEW t \in Codes \cup {NoTrip}, NEW got, Arrived(t, got),
         NEW o \in Orders, o \in DOMAIN got, NEW c \in Trips, TripOf(o, h, FALSE, t) = c
  PROVE  ~PendingOut(c, o)
<1>1. CASE t = NoTrip
  <2>1. c = order[o].trip /\ c # NoTrip
    BY <1>1, CodesAreTrips DEF TripOf
  <2> QED
    BY <2>1 DEF Riding, RoadOK
<1>2. CASE t # NoTrip
  BY <1>2 DEF TripOf, Arrived
<1> QED
  BY <1>1, <1>2

(* confirmInbound receives at one hub and plans nothing. *)
LEMMA ConfirmInboundCovers ==
  ASSUME TypeOK, TypeOK', RoadOK, Riding, AllCovered, NEW h \in Hubs, NEW t \in Codes \cup {NoTrip},
         NEW got \in Cargo, NEW keep \in BOOLEAN, Arrived(t, got), ConfirmInbound(h, FALSE, t, got, keep)
  PROVE  Moves(h) /\ AllCovered'
<1>1. ASSUME NEW o \in Orders
      PROVE  ReceivedAt(ledger[o], ledger'[o], h)
  <2>1. CASE o \notin DOMAIN got
    BY <2>1, HubSums DEF ConfirmInbound
  <2>2. CASE o \in DOMAIN got
    <3> DEFINE c == TripOf(o, h, FALSE, t)
    <3>1. ledger'[o] = ReceivedLedger(o, h, FALSE, t, got[o]) /\ got[o] \in Nat
      BY <2>2, CargoType DEF ConfirmInbound
    <3>2. c \in Nat
      <4>1. order[o].trip \in Nat
        BY OrderFacts
      <4>2. t \in Nat
        BY CodesAreTrips DEF NoTrip
      <4>3. c \in {order[o].trip, t}
        BY Zenon DEF TripOf
      <4> HIDE DEF c
      <4> QED
        BY <4>1, <4>2, <4>3
    <3>3. ledger'[o] = ledger[o] \/ ledger'[o] = Append(ledger[o], Row("INBOUND", h, c, got[o]))
      BY <3>1 DEF ReceivedLedger
    <3> HIDE DEF c
    <3> QED
      BY <3>1, <3>2, <3>3, ReceiptMoves, HubSums
  <2> QED
    BY <2>1, <2>2
<1>2. ASSUME NEW c \in Trips, NEW o \in Orders,
             line'[c][o].status = "PENDING" /\ line'[c][o].kind \in Dispatch
      PROVE  line'[c][o] = line[c][o]
  <2> DEFINE old == line[c][o]
             S == DOMAIN got
             gone == Removed(t, h, S, keep)
             on(e) == {p \in S : TripOf(p, h, FALSE, t) = e}
             processed == {e \in Trips : on(e) # {}}
             l == IF o \in on(c) THEN ReceivedLine(c, o, h, FALSE, t, got[o], keep)
                  ELSE IF c = t /\ o \in gone THEN DeletedLine ELSE line[c][o]
             done == c \in processed /\ ~keep /\ ~AnyPending(ReceivedStops(c, h, keep))
  <2>1. line'[c][o] = Sweep(l, done)
    BY DEF ConfirmInbound
  <2>2. old \in LineRecord /\ l \in LineRecord
    <3>1. o \in on(c) => got[o] \in Nat
      BY CargoType
    <3>2. o \in on(c) => ReceivedLine(c, o, h, FALSE, t, got[o], keep) \in LineRecord
      BY <3>1, ReceivedLineType
    <3>3. old \in LineRecord /\ DeletedLine \in LineRecord
      BY LineType
    <3> QED
      BY <3>2, <3>3
  <2>3. l.status = "PENDING" /\ l.kind \in Dispatch => l = old
    <3>1. CASE o \in on(c)
      <4>1. ~(old.status = "PENDING" /\ old.kind \in Dispatch)
        BY <3>1, ReceivedTripUnplanned DEF PendingOut
      <4>2. \/ l = old
            \/ l = [old EXCEPT !.qty = got[o], !.status = IF keep THEN old.status ELSE "COMPLETED"]
            \/ l = Line(IF keep THEN "PENDING" ELSE "COMPLETED", "INBOUND", h, got[o])
        BY <3>1, Zenon DEF ReceivedLine
      <4> HIDE DEF l, old
      <4>3. CASE l = [old EXCEPT !.qty = got[o], !.status = IF keep THEN old.status ELSE "COMPLETED"]
        BY <2>2, <4>1, <4>3 DEF LineRecord
      <4>4. CASE l = Line(IF keep THEN "PENDING" ELSE "COMPLETED", "INBOUND", h, got[o])
        BY <4>4 DEF Line, Dispatch
      <4> QED
        BY <4>2, <4>3, <4>4
    <3>2. CASE o \notin on(c)
      BY <3>2 DEF DeletedLine, NoLine
    <3> QED
      BY <3>1, <3>2
  <2> HIDE DEF l, done, old
  <2>4. line'[c][o] = l
    BY <1>2, <2>1, <2>2 DEF Sweep, LineRecord
  <2> QED
    BY <1>2, <2>3, <2>4 DEF old
<1> QED
  BY <1>1, <1>2, ReceiptsCover

(* A saved receiving note plans receipts only, and leaves the invoices. *)
LEMMA SaveInboundCovers ==
  ASSUME TypeOK, TypeOK', AllCovered, NEW h \in Hubs, NEW t \in Codes, NEW got \in Cargo,
         Arrived(t, got), SaveInboundDraft(h, FALSE, t, got)
  PROVE  Moves(h) /\ AllCovered'
<1>1. t \in Trips /\ t # NoTrip /\ ledger' = ledger
  BY CodesAreTrips DEF SaveInboundDraft
<1>2. ASSUME NEW c \in Trips, NEW o \in Orders,
             line'[c][o].status = "PENDING" /\ line'[c][o].kind \in Dispatch
      PROVE  line'[c][o] = line[c][o]
  <2>1. line[c][o] \in LineRecord
    BY DEF TypeOK
  <2>2. \/ line'[c][o] = line[c][o]
        \/ line'[c][o] = DeletedLine
        \/ c = t /\ o \in DOMAIN got /\ line'[c][o] = [line[c][o] EXCEPT !.qty = got[o]]
        \/ line'[c][o] = Line("PENDING", "INBOUND", h, got[o])
    BY <1>1 DEF SaveInboundDraft, TypeOK
  <2>3. CASE c = t /\ o \in DOMAIN got /\ line'[c][o] = [line[c][o] EXCEPT !.qty = got[o]]
    <3>1. ~PendingOut(c, o)
      BY <1>1, <2>3 DEF Arrived
    <3> QED
      BY <1>2, <2>1, <2>3, <3>1 DEF LineRecord, PendingOut
  <2> QED
    BY <1>2, <2>2, <2>3 DEF DeletedLine, NoLine, Line, Dispatch
<1> QED
  BY <1>1, <1>2, HubSums, ReceiptsCover

(* The cancellations take lines away; the transit step touches stops only. *)
LEMMA CancelCovers ==
  ASSUME TypeOK, TypeOK', AllCovered, NEW h \in Hubs, NEW t \in Codes,
         CancelOutboundDraft(h, t) \/ CancelInboundDraft(h, t) \/ UpdateTransitStep(h, t)
  PROVE  Moves(h) /\ AllCovered'
<1>1. ledger' = ledger
  BY DEF CancelOutboundDraft, CancelInboundDraft, UpdateTransitStep
<1>2. ASSUME NEW c \in Trips, NEW o \in Orders
      PROVE  line'[c][o] = line[c][o] \/ line'[c][o] = DeletedLine
  <2>1. t \in Trips /\ line \in LineTable
    BY CodesAreTrips DEF TypeOK, LineTable
  <2>2. \/ line' = line
        \/ line' = [line EXCEPT ![t] = [p \in Orders |-> IF LiveLine(t, p) THEN DeletedLine ELSE line[t][p]]]
        \/ line' = [line EXCEPT ![t] = [p \in Orders |-> IF line[t][p].status = "PENDING" THEN DeletedLine
                                                         ELSE line[t][p]]]
    BY DEF CancelOutboundDraft, CancelInboundDraft, UpdateTransitStep
  <2> QED
    BY <2>1, <2>2 DEF LineTable
<1> QED
  BY <1>1, <1>2, HubSums, ReceiptsCover DEF DeletedLine, NoLine

-----------------------------------------------------------------------------
(* The handlers that ship and plan. *)

(* What the availability check of confirmOutbound and saveOutboundDraft      *)
(* grants fits beside every plan on another trip.                           *)
LEMMA GrantedFits ==
  ASSUME TypeOK, NEW o \in Orders, NEW h \in Hubs, NEW d \in Codes \cup {NoTrip}, TripFor(d) <= MaxTrips,
         NEW q \in Nat, q > 0, HasLedgerAt(o, h), q <= Available(o, h, d)
  PROVE  Out(ledger[o], h) + PlanSum(line, o, h, TripFor(d)) + q <= In(ledger[o], h)
<1> DEFINE in == In(ledger[o], h)
           out == Out(ledger[o], h)
           p == PlanSum(line, o, h, d)
           r == PlanSum(line, o, h, TripFor(d))
<1>1. line \in LineTable /\ TripFor(d) \in Trips
  BY TripForType DEF TypeOK, LineTable
<1>2. in \in Nat /\ out \in Nat /\ p \in Nat /\ r \in Nat
  BY <1>1, HubSums, PlanSumNat DEF PlanSum, NoteTrips
<1>3. r <= p
  <2>1. CASE d = NoTrip
    <3>1. PlanSum(line, o, h, TripFor(d)) <= PlanSum(line, o, h, NoTrip)
      BY <1>1, PlansReplaced
    <3> QED
      BY <2>1, <3>1
  <2>2. CASE d # NoTrip
    BY <1>2, <2>2 DEF TripFor
  <2> QED
    BY <2>1, <2>2
<1>4. Available(o, h, d) = Monus(in, out + p)
  BY PlanQueries DEF Available, StockIn, StockOut, In, Out
<1> HIDE DEF in, out, p, r
<1>5. Available(o, h, d) = IF out + p < in THEN in - (out + p) ELSE 0
  BY <1>4 DEF Monus
<1>6. out + p + q <= in
  BY <1>2, <1>5
<1>7. out + r + q <= in
  BY <1>2, <1>3, <1>6
<1> QED
  BY <1>7 DEF in, out, r

(* confirmOutbound ships from one hub what its other notes leave. *)
LEMMA ConfirmOutboundCovers ==
  ASSUME TypeOK, TypeOK', AllCovered, NEW h \in Hubs, NEW load \in Cargo, NEW to \in Hubs \cup {NoHub},
         NEW d \in Codes \cup {NoTrip}, Holds(h, load), ConfirmOutbound(h, load, to, d)
  PROVE  Moves(h) /\ AllCovered'
<1> DEFINE n == TripFor(d)
           S == DOMAIN load
           r(o) == Row(OutKind(to), h, n, load[o])
<1>1. n \in Trips /\ n \in Nat /\ TripFor(d) <= MaxTrips
  BY TripForType DEF ConfirmOutbound
<1>2. /\ line' = [line EXCEPT ![n] = Planned(n, h, load, to, "IN_TRANSIT")]
      /\ \A o \in Orders : ledger'[o] = IF o \in S THEN Append(ledger[o], r(o)) ELSE ledger[o]
  BY DEF ConfirmOutbound
<1>3. \A o \in S : load[o] \in Nat /\ load[o] > 0 /\ o \in Orders
  BY CargoType
<1>4. ASSUME NEW o \in S
      PROVE  Out(ledger[o], h) + PlanSum(line, o, h, n) + load[o] <= In(ledger[o], h)
  BY <1>1, <1>3, <1>4, GrantedFits DEF ConfirmOutbound, Holds
<1>5. ASSUME NEW o \in S
      PROVE  ShippedFrom(ledger[o], Append(ledger[o], r(o)), h)
             /\ Out(Append(ledger[o], r(o)), h) = Out(ledger[o], h) + load[o]
  <2>1. OutKind(to) \in Dispatch
    BY DEF OutKind, Dispatch
  <2> HIDE DEF n
  <2> QED
    BY <1>1, <1>3, <2>1, DispatchMoves
<1> HIDE DEF n, r
<1>6. ASSUME NEW o \in Orders
      PROVE  ShippedFrom(ledger[o], ledger'[o], h)
  BY <1>2, <1>5, HubSums
<1>7. ASSUME NEW o \in Orders, NEW g \in Hubs
      PROVE  Covers(ledger'[o], line', o, g)
  <2>1. line \in LineTable /\ line' \in LineTable
    BY DEF TypeOK, LineTable
  <2>2. /\ \A t \in Trips \ {n} : line'[t][o] = line[t][o]
        /\ o \in S => line'[n][o] = Line("IN_TRANSIT", OutKind(to), h, load[o])
        /\ o \notin S => line'[n][o].status # "PENDING"
    <3>1. ASSUME NEW t \in Trips \ {n} PROVE line'[t][o] = line[t][o]
      BY <1>2, <2>1 DEF LineTable
    <3>2. line'[n][o] = IF o \in S THEN Line("IN_TRANSIT", OutKind(to), h, load[o])
                        ELSE IF LiveLine(n, o) THEN DeletedLine ELSE line[n][o]
      BY <1>1, <1>2, <2>1 DEF LineTable, Planned
    <3> QED
      BY <3>1, <3>2 DEF LiveLine, DeletedLine, NoLine
  <2>3. n \notin NoteTrips(line', o, g, NoTrip)
    BY <2>2 DEF NoteTrips, Line
  <2>4. /\ PlanSum(line', o, g, NoTrip) <= PlanSum(line, o, g, n)
        /\ PlanSum(line, o, g, n) <= PlanSum(line, o, g, NoTrip)
    BY <1>1, <2>1, <2>2, <2>3, PlansReplaced
  <2>5. /\ Out(ledger[o], g) \in Nat /\ In(ledger[o], g) \in Nat /\ PlanSum(line', o, g, NoTrip) \in Nat
        /\ PlanSum(line, o, g, n) \in Nat /\ PlanSum(line, o, g, NoTrip) \in Nat
    BY <2>1, HubSums, PlanSumNat DEF PlanSum, NoteTrips
  <2>6. Out(ledger[o], g) + PlanSum(line, o, g, NoTrip) <= In(ledger[o], g)
    BY DEF AllCovered, Covers
  <2>7. CASE o \in S /\ g = h
    <3>1. In(ledger'[o], g) = In(ledger[o], g)
      BY <1>6 DEF ShippedFrom
    <3>2. /\ Out(ledger'[o], g) = Out(ledger[o], g) + load[o] /\ load[o] \in Nat
          /\ Out(ledger[o], g) + PlanSum(line, o, g, n) + load[o] <= In(ledger[o], g)
      BY <1>2, <1>3, <1>4, <1>5, <2>7
    <3> QED
      BY <2>4, <2>5, <3>1, <3>2 DEF Covers
  <2>8. CASE ~(o \in S /\ g = h)
    <3>1. In(ledger'[o], g) = In(ledger[o], g) /\ Out(ledger'[o], g) = Out(ledger[o], g)
      BY <1>2, <1>6, <2>8 DEF ShippedFrom
    <3> QED
      BY <2>4, <2>5, <2>6, <3>1 DEF Covers
  <2> QED
    BY <2>7, <2>8
<1> QED
  BY <1>6, <1>7 DEF Moves, AllCovered

(* saveOutboundDraft plans at one hub what its other notes leave. *)
LEMMA SaveOutboundCovers ==
  ASSUME TypeOK, TypeOK', AllCovered, NEW h \in Hubs, NEW load \in Cargo, NEW to \in Hubs \cup {NoHub},
         NEW d \in Codes \cup {NoTrip}, Holds(h, load), SaveOutboundDraft(h, load, to, d)
  PROVE  Moves(h) /\ AllCovered'
<1> DEFINE n == TripFor(d)
           S == DOMAIN load
<1>1. n \in Trips /\ n \in Nat /\ TripFor(d) <= MaxTrips
  BY TripForType DEF SaveOutboundDraft
<1>2. line' = [line EXCEPT ![n] = Planned(n, h, load, to, "PENDING")] /\ ledger' = ledger
  BY DEF SaveOutboundDraft
<1>3. \A o \in S : load[o] \in Nat /\ load[o] > 0 /\ o \in Orders
  BY CargoType
<1>4. ASSUME NEW o \in S
      PROVE  Out(ledger[o], h) + PlanSum(line, o, h, n) + load[o] <= In(ledger[o], h)
  <2>1. HasLedgerAt(o, h) /\ load[o] <= Available(o, h, d)
    BY <1>4 DEF SaveOutboundDraft, Holds, DraftAvailable
  <2> QED
    BY <1>1, <1>3, <2>1, GrantedFits
<1> HIDE DEF n
<1>5. Moves(h)
  BY <1>2, HubSums DEF Moves
<1>6. ASSUME NEW o \in Orders, NEW g \in Hubs
      PROVE  Covers(ledger'[o], line', o, g)
  <2>1. line \in LineTable /\ line' \in LineTable
    BY DEF TypeOK, LineTable
  <2>2. /\ \A t \in Trips \ {n} : line'[t][o] = line[t][o]
        /\ o \in S => line'[n][o] = Line("PENDING", OutKind(to), h, load[o])
        /\ o \notin S => line'[n][o].status # "PENDING"
    <3>1. ASSUME NEW t \in Trips \ {n} PROVE line'[t][o] = line[t][o]
      BY <1>2, <2>1 DEF LineTable
    <3>2. line'[n][o] = IF o \in S THEN Line("PENDING", OutKind(to), h, load[o])
                        ELSE IF LiveLine(n, o) THEN DeletedLine ELSE line[n][o]
      BY <1>1, <1>2, <2>1 DEF LineTable, Planned
    <3> QED
      BY <3>1, <3>2 DEF LiveLine, DeletedLine, NoLine
  <2>3. /\ n \notin NoteTrips(line', o, g, NoTrip) => PlanSum(line', o, g, NoTrip) <= PlanSum(line, o, g, n)
        /\ PlanSum(line', o, g, NoTrip) <= PlanSum(line, o, g, n) + line'[n][o].qty
        /\ PlanSum(line, o, g, n) <= PlanSum(line, o, g, NoTrip)
    BY <1>1, <2>1, <2>2, PlansReplaced
  <2>4. /\ Out(ledger[o], g) \in Nat /\ In(ledger[o], g) \in Nat /\ PlanSum(line', o, g, NoTrip) \in Nat
        /\ PlanSum(line, o, g, n) \in Nat /\ PlanSum(line, o, g, NoTrip) \in Nat
    BY <2>1, HubSums, PlanSumNat DEF PlanSum, NoteTrips
  <2>5. Out(ledger[o], g) + PlanSum(line, o, g, NoTrip) <= In(ledger[o], g)
    BY DEF AllCovered, Covers
  <2>6. CASE o \in S /\ g = h
    <3>1. line'[n][o].qty = load[o] /\ load[o] \in Nat
      BY <1>3, <2>2, <2>6 DEF Line
    <3>2. Out(ledger[o], g) + PlanSum(line, o, g, n) + load[o] <= In(ledger[o], g)
      BY <1>4, <2>6
    <3> QED
      BY <1>2, <2>3, <2>4, <3>1, <3>2 DEF Covers
  <2>7. CASE ~(o \in S /\ g = h)
    <3>1. n \notin NoteTrips(line', o, g, NoTrip)
      BY <2>2, <2>7 DEF NoteTrips, Line
    <3> QED
      BY <1>2, <2>3, <2>4, <2>5, <3>1 DEF Covers
  <2> QED
    BY <2>6, <2>7
<1> QED
  BY <1>5, <1>6 DEF AllCovered

-----------------------------------------------------------------------------
(* A trip an order rides has been dispatched with that order. *)

(* Only a dispatch to another hub puts an order on a trip. *)
LEMMA TripsTaken ==
  ASSUME TypeOK, NEW o \in Orders, NEW h \in Hubs \cup {NoHub}, NEW q
  PROVE  /\ NewOrder(h, "DRAFT", q, q).trip = NoTrip
         /\ \A d \in BOOLEAN : Intake(o, h, q, d).trip \in {order[o].trip, NoTrip}
         /\ \A admin \in BOOLEAN : \A t : ReceivedOrder(o, h, admin, t, q).trip \in {order[o].trip, NoTrip}
         /\ \A admin \in BOOLEAN : DraftedOrder(o, h, admin, q).trip \in {order[o].trip, NoTrip}
         /\ \A t : RemovedOrder(o, t).trip \in {order[o].trip, NoTrip}
         /\ \A t : CancelledOrder(o, t).trip = order[o].trip
<1>1. order[o] \in OrderRecord
  BY DEF TypeOK
<1>2. \A s, a, b : NewOrder(h, s, a, b).trip = NoTrip
  BY DEF NewOrder, NoOrder
<1>3. \A d \in BOOLEAN : Intake(o, h, q, d).trip \in {order[o].trip, NoTrip}
  BY <1>1, <1>2 DEF Intake, OrderRecord
<1>4. ASSUME NEW admin \in BOOLEAN, NEW t
      PROVE  ReceivedOrder(o, h, admin, t, q).trip \in {order[o].trip, NoTrip}
  <2>1. ReceiveDraft(o, h, q).trip = NoTrip
    BY <1>1 DEF ReceiveDraft, OrderRecord
  <2>2. \A c : ReceiveLocked(o, c, q).trip \in {order[o].trip, NoTrip}
    BY <1>1 DEF ReceiveLocked, OrderRecord
  <2>3. \A old : CorrectReceipt(o, old, q).trip = order[o].trip
    BY <1>1 DEF CorrectReceipt, OrderRecord
  <2> QED
    BY <1>2, <2>1, <2>2, <2>3, Zenon DEF ReceivedOrder
<1>5. \A admin \in BOOLEAN : DraftedOrder(o, h, admin, q).trip \in {order[o].trip, NoTrip}
  BY <1>1, <1>2 DEF DraftedOrder, OrderRecord
<1>6. \A t : RemovedOrder(o, t).trip \in {order[o].trip, NoTrip}
  BY <1>1 DEF RemovedOrder, Orphan, OrderRecord, IsLive
<1>7. \A t : CancelledOrder(o, t).trip = order[o].trip
  BY <1>1 DEF CancelledOrder, Reconciled, OrderRecord
<1> QED
  BY <1>2, <1>3, <1>4, <1>5, <1>6, <1>7

(* A step that takes no trip and cancels no dispatch. *)
LEMMA RidingKept ==
  ASSUME Riding,
         \A o \in Orders : order'[o].trip \in {order[o].trip, NoTrip},
         \A o \in Orders : \A t : ShippedOn(ledger[o], t) => ShippedOn(ledger'[o], t)
  PROVE  Riding'
BY DEF Riding

LEMMA InitRiding == Init => Riding
BY DEF Init, Riding, NoOrder

(* Whatever the handlers accept, an order rides dispatched trips only. *)
LEMMA RidingStep == TypeOK /\ Riding /\ [HubNext]_vars => Riding'
<1> SUFFICES ASSUME TypeOK, Riding, [HubNext]_vars PROVE Riding'
  OBVIOUS
<1>1. CASE UNCHANGED vars
  BY <1>1 DEF vars, Riding
<1>2. ASSUME NEW n \in Orders, NEW h \in Hubs \cup {NoHub}, NEW q \in 1 .. MaxQty, CreateOrder(n, h, q)
      PROVE  Riding'
  <2>1. \A o \in Orders : order'[o] = order[o] \/ order'[o] = NewOrder(h, "DRAFT", q, q)
    BY <1>2 DEF CreateOrder, TypeOK
  <2>2. NewOrder(h, "DRAFT", q, q).trip = NoTrip
    BY TripsTaken
  <2>3. \A o \in Orders : order'[o].trip \in {order[o].trip, NoTrip}
    BY <2>1, <2>2
  <2> QED
    BY <1>2, <2>3, RidingKept DEF CreateOrder
<1>3. ASSUME NEW n \in Orders, NEW h \in Hubs, NEW q \in 1 .. MaxQty, NEW d \in BOOLEAN,
             QuickCreateInbound(n, h, q, d)
      PROVE  Riding'
  <2>1. \A o \in Orders : order'[o] = order[o] \/ order'[o] = Intake(o, h, q, d)
    BY <1>3 DEF QuickCreateInbound, TypeOK
  <2>2. \A o \in Orders : order'[o].trip \in {order[o].trip, NoTrip}
    BY <2>1, TripsTaken
  <2>3. \A o \in Orders : ledger'[o] = ledger[o] \/ ledger'[o] = Append(ledger[o], Row("INBOUND", h, NoTrip, q))
    BY <1>3 DEF QuickCreateInbound, TypeOK
  <2>4. NoTrip \in Nat /\ q \in Nat
    BY DEF NoTrip
  <2>5. \A o \in Orders : \A t : ShippedOn(ledger[o], t) => ShippedOn(ledger'[o], t)
    BY <2>3, <2>4, ReceiptShipsNothing
  <2> QED
    BY <2>2, <2>5, RidingKept
<1>4. ASSUME NEW h \in Hubs, NEW got \in Cargo, NEW drafts \in SUBSET Orders, BatchCreateInbound(h, got, drafts)
      PROVE  Riding'
  <2> DEFINE c == lastTrip + 1
  <2>1. c \in Nat
    BY BoundsAssumption DEF TypeOK
  <2>2. \A o \in Orders : order'[o] \in {order[o], Intake(o, h, got[o], TRUE), Intake(o, h, got[o], FALSE)}
    BY <1>4 DEF BatchCreateInbound, Intake
  <2>2a. ASSUME NEW o \in Orders, NEW b \in BOOLEAN
         PROVE  Intake(o, h, got[o], b).trip \in {order[o].trip, NoTrip}
    BY TripsTaken, Zenon
  <2>3. \A o \in Orders : order'[o].trip \in {order[o].trip, NoTrip}
    BY <2>2, <2>2a
  <2>4. \A o \in Orders : \/ ledger'[o] = ledger[o]
                          \/ o \in DOMAIN got /\ ledger'[o] = Append(ledger[o], Row("INBOUND", h, c, got[o]))
    BY <1>4 DEF BatchCreateInbound
  <2>5. \A o \in DOMAIN got : got[o] \in Nat
    BY CargoType
  <2> HIDE DEF c
  <2>6. \A o \in Orders : \A t : ShippedOn(ledger[o], t) => ShippedOn(ledger'[o], t)
    BY <2>1, <2>4, <2>5, ReceiptShipsNothing
  <2> QED
    BY <2>3, <2>6, RidingKept
<1>5. ASSUME NEW h \in Hubs, NEW admin \in BOOLEAN, NEW u \in Codes \cup {NoTrip}, NEW got \in Cargo,
             NEW keep \in BOOLEAN, ConfirmInbound(h, admin, u, got, keep)
      PROVE  Riding'
  <2>1. \A o \in Orders : order'[o] \in {order[o], ReceivedOrder(o, h, admin, u, got[o]), RemovedOrder(o, u)}
    BY <1>5 DEF ConfirmInbound
  <2>1a. ASSUME NEW o \in Orders
         PROVE  /\ ReceivedOrder(o, h, admin, u, got[o]).trip \in {order[o].trip, NoTrip}
                /\ RemovedOrder(o, u).trip \in {order[o].trip, NoTrip}
    BY TripsTaken, Zenon
  <2>2. \A o \in Orders : order'[o].trip \in {order[o].trip, NoTrip}
    BY <2>1, <2>1a
  <2>3. \A o \in Orders : \/ ledger'[o] = ledger[o]
                          \/ o \in DOMAIN got /\ ledger'[o] = ReceivedLedger(o, h, admin, u, got[o])
    BY <1>5 DEF ConfirmInbound
  <2>4. \A o \in DOMAIN got : got[o] \in Nat
    BY CargoType
  <2>5. \A o \in Orders : \A t : ShippedOn(ledger[o], t) => ShippedOn(ledger'[o], t)
    BY <2>3, <2>4, ReceiptShipsNothing
  <2> QED
    BY <2>2, <2>5, RidingKept
<1>6. ASSUME NEW h \in Hubs, NEW admin \in BOOLEAN, NEW u \in Codes, NEW got \in Cargo,
             SaveInboundDraft(h, admin, u, got)
      PROVE  Riding'
  <2>1. \A o \in Orders : order'[o] \in {order[o], DraftedOrder(o, h, admin, got[o]), RemovedOrder(o, u)}
    BY <1>6 DEF SaveInboundDraft
  <2>1a. ASSUME NEW o \in Orders
         PROVE  /\ DraftedOrder(o, h, admin, got[o]).trip \in {order[o].trip, NoTrip}
                /\ RemovedOrder(o, u).trip \in {order[o].trip, NoTrip}
    BY TripsTaken, Zenon
  <2>2. \A o \in Orders : order'[o].trip \in {order[o].trip, NoTrip}
    BY <2>1, <2>1a
  <2> QED
    BY <1>6, <2>2, RidingKept DEF SaveInboundDraft
<1>7. ASSUME NEW h \in Hubs, NEW load \in Cargo, NEW to \in Hubs \cup {NoHub}, NEW d \in Codes \cup {NoTrip},
             ConfirmOutbound(h, load, to, d)
      PROVE  Riding'
  <2> DEFINE n == TripFor(d)
             r(o) == Row(OutKind(to), h, n, load[o])
  <2>1. n \in Trips /\ n \in Nat
    BY <1>7, TripForType DEF ConfirmOutbound
  <2>2. \A o \in DOMAIN load : r(o) \in RowRecord /\ r(o).live /\ r(o).kind \in Dispatch /\ r(o).trip = n
    BY <2>1, CargoType DEF Row, RowRecord, Kinds, Dispatch, OutKind
  <2>3. \A o \in Orders : IF o \in DOMAIN load THEN order'[o] = DispatchedOrder(o, n, load[o], to)
                                                    /\ ledger'[o] = Append(ledger[o], r(o))
                          ELSE order'[o] = order[o] /\ ledger'[o] = ledger[o]
    BY <1>7 DEF ConfirmOutbound
  <2>4. \A o \in Orders : DispatchedOrder(o, n, load[o], to).trip \in {order[o].trip, n}
    BY DEF DispatchedOrder, TypeOK, OrderRecord
  <2> HIDE DEF n, r
  <2>5. ASSUME NEW o \in Orders, order'[o].trip # NoTrip
        PROVE  ShippedOn(ledger'[o], order'[o].trip)
    <3>1. CASE o \notin DOMAIN load
      BY <2>3, <2>5, <3>1 DEF Riding
    <3>2. CASE o \in DOMAIN load
      <4>1. ledger[o] \in Seq(RowRecord)
        BY DEF TypeOK
      <4>2. \A t : ShippedOn(Append(ledger[o], r(o)), t) <=> ShippedOn(ledger[o], t) \/ n = t
        BY <2>2, <3>2, <4>1, ShippedAppend
      <4> QED
        BY <2>3, <2>4, <2>5, <3>2, <4>2 DEF Riding
    <3> QED
      BY <3>1, <3>2
  <2> QED
    BY <2>5 DEF Riding
<1>8. ASSUME NEW h \in Hubs, NEW load \in Cargo, NEW to \in Hubs \cup {NoHub}, NEW d \in Codes \cup {NoTrip},
             SaveOutboundDraft(h, load, to, d)
      PROVE  Riding'
  BY <1>8 DEF SaveOutboundDraft, Riding
<1>9. ASSUME NEW h \in Hubs \cup {NoHub}, NEW t \in Codes,
             CancelOutboundDraft(h, t) \/ CancelInboundDraft(h, t) \/ UpdateTransitStep(h, t)
      PROVE  Riding'
  <2>1. order' = order \/ \A o \in Orders : order'[o] = CancelledOrder(o, t)
    BY <1>9 DEF CancelOutboundDraft, CancelInboundDraft, UpdateTransitStep
  <2>1a. \A o \in Orders : order'[o].trip = order[o].trip
    BY <2>1, TripsTaken
  <2> QED
    BY <1>9, <2>1a DEF CancelOutboundDraft, CancelInboundDraft, UpdateTransitStep, Riding
<1> QED
  BY <1>1, <1>2, <1>3, <1>4, <1>5, <1>6, <1>7, <1>8, <1>9 DEF HubNext

-----------------------------------------------------------------------------
(* Every note stays covered. *)

LEMMA InitCovered == Init => AllCovered
<1> SUFFICES ASSUME Init, NEW o \in Orders, NEW h \in Hubs PROVE Covers(ledger[o], line, o, h)
  BY DEF AllCovered
<1>1. ledger[o] = <<>> /\ \A t \in Trips : line[t][o] = NoLine
  BY DEF Init
<1>2. \A K : RowsIn(ledger[o], K, {h}) = {}
  BY <1>1 DEF RowsIn
<1>3. NoteTrips(line, o, h, NoTrip) = {}
  BY <1>1 DEF NoteTrips, NoLine
<1>4. In(ledger[o], h) = 0 /\ Out(ledger[o], h) = 0 /\ PlanSum(line, o, h, NoTrip) = 0
  BY <1>2, <1>3, QtyEmpty DEF In, Out, SumIn, PlanSum
<1> QED
  BY <1>4 DEF Covers

(* A routine step moves the packages of one hub, or none and no plan, and   *)
(* leaves every note covered.                                               *)
LEMMA RoutineCovers ==
  ASSUME TypeOK, TypeOK', RoadOK, Riding, AllCovered, [RoutineNext]_vars
  PROVE  /\ AllCovered'
         /\ (ledger' = ledger /\ line' = line) \/ \E h \in Hubs : Moves(h)
<1> DEFINE Result == /\ AllCovered'
                     /\ (ledger' = ledger /\ line' = line) \/ \E h \in Hubs : Moves(h)
<1>1. ASSUME ledger' = ledger, line' = line
      PROVE  Result
  BY <1>1 DEF AllCovered
<1>2. ASSUME UNCHANGED vars
      PROVE  Result
  BY <1>1, <1>2 DEF vars
<1>3. ASSUME NEW n \in Orders, NEW h \in Hubs \cup {NoHub}, NEW q \in 1 .. MaxQty, CreateOrder(n, h, q)
      PROVE  Result
  BY <1>1, <1>3 DEF CreateOrder
<1>4. ASSUME NEW h \in Hubs, Moves(h) /\ AllCovered'
      PROVE  Result
  BY <1>4
<1> HIDE DEF Result
<1>5. ASSUME RoutineNext
      PROVE  Result
  <2>1. ASSUME NEW n \in Orders, NEW h \in Hubs, NEW q \in 1 .. MaxQty, NEW d \in BOOLEAN,
               QuickCreateInbound(n, h, q, d)
        PROVE  Result
    BY <1>4, <2>1, QuickCreateCovers
  <2>2. ASSUME NEW h \in Hubs, NEW got \in Cargo, NEW drafts \in SUBSET Orders,
               BatchCreateInbound(h, got, drafts)
        PROVE  Result
    BY <1>4, <2>2, BatchCovers
  <2>3. ASSUME NEW h \in Hubs, NEW t \in Codes \cup {NoTrip}, NEW got \in Cargo, NEW keep \in BOOLEAN,
               Arrived(t, got), ConfirmInbound(h, FALSE, t, got, keep)
        PROVE  Result
    BY <1>4, <2>3, ConfirmInboundCovers
  <2>4. ASSUME NEW h \in Hubs, NEW t \in Codes, NEW got \in Cargo,
               Arrived(t, got), SaveInboundDraft(h, FALSE, t, got)
        PROVE  Result
    BY <1>4, <2>4, SaveInboundCovers
  <2>5. ASSUME NEW h \in Hubs, NEW load \in Cargo, NEW to \in Hubs \cup {NoHub}, NEW d \in Codes \cup {NoTrip},
               Holds(h, load), ConfirmOutbound(h, load, to, d)
        PROVE  Result
    BY <1>4, <2>5, ConfirmOutboundCovers
  <2>6. ASSUME NEW h \in Hubs, NEW load \in Cargo, NEW to \in Hubs \cup {NoHub}, NEW d \in Codes \cup {NoTrip},
               Holds(h, load), SaveOutboundDraft(h, load, to, d)
        PROVE  Result
    BY <1>4, <2>6, SaveOutboundCovers
  <2>7. ASSUME NEW h \in Hubs, NEW t \in Codes,
               CancelOutboundDraft(h, t) \/ CancelInboundDraft(h, t) \/ UpdateTransitStep(h, t)
        PROVE  Result
    BY <1>4, <2>7, CancelCovers
  <2> QED
    BY <1>3, <1>5, <2>1, <2>2, <2>3, <2>4, <2>5, <2>6, <2>7 DEF RoutineNext
<1>6. Result
  BY <1>2, <1>5
<1> QED
  BY <1>6 DEF Result

(* Routine use is use: what holds of every step holds of routine ones. *)
LEMMA RoutineRoad == RoutineSpec => [](TypeOK /\ RoadOK)
<1>1. [RoutineNext]_vars => [Next]_vars
  BY RoutineAllowed
<1>2. RoutineSpec => Spec
  BY <1>1, PTL DEF RoutineSpec, Spec
<1> QED
  BY <1>2, AlwaysClean, AlwaysRoad, PTL

LEMMA RoutineCovered == RoutineSpec => [](TypeOK /\ RoadOK /\ Riding /\ AllCovered)
<1>1. Init => Riding /\ AllCovered
  BY InitRiding, InitCovered
<1>2. TypeOK /\ TypeOK' /\ RoadOK /\ Riding /\ AllCovered /\ [RoutineNext]_vars => Riding' /\ AllCovered'
  BY RidingStep, RoutineCovers, RoutineOfHubs
<1> QED
  BY <1>1, <1>2, RoutineRoad, PTL DEF RoutineSpec

LEMMA CoveredMeans ==
  ASSUME AllCovered
  PROVE  StockCoversReservations
<1> SUFFICES ASSUME NEW o \in Orders, NEW h \in Hubs
             PROVE  BookedAt(o, Dispatch, h) + Reserved(o, h, NoTrip) <= BookedAt(o, Receipt, h)
  BY DEF StockCoversReservations
<1>1. /\ BookedAt(o, Dispatch, h) = Out(ledger[o], h)
      /\ BookedAt(o, Receipt, h) = In(ledger[o], h)
      /\ Reserved(o, h, NoTrip) = PlanSum(line, o, h, NoTrip)
  BY PlanQueries DEF In, Out
<1> QED
  BY <1>1 DEF AllCovered, Covers

(* Every saved outbound note can be dispatched: what a hub shipped and what *)
(* its notes still plan never exceed what it received, in whatever order    *)
(* notes are saved, confirmed, cancelled and vehicles received.             *)
THEOREM NotesStayCovered == RoutineSpec => []StockCoversReservations
<1>1. TypeOK /\ RoadOK /\ Riding /\ AllCovered => StockCoversReservations
  BY CoveredMeans
<1> QED
  BY <1>1, RoutineCovered, PTL

-----------------------------------------------------------------------------
(* The warehouse implements the stock promise. *)

(* The state of the promise, in terms of invoices. *)
PromiseFacts ==
  /\ StockAt \in Promise!Quantities /\ PlannedAt \in Promise!Quantities
  /\ Promise!Covered
  /\ \A o \in Orders, g \in Hubs :
       /\ StockAt[o][g] = In(ledger[o], g) - Out(ledger[o], g)
       /\ In(ledger[o], g) \in Nat /\ Out(ledger[o], g) \in Nat

LEMMA PromiseState == TypeOK /\ AllCovered => PromiseFacts
<1> SUFFICES ASSUME TypeOK, AllCovered PROVE PromiseFacts
  OBVIOUS
<1>1. ASSUME NEW o \in Orders, NEW g \in Hubs
      PROVE  /\ BookedAt(o, Receipt, g) = In(ledger[o], g)
             /\ BookedAt(o, Dispatch, g) = Out(ledger[o], g)
             /\ Reserved(o, g, NoTrip) = PlanSum(line, o, g, NoTrip)
  BY PlanQueries DEF In, Out
<1>2. line \in LineTable
  BY DEF TypeOK, LineTable
<1>3. ASSUME NEW o \in Orders, NEW g \in Hubs
      PROVE  /\ In(ledger[o], g) \in Nat /\ Out(ledger[o], g) \in Nat
             /\ PlanSum(line, o, g, NoTrip) \in Nat
             /\ Out(ledger[o], g) + PlanSum(line, o, g, NoTrip) <= In(ledger[o], g)
  BY <1>2, HubSums, PlanSumNat DEF PlanSum, NoteTrips, AllCovered, Covers
<1>4. ASSUME NEW o \in Orders, NEW g \in Hubs
      PROVE  /\ StockAt[o][g] = In(ledger[o], g) - Out(ledger[o], g)
             /\ PlannedAt[o][g] = PlanSum(line, o, g, NoTrip)
             /\ StockAt[o][g] \in Nat /\ PlannedAt[o][g] \in Nat /\ PlannedAt[o][g] <= StockAt[o][g]
  <2>1. StockAt[o][g] = BookedAt(o, Receipt, g) - BookedAt(o, Dispatch, g)
        /\ PlannedAt[o][g] = Reserved(o, g, NoTrip)
    BY DEF StockAt, PlannedAt
  <2>2. StockAt[o][g] = In(ledger[o], g) - Out(ledger[o], g) /\ PlannedAt[o][g] = PlanSum(line, o, g, NoTrip)
    BY <1>1, <2>1
  <2> QED
    BY <1>3, <2>2
<1>5. StockAt \in Promise!Quantities /\ PlannedAt \in Promise!Quantities
  <2>1. StockAt = [o \in Orders |-> [g \in Hubs |-> StockAt[o][g]]]
        /\ PlannedAt = [o \in Orders |-> [g \in Hubs |-> PlannedAt[o][g]]]
    BY DEF StockAt, PlannedAt
  <2> QED
    BY <1>4, <2>1 DEF Promise!Quantities
<1> QED
  BY <1>3, <1>4, <1>5 DEF PromiseFacts, Promise!Covered

(* The warehouse opens with nothing stored and nothing planned. *)
LEMMA PromiseInit == Init => Promise!Init
<1> SUFFICES ASSUME Init, NEW o \in Orders, NEW h \in Hubs
             PROVE  BookedAt(o, Receipt, h) - BookedAt(o, Dispatch, h) = 0 /\ Reserved(o, h, NoTrip) = 0
  BY DEF Promise!Init, StockAt, PlannedAt
<1>1. ledger[o] = <<>> /\ \A t \in Trips : line[t][o] = NoLine
  BY DEF Init
<1>2. \A K : RowsAt(o, K, h) = {}
  BY <1>1 DEF RowsAt, Rows
<1>3. ReservingTrips(o, h, NoTrip) = {}
  BY <1>1 DEF ReservingTrips, PendingOut, NoLine
<1>4. BookedAt(o, Receipt, h) = 0 /\ BookedAt(o, Dispatch, h) = 0 /\ Reserved(o, h, NoTrip) = 0
  BY <1>2, <1>3, QtyEmpty DEF BookedAt, Reserved
<1> QED
  BY <1>4

(* A step that moves the packages of one hub is a step of the promise. *)
LEMMA MoveKeepsPromise ==
  ASSUME TypeOK, TypeOK', AllCovered, AllCovered', NEW h \in Hubs, Moves(h)
  PROVE  Promise!Next
<1>1. PromiseFacts /\ PromiseFacts'
  BY PromiseState, PTL
<1>2. Promise!Replan /\ StockAt' \in Promise!Quantities
  BY <1>1 DEF PromiseFacts, Promise!Replan
<1>3. \A o \in Orders, g \in Hubs :
        /\ StockAt[o][g] = In(ledger[o], g) - Out(ledger[o], g)
        /\ In(ledger[o], g) \in Nat /\ Out(ledger[o], g) \in Nat
        /\ StockAt'[o][g] = In(ledger'[o], g) - Out(ledger'[o], g)
        /\ In(ledger'[o], g) \in Nat /\ Out(ledger'[o], g) \in Nat
  BY <1>1 DEF PromiseFacts
<1>4. CASE \A o \in Orders : ReceivedAt(ledger[o], ledger'[o], h)
  <2>1. ASSUME NEW o \in Orders, NEW g \in Hubs
        PROVE  IF g = h THEN StockAt'[o][g] >= StockAt[o][g] ELSE StockAt'[o][g] = StockAt[o][g]
    <3>1. /\ Out(ledger'[o], g) = Out(ledger[o], g)
          /\ IF g = h THEN In(ledger[o], g) <= In(ledger'[o], g) ELSE In(ledger'[o], g) = In(ledger[o], g)
      BY <1>4 DEF ReceivedAt
    <3> QED
      BY <1>3, <3>1
  <2>2. Promise!Receive(h)
    BY <1>2, <2>1 DEF Promise!Receive, Promise!OnlyAt
  <2> QED
    BY <1>2, <2>2 DEF Promise!Next
<1>5. CASE \A o \in Orders : ShippedFrom(ledger[o], ledger'[o], h)
  <2>1. ASSUME NEW o \in Orders, NEW g \in Hubs
        PROVE  IF g = h THEN StockAt'[o][g] <= StockAt[o][g] ELSE StockAt'[o][g] = StockAt[o][g]
    <3>1. /\ In(ledger'[o], g) = In(ledger[o], g)
          /\ IF g = h THEN Out(ledger[o], g) <= Out(ledger'[o], g) ELSE Out(ledger'[o], g) = Out(ledger[o], g)
      BY <1>5 DEF ShippedFrom
    <3> QED
      BY <1>3, <3>1
  <2>2. Promise!Ship(h)
    BY <1>2, <2>1 DEF Promise!Ship, Promise!OnlyAt
  <2> QED
    BY <1>2, <2>2 DEF Promise!Next
<1> QED
  BY <1>4, <1>5 DEF Moves

(* A step that touches neither invoices nor lines does not show. *)
LEMMA QuietStepStutters ==
  ASSUME ledger' = ledger, line' = line
  PROVE  StockAt' = StockAt /\ PlannedAt' = PlannedAt
BY DEF StockAt, PlannedAt, BookedAt, RowsAt, Rows, Reserved, ReservingTrips, PendingOut

(* Routine use implements the stock promise: in one step packages enter or  *)
(* leave one hub only, no hub ships what it does not hold, and every plan   *)
(* of every hub stays covered.                                              *)
THEOREM RoutineKeepsPromise == RoutineSpec => ImplementsHubStock
<1>1. Init => Promise!Init
  BY PromiseInit
<1>2. /\ TypeOK /\ RoadOK /\ Riding /\ AllCovered
      /\ (TypeOK /\ RoadOK /\ Riding /\ AllCovered)'
      /\ [RoutineNext]_vars
      => [Promise!Next]_<<StockAt, PlannedAt>>
  BY RoutineCovers, MoveKeepsPromise, QuietStepStutters
<1> QED
  BY <1>1, <1>2, RoutineCovered, PTL DEF RoutineSpec, ImplementsHubStock, Promise!Spec
=============================================================================
