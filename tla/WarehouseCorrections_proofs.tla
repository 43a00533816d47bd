--------------------- MODULE WarehouseCorrections_proofs ---------------------
(***************************************************************************)
(* Careful corrections of invoices and dispatches taken back keep the books *)
(* of every order, and the warehouse screens tell the truth, for every      *)
(* number of orders, hubs, trips and packages.                              *)
(*                                                                          *)
(* Corrections.  The invariant is the one of the daily routine (every order *)
(* is Sound) with one part more: every invoice, deleted or not, carries     *)
(* packages, so that an order without received packages has no invoice      *)
(* left.  Where the handlers may be used in any way, corrections made       *)
(* without care included, the contract totals still cover what came in      *)
(* (Contracts).                                                             *)
(*                                                                          *)
(* On the road.  Loading keeps every order in transit on a line of its trip *)
(* (RidesWell), and neither loading nor the rollback of a trip leaves a     *)
(* line on the road without its invoice (RoadBooked).                       *)
(*                                                                          *)
(* Screens (HubBoard).  The stored tab is the stock of the hub, a saved     *)
(* note shows what its confirmation will grant, and packages on the road    *)
(* are announced to the hub that is to unload them.  The screens only read, *)
(* so the tables go through routine steps and keep every invariant proved   *)
(* of them; three more are needed: which stops are origins (OriginsOK),     *)
(* what lines say of their stop and invoices (LinesOK), and that an order   *)
(* with packages still on the vehicle it was loaded on last is riding that  *)
(* vehicle (AllRide).                                                       *)
(***************************************************************************)
EXTENDS HubBoard, MCWarehouseCorrections, WarehouseStock_proofs, WellFoundedInduction

Carries(s) == \A i \in DOMAIN s : s[i].qty > 0 /\ s[i].kind # "ADJUSTMENT"
AllCarry == \A o \in Orders : Carries(ledger[o])

Books == TypeOK /\ AllSound /\ AllCarry

-----------------------------------------------------------------------------
(* Sums over sets of hubs. *)

(* A set of natural numbers has a least element. *)
LEMMA LeastNumber ==
  ASSUME NEW T \in SUBSET Nat, T # {}
  PROVE  \E x \in T : \A y \in T : x <= y
<1> DEFINE Less == OpToRel(<, Nat)
<1>1. Less = {ss \in Nat \X Nat : ss[1] < ss[2]}
  BY Zenon DEF OpToRel
<1>2. IsWellFoundedOn(Less, Nat)
  BY NatLessThanWellFounded, Zenon
<1> HIDE DEF Less
<1>3. PICK x \in T : \A y \in T : ~(<<y, x>> \in Less)
  BY <1>2, WFMin
<1>4. ASSUME NEW y \in T PROVE x <= y
  <2>1. <<y, x>> \in Nat \X Nat /\ ~(<<y, x>> \in Less)
    BY <1>3
  <2> QED
    BY <1>1, <2>1
<1> QED
  BY <1>4

(* If no hub ships more than it received, no set of hubs does.  Of the sets *)
(* that did, take one with the fewest invoices: it has one, and without the *)
(* hub of that invoice it has fewer.                                        *)
LEMMA HubsTogether ==
  ASSUME NEW s \in Seq(RowRecord),
         \A h \in Hubs : SumIn(s, Dispatch, {h}) <= SumIn(s, Receipt, {h})
  PROVE  \A H \in SUBSET Hubs : SumIn(s, Dispatch, H) <= SumIn(s, Receipt, H)
<1> DEFINE Bad(H) == ~(SumIn(s, Dispatch, H) <= SumIn(s, Receipt, H))
           Count(H) == Cardinality(RowsIn(s, Kinds, H))
           T == {n \in Nat : \E H \in SUBSET Hubs : Bad(H) /\ n = Count(H)}
<1>1. \A K, H : IsFiniteSet(RowsIn(s, K, H)) /\ SumIn(s, K, H) \in Nat
  BY RowsInFinite
<1>2. \A H : Count(H) \in Nat
  BY <1>1, FS_CardinalityType
<1>3. SUFFICES ASSUME NEW G \in SUBSET Hubs, Bad(G) PROVE FALSE
  OBVIOUS
<1>4. T # {} /\ T \in SUBSET Nat
  BY <1>2, <1>3
<1> HIDE DEF Bad, Count
<1>5. PICK n \in T : \A m \in T : n <= m
  BY <1>4, LeastNumber
<1>6. PICK H \in SUBSET Hubs : Bad(H) /\ n = Count(H)
  BY <1>5
<1>7. PICK i \in RowsIn(s, Kinds, H) : TRUE
  <2>1. SUFFICES ASSUME RowsIn(s, Kinds, H) = {} PROVE FALSE
    OBVIOUS
  <2>2. RowsIn(s, Receipt, H) = {} /\ RowsIn(s, Dispatch, H) = {}
    BY <2>1 DEF RowsIn, Kinds
  <2>3. SumIn(s, Receipt, H) = 0 /\ SumIn(s, Dispatch, H) = 0
    BY <2>2, QtyEmpty DEF SumIn
  <2> QED
    BY <1>6, <2>3 DEF Bad
<1> DEFINE h == s[i].hub
           L == H \ {h}
<1>8. h \in H /\ h \in Hubs /\ L \in SUBSET Hubs
  BY <1>7 DEF RowsIn
<1>9. ~Bad(L)
  <2>1. RowsIn(s, Kinds, L) \in SUBSET (RowsIn(s, Kinds, H) \ {i})
    BY DEF RowsIn
  <2>2. /\ IsFiniteSet(RowsIn(s, Kinds, H) \ {i})
        /\ Cardinality(RowsIn(s, Kinds, H) \ {i}) = Cardinality(RowsIn(s, Kinds, H)) - 1
    BY <1>1, <1>7, FS_RemoveElement
  <2>3. Count(L) <= Cardinality(RowsIn(s, Kinds, H) \ {i})
    BY <2>1, <2>2, FS_Subset DEF Count
  <2>4. Count(L) <= Count(H) - 1
    BY <2>2, <2>3 DEF Count
  <2>5. Count(L) < n
    BY <1>2, <1>6, <2>4
  <2>6. Bad(L) => Count(L) \in T
    BY <1>2, <1>8
  <2> HIDE DEF T
  <2> QED
    BY <1>2, <1>5, <1>6, <2>5, <2>6
<1>10. /\ SumIn(s, Dispatch, H) = SumIn(s, Dispatch, L) + SumIn(s, Dispatch, {h})
       /\ SumIn(s, Receipt, H) = SumIn(s, Receipt, L) + SumIn(s, Receipt, {h})
  BY <1>8, SumSplit
<1>11. SumIn(s, Dispatch, {h}) <= SumIn(s, Receipt, {h})
  BY <1>8
<1> HIDE DEF h, L
<1> QED
  BY <1>1, <1>6, <1>9, <1>10, <1>11 DEF Bad

(* An order whose invoices add up to nothing has no invoice. *)
LEMMA NothingBooked ==
  ASSUME NEW s \in Seq(RowRecord), Carries(s),
         SumIn(s, Receipt, Hubs) = 0, SumIn(s, Dispatch, Hubs) = 0
  PROVE  RowsIn(s, Kinds, Hubs) = {}
<1> SUFFICES ASSUME NEW i \in RowsIn(s, Kinds, Hubs) PROVE FALSE
  OBVIOUS
<1>1. i \in DOMAIN s /\ s[i].qty > 0
  BY DEF RowsIn, Carries
<1>2. PICK K \in {Receipt, Dispatch} : i \in RowsIn(s, K, Hubs)
  BY DEF RowsIn, Carries, Kinds
<1>3. /\ IsFiniteSet(RowsIn(s, K, Hubs))
      /\ \A j \in RowsIn(s, K, Hubs) : s[j].qty \in Nat
  BY RowsInFinite
<1>4. QtyOf(s, {i}) <= SumIn(s, K, Hubs)
  <2>1. {i} \in SUBSET RowsIn(s, K, Hubs)
    BY <1>2
  <2> QED
    BY <1>3, <2>1, QtyMonotone DEF SumIn
<1>5. QtyOf(s, {} \cup {i}) = QtyOf(s, {}) + s[i].qty
  <2>1. IsFiniteSet({})
    BY FS_EmptySet
  <2> QED
    BY <1>2, <1>3, <2>1, QtyAdd
<1>6. QtyOf(s, {i}) = s[i].qty /\ s[i].qty \in Nat
  BY <1>2, <1>3, <1>5, QtyEmpty
<1> QED
  BY <1>1, <1>2, <1>4, <1>6

-----------------------------------------------------------------------------
(* The daily handlers book invoices that carry packages. *)

LEMMA CarriesAppend ==
  ASSUME NEW s \in Seq(RowRecord), Carries(s), NEW r \in RowRecord, r.qty > 0, r.kind # "ADJUSTMENT"
  PROVE  Carries(Append(s, r))
<1>1. DOMAIN s = 1 .. Len(s) /\ Len(s) \in Nat
  BY LenProperties
<1>2. /\ Append(s, r) \in Seq(RowRecord) /\ Len(Append(s, r)) = Len(s) + 1
      /\ \A i \in 1 .. Len(s) : Append(s, r)[i] = s[i]
      /\ Append(s, r)[Len(s) + 1] = r
  BY AppendProperties
<1>3. DOMAIN Append(s, r) = 1 .. Len(s) + 1
  BY <1>2, LenProperties
<1> QED
  BY <1>1, <1>2, <1>3 DEF Carries

(* The one invoice a handler adds to an order. *)
LEMMA InvoiceCarries ==
  ASSUME TypeOK, AllCarry, NEW o \in Orders, NEW h \in Hubs, NEW c \in Nat, NEW q \in Nat, q > 0,
         NEW k \in Receipt \cup Dispatch
  PROVE  Carries(ledger[o]) /\ Carries(Append(ledger[o], Row(k, h, c, q)))
<1>1. /\ Row(k, h, c, q) \in RowRecord /\ Row(k, h, c, q).qty = q
      /\ Row(k, h, c, q).kind = k /\ k # "ADJUSTMENT"
  BY DEF Row, RowRecord, Kinds, Receipt, Dispatch
<1>2. ledger[o] \in Seq(RowRecord) /\ Carries(ledger[o])
  BY DEF TypeOK, AllCarry
<1> QED
  BY <1>1, <1>2, CarriesAppend

(* The intake handlers. *)
LEMMA IntakeCarries ==
  ASSUME TypeOK, AllCarry, NEW h \in Hubs,
         \/ \E o \in Orders, q \in 1 .. MaxQty, d \in BOOLEAN : QuickCreateInbound(o, h, q, d)
         \/ \E got \in Cargo, drafts \in SUBSET Orders : BatchCreateInbound(h, got, drafts)
  PROVE  AllCarry'
<1> SUFFICES ASSUME NEW o \in Orders PROVE Carries(ledger'[o])
  BY DEF AllCarry
<1>1. CASE \E n \in Orders, q \in 1 .. MaxQty, d \in BOOLEAN : QuickCreateInbound(n, h, q, d)
  <2>1. PICK q \in 1 .. MaxQty :
          ledger'[o] = ledger[o] \/ ledger'[o] = Append(ledger[o], Row("INBOUND", h, NoTrip, q))
    BY <1>1 DEF QuickCreateInbound, TypeOK
  <2>2. q \in Nat /\ q > 0
    BY BoundsAssumption
  <2> QED
    BY <2>1, <2>2, InvoiceCarries DEF Receipt, NoTrip, AllCarry
<1>2. CASE \E got \in Cargo, drafts \in SUBSET Orders : BatchCreateInbound(h, got, drafts)
  <2> DEFINE t == lastTrip + 1
  <2>1. PICK got \in Cargo :
          \/ ledger'[o] = ledger[o]
          \/ o \in DOMAIN got /\ ledger'[o] = Append(ledger[o], Row("INBOUND", h, t, got[o]))
    BY <1>2 DEF BatchCreateInbound
  <2>2. t \in Nat
    BY BoundsAssumption DEF TypeOK
  <2> HIDE DEF t
  <2> QED
    BY <2>1, <2>2, CargoType, InvoiceCarries DEF Receipt, AllCarry
<1> QED
  BY <1>1, <1>2

(* A receipt whose quantity is corrected still carries packages. *)
LEMMA QuantityCarries ==
  ASSUME TypeOK, AllCarry, NEW o \in Orders, NEW i \in DOMAIN ledger[o], NEW q \in Nat, q > 0
  PROVE  Carries([ledger[o] EXCEPT ![i].qty = q])
<1> DEFINE z == [ledger[o] EXCEPT ![i].qty = q]
<1>1. \A j \in DOMAIN ledger[o] : ledger[o][j] \in RowRecord
  BY OrderFacts
<1>2. DOMAIN z = DOMAIN ledger[o] /\ \A j \in DOMAIN ledger[o] : z[j] = IF j = i THEN [ledger[o][i] EXCEPT !.qty = q] ELSE ledger[o][j]
  OBVIOUS
<1>3. Carries(ledger[o])
  BY DEF AllCarry
<1>4. [ledger[o][i] EXCEPT !.qty = q].qty = q /\ [ledger[o][i] EXCEPT !.qty = q].kind = ledger[o][i].kind
  BY <1>1 DEF RowRecord
<1> HIDE DEF z
<1>5. Carries(z)
  BY <1>2, <1>3, <1>4 DEF Carries
<1> QED
  BY <1>5 DEF z

(* confirmInbound and confirmOutbound. *)
LEMMA ConfirmedCarry ==
  ASSUME TypeOK, AllCarry, NEW h \in Hubs, NEW t \in Codes \cup {NoTrip}, NEW got \in Cargo,
         \/ \E admin \in BOOLEAN, keep \in BOOLEAN : ConfirmInbound(h, admin, t, got, keep)
         \/ \E to \in Hubs \cup {NoHub} : ConfirmOutbound(h, got, to, t)
  PROVE  AllCarry'
<1> SUFFICES ASSUME NEW o \in Orders PROVE Carries(ledger'[o])
  BY DEF AllCarry
<1>1. CASE \E admin \in BOOLEAN, keep \in BOOLEAN : ConfirmInbound(h, admin, t, got, keep)
  <2>0. PICK admin \in BOOLEAN, keep \in BOOLEAN : ConfirmInbound(h, admin, t, got, keep)
    BY <1>1
  <2> DEFINE c == TripOf(o, h, admin, t)
  <2>1. CASE o \notin DOMAIN got
    BY <2>0, <2>1 DEF ConfirmInbound, AllCarry
  <2>2. CASE o \in DOMAIN got
    <3>1. ledger'[o] = ReceivedLedger(o, h, admin, t, got[o]) /\ got[o] \in Nat /\ got[o] > 0
      BY <2>0, <2>2, CargoType DEF ConfirmInbound
    <3>2. c \in Nat
      <4>1. order[o].trip \in Nat
        BY OrderFacts
      <4>2. t \in Nat
        BY CodesAreTrips DEF NoTrip
      <4>3. c \in {order[o].trip, t}
        BY Zenon DEF TripOf
      <4> HIDE DEF c
      <4> QED
        BY <4>1, <4>2, <4>3
    <3>3. CASE ~Skipped(o, h, admin, t)
      <4>1. ledger'[o] = Append(ledger[o], Row("INBOUND", h, c, got[o]))
        BY <3>1, <3>3 DEF ReceivedLedger
      <4> HIDE DEF c
      <4> QED
        BY <3>1, <3>2, <4>1, InvoiceCarries DEF Receipt
    <3>4. CASE Skipped(o, h, admin, t)
      <4>1. TheReceipt(o, c, h) \in DOMAIN ledger[o]
        BY <3>4, TheReceiptChosen DEF Skipped
      <4>2. \/ ledger'[o] = ledger[o]
            \/ ledger'[o] = [ledger[o] EXCEPT ![TheReceipt(o, c, h)].qty = got[o]]
        BY <3>1, <3>4 DEF ReceivedLedger
      <4> HIDE DEF c
      <4> QED
        BY <3>1, <4>1, <4>2, QuantityCarries DEF AllCarry
    <3> QED
      BY <3>3, <3>4
  <2> QED
    BY <2>1, <2>2
<1>2. CASE \E to \in Hubs \cup {NoHub} : ConfirmOutbound(h, got, to, t)
  <2> DEFINE c == TripFor(t)
  <2>1. PICK to \in Hubs \cup {NoHub} : ConfirmOutbound(h, got, to, t)
    BY <1>2
  <2>2. \/ ledger'[o] = ledger[o]
        \/ o \in DOMAIN got /\ ledger'[o] = Append(ledger[o], Row(OutKind(to), h, c, got[o]))
    BY <2>1 DEF ConfirmOutbound
  <2>3. c \in Nat /\ OutKind(to) \in Dispatch
    BY <2>1, TripForType DEF ConfirmOutbound, OutKind, Dispatch
  <2> HIDE DEF c
  <2> QED
    BY <2>2, <2>3, CargoType, InvoiceCarries DEF AllCarry
<1> QED
  BY <1>1, <1>2

LEMMA AdminConfirmedCarry ==
  ASSUME TypeOK, AllCarry, NEW load \in Cargo, NEW to \in Hubs \cup {NoHub},
         NEW d \in Codes \cup {NoTrip}, NEW at \in [DOMAIN load -> Hubs], NEW first \in DOMAIN load,
         AdminConfirmOutbound(at, first, load, to, d)
  PROVE  AllCarry'
<1> SUFFICES ASSUME NEW o \in Orders PROVE Carries(ledger'[o])
  BY DEF AllCarry
<1> DEFINE c == TripFor(d)
<1>1. \/ ledger'[o] = ledger[o]
      \/ o \in DOMAIN load /\ ledger'[o] = Append(ledger[o], Row(OutKind(to), at[o], c, load[o]))
  BY DEF AdminConfirmOutbound
<1>2. c \in Nat /\ OutKind(to) \in Dispatch
  BY TripForType DEF AdminConfirmOutbound, OutKind, Dispatch
<1>3. o \in DOMAIN load => at[o] \in Hubs
  OBVIOUS
<1> HIDE DEF c
<1> QED
  BY <1>1, <1>2, <1>3, CargoType, InvoiceCarries DEF AllCarry

LEMMA DailyCarries == TypeOK /\ AllCarry /\ [Next]_vars => AllCarry'
<1> SUFFICES ASSUME TypeOK, AllCarry, [Next]_vars PROVE AllCarry'
  OBVIOUS
<1>1. ASSUME ledger' = ledger PROVE AllCarry'
  BY <1>1 DEF AllCarry
<1>2. ASSUME NEW o \in Orders, NEW h \in Hubs \cup {NoHub}, NEW q \in 1 .. MaxQty, CreateOrder(o, h, q)
      PROVE  AllCarry'
  BY <1>1, <1>2 DEF CreateOrder
<1>3. ASSUME NEW h \in Hubs, NEW t \in Codes, NEW got \in Cargo, NEW admin \in BOOLEAN, SaveInboundDraft(h, admin, t, got)
      PROVE  AllCarry'
  BY <1>1, <1>3 DEF SaveInboundDraft
<1>4. ASSUME NEW h \in Hubs, NEW load \in Cargo, NEW to \in Hubs \cup {NoHub}, NEW d \in Codes \cup {NoTrip},
             SaveOutboundDraft(h, load, to, d)
      PROVE  AllCarry'
  BY <1>1, <1>4 DEF SaveOutboundDraft
<1>5. ASSUME NEW h \in Hubs \cup {NoHub}, NEW t \in Codes,
             CancelOutboundDraft(h, t) \/ CancelInboundDraft(h, t) \/ UpdateTransitStep(h, t)
      PROVE  AllCarry'
  BY <1>1, <1>5 DEF CancelOutboundDraft, CancelInboundDraft, UpdateTransitStep
<1>6. CASE UNCHANGED vars
  BY <1>1, <1>6 DEF vars
<1>7. CASE HubNext
  BY <1>2, <1>3, <1>4, <1>5, <1>7, IntakeCarries, ConfirmedCarry DEF HubNext
<1>8. ASSUME NEW load \in Cargo, NEW to \in Hubs \cup {NoHub}, NEW d \in Codes \cup {NoTrip},
             NEW at \in [DOMAIN load -> Hubs], NEW first \in DOMAIN load,
             AdminOutbound(at, first, load, to, d)
      PROVE  AllCarry'
  <2>1. CASE AdminConfirmOutbound(at, first, load, to, d)
    BY <2>1, AdminConfirmedCarry
  <2>2. CASE AdminSaveOutboundDraft(at, first, load, to, d)
    BY <1>1, <2>2 DEF AdminSaveOutboundDraft
  <2> QED
    BY <1>8, <2>1, <2>2 DEF AdminOutbound
<1> QED
  BY <1>6, <1>7, <1>8 DEF Next

LEMMA RoutineCarries == TypeOK /\ AllCarry /\ [RoutineNext]_vars => AllCarry'
BY DailyCarries, RoutineAllowed

-----------------------------------------------------------------------------
(* One invoice corrected: deleteTransaction, restoreTransaction,            *)
(* updateTransactionQuantity.                                               *)

LEMMA CorrectedStatusKinds ==
  ASSUME NEW a \in Nat, NEW b \in Nat
  PROVE  /\ CorrectedStatus(a, b) \in DraftLike \cup Stored
         /\ a = 0 => CorrectedStatus(a, b) \in DraftLike
         /\ a # 0 => CorrectedStatus(a, b) \in Stored
BY DEF CorrectedStatus, DraftLike, Stored

(* The sums the corrections take are those of all hubs. *)
LEMMA CorrectionSums ==
  ASSUME NEW s \in Seq(RowRecord), NEW K
  PROVE  SumOf(s, K) = SumIn(s, K, Hubs) /\ SumOf(s, K) \in Nat
<1>1. DOMAIN s = 1 .. Len(s)
  BY LenProperties
<1>2. \A i \in DOMAIN s : s[i] \in RowRecord
  BY <1>1, ElementOfSeq
<1>3. \A i \in DOMAIN s : s[i].hub \in Hubs
  BY <1>2 DEF RowRecord
<1>4. {i \in DOMAIN s : s[i].live /\ s[i].kind \in K} = RowsIn(s, K, Hubs)
  BY <1>3 DEF RowsIn
<1> QED
  BY <1>4, RowsInFinite DEF SumOf, SumIn

(* The recount agrees with the corrected invoices. *)
LEMMA RecountSound ==
  ASSUME TypeOK, NEW o \in Orders, IsLive(o), NEW rows \in Seq(RowRecord), Carries(rows), Balanced(rows),
         \A h \in Hubs : SumIn(rows, Dispatch, {h}) <= SumIn(rows, Receipt, {h})
  PROVE  Recounted(o, rows) \in OrderRecord /\ Sound(Recounted(o, rows), rows)
<1> DEFINE inb == SumOf(rows, Receipt)
           outb == SumOf(rows, Dispatch)
           new == Recounted(o, rows)
<1>1. /\ inb = SumIn(rows, Receipt, Hubs) /\ outb = SumIn(rows, Dispatch, Hubs)
      /\ inb \in Nat /\ outb \in Nat /\ outb <= inb
  BY CorrectionSums DEF Balanced
<1>2. order[o] \in OrderRecord /\ order[o].live
  BY StatusKinds DEF IsLive
<1>3. new = [order[o] EXCEPT !.total = inb, !.inb = inb, !.outb = outb, !.rem = Monus(inb, outb),
                             !.status = CorrectedStatus(inb, outb)]
  BY DEF Recounted
<1>4. /\ CorrectedStatus(inb, outb) \in DraftLike \cup Stored
      /\ inb = 0 => CorrectedStatus(inb, outb) \in DraftLike
      /\ inb # 0 => CorrectedStatus(inb, outb) \in Stored
  BY <1>1, CorrectedStatusKinds
<1>5. Monus(inb, outb) \in Nat /\ Monus(inb, outb) + outb = inb
  BY <1>1 DEF Monus
<1> HIDE DEF inb, outb, new
<1>6. /\ new.live /\ new.inb = inb /\ new.outb = outb /\ new.rem = Monus(inb, outb)
      /\ new.status = CorrectedStatus(inb, outb)
      /\ new \in OrderRecord
  BY <1>1, <1>2, <1>3, <1>4, <1>5 DEF OrderRecord
<1>7. \A H \in SUBSET Hubs : SumIn(rows, Dispatch, H) <= SumIn(rows, Receipt, H)
  BY HubsTogether
<1>8. DraftLike \cap Stored = {} /\ Unborn \notin DraftLike \cup Stored
  BY StatusKinds
<1>9. new.status \in DraftLike => outb = 0 /\ RowsIn(rows, Kinds, Hubs) = {}
  <2>1. SUFFICES ASSUME new.status \in DraftLike
                 PROVE  outb = 0 /\ RowsIn(rows, Kinds, Hubs) = {}
    OBVIOUS
  <2>2. inb = 0 /\ outb = 0
    BY <1>1, <1>4, <1>6, <1>8, <2>1
  <2> QED
    BY <1>1, <2>2, NothingBooked
<1>10. Sound(new, rows)
  BY <1>1, <1>4, <1>5, <1>6, <1>7, <1>8, <1>9 DEF Sound
<1> QED
  BY <1>6, <1>10 DEF new

(* An invoice deleted, restored or given another quantity is an invoice. *)
LEMMA CorrectedInvoices ==
  ASSUME NEW s \in Seq(RowRecord), Carries(s), NEW i \in DOMAIN s, NEW r \in RowRecord,
         r.qty > 0, r.kind = s[i].kind
  PROVE  [s EXCEPT ![i] = r] \in Seq(RowRecord) /\ Carries([s EXCEPT ![i] = r])
<1>1. i \in 1 .. Len(s)
  BY LenProperties
<1>2. [s EXCEPT ![i] = r] \in Seq(RowRecord)
  BY <1>1, ExceptSeq
<1> QED
  BY <1>2 DEF Carries

(* A correction that leaves every hub what it dispatched. *)
LEMMA CorrectKeepsBooks ==
  ASSUME Books, NEW o \in Orders, NEW rows \in Seq(RowRecord), Carries(rows), Correct(o, rows),
         HubStockNonNegative', line' \in [Trips -> [Orders -> LineRecord]]
  PROVE  Books'
<1>1. /\ IsLive(o) /\ Balanced(rows)
      /\ ledger' = [ledger EXCEPT ![o] = rows]
      /\ order' = [order EXCEPT ![o] = Recounted(o, rows)]
      /\ stop' = stop /\ lastTrip' = lastTrip
  BY DEF Correct
<1>2. /\ ledger \in [Orders -> Seq(RowRecord)] /\ order \in [Orders -> OrderRecord]
      /\ TypeOK /\ AllSound /\ AllCarry
  BY DEF Books, TypeOK
<1>3. ledger'[o] = rows /\ order'[o] = Recounted(o, rows)
  BY <1>1, <1>2
<1>4. ASSUME NEW h \in Hubs
      PROVE  SumIn(rows, Dispatch, {h}) <= SumIn(rows, Receipt, {h})
  <2>1. BookedAt(o, Dispatch, h)' <= BookedAt(o, Receipt, h)'
    BY DEF HubStockNonNegative
  <2>2. ASSUME NEW K
        PROVE  BookedAt(o, K, h)' = SumIn(rows, K, {h})
    <3>1. RowsAt(o, K, h)' = {i \in {j \in DOMAIN ledger'[o] : ledger'[o][j].live /\ ledger'[o][j].kind \in K} :
                                ledger'[o][i].hub = h}
      BY DEF RowsAt, Rows
    <3>2. RowsAt(o, K, h)' = RowsIn(rows, K, {h})
      BY <1>3, <3>1 DEF RowsIn
    <3> QED
      BY <1>3, <3>2 DEF BookedAt, SumIn
  <2>3. /\ BookedAt(o, Dispatch, h)' = SumIn(rows, Dispatch, {h})
        /\ BookedAt(o, Receipt, h)' = SumIn(rows, Receipt, {h})
    BY <2>2 DEF Dispatch, Receipt
  <2> QED
    BY <2>1, <2>3
<1>5. Recounted(o, rows) \in OrderRecord /\ Sound(Recounted(o, rows), rows)
  BY <1>1, <1>2, <1>4, RecountSound
<1>6. ASSUME NEW p \in Orders
      PROVE  Sound(order'[p], ledger'[p]) /\ Carries(ledger'[p])
  <2>1. CASE p = o
    BY <1>3, <1>5, <2>1
  <2>2. CASE p # o
    <3>1. order'[p] = order[p] /\ ledger'[p] = ledger[p]
      BY <1>1, <1>2, <2>2
    <3> QED
      BY <1>2, <3>1 DEF AllSound, AllCarry
  <2> QED
    BY <2>1, <2>2
<1>7. TypeOK'
  BY <1>1, <1>2, <1>5 DEF TypeOK
<1> QED
  BY <1>6, <1>7 DEF Books, AllSound, AllCarry

(* Each of the three corrections recounts one order over invoices that      *)
(* still carry packages on the same trips.                                  *)
LEMMA CorrectionIsRecount ==
  ASSUME TypeOK, AllCarry, InvoiceCorrection
  PROVE  /\ \E o \in Orders, rows \in Seq(RowRecord) :
              /\ Correct(o, rows) /\ Carries(rows)
              /\ DOMAIN rows = DOMAIN ledger[o]
              /\ \A j \in DOMAIN rows : rows[j].trip = ledger[o][j].trip
         /\ line' \in [Trips -> [Orders -> LineRecord]]
<1>1. PICK o \in Orders : \E i \in DOMAIN ledger[o] :
        \/ DeleteTransaction(o, i)
        \/ RestoreTransaction(o, i)
        \/ \E q \in 1 .. MaxQty : UpdateTransactionQuantity(o, i, q)
  BY DEF InvoiceCorrection
<1>2. PICK i \in DOMAIN ledger[o] :
        \/ DeleteTransaction(o, i)
        \/ RestoreTransaction(o, i)
        \/ \E q \in 1 .. MaxQty : UpdateTransactionQuantity(o, i, q)
  BY <1>1
<1> DEFINE s == ledger[o]
           Recount(rows) == /\ Correct(o, rows) /\ Carries(rows)
                            /\ DOMAIN rows = DOMAIN s
                            /\ \A j \in DOMAIN rows : rows[j].trip = s[j].trip
<1>3. s \in Seq(RowRecord) /\ Carries(s) /\ line \in [Trips -> [Orders -> LineRecord]]
  BY DEF TypeOK, AllCarry
<1>4. s[i] \in RowRecord /\ s[i].qty > 0
  <2>1. i \in 1 .. Len(s)
    BY <1>3, LenProperties
  <2> QED
    BY <1>3, <2>1, ElementOfSeq DEF Carries
<1>5. ASSUME NEW r \in RowRecord, r.qty > 0, r.kind = s[i].kind, r.trip = s[i].trip,
             Correct(o, [s EXCEPT ![i] = r])
      PROVE  \E rows \in Seq(RowRecord) : Recount(rows)
  <2> DEFINE rows == [s EXCEPT ![i] = r]
  <2>1. rows \in Seq(RowRecord) /\ Carries(rows)
    BY <1>3, <1>4, <1>5, CorrectedInvoices
  <2>2. DOMAIN rows = DOMAIN s /\ \A j \in DOMAIN s : rows[j] = IF j = i THEN r ELSE s[j]
    OBVIOUS
  <2>3. Correct(o, rows)
    BY <1>5
  <2> HIDE DEF rows
  <2>4. Recount(rows)
    BY <1>5, <2>1, <2>2, <2>3
  <2> QED
    BY <2>1, <2>4
<1>6. ASSUME NEW b \in BOOLEAN, Correct(o, [ledger[o] EXCEPT ![i].live = b])
      PROVE  \E rows \in Seq(RowRecord) : Recount(rows)
  <2>1. [s[i] EXCEPT !.live = b] \in RowRecord /\ [s[i] EXCEPT !.live = b].qty = s[i].qty
        /\ [s[i] EXCEPT !.live = b].kind = s[i].kind /\ [s[i] EXCEPT !.live = b].trip = s[i].trip
    BY <1>4 DEF RowRecord
  <2>2. Correct(o, [s EXCEPT ![i] = [s[i] EXCEPT !.live = b]])
    BY <1>6
  <2> HIDE DEF Recount, s
  <2> QED
    BY <1>4, <1>5, <2>1, <2>2
<1>7. CASE DeleteTransaction(o, i) \/ RestoreTransaction(o, i)
  <2>1. PICK b \in BOOLEAN : Correct(o, [ledger[o] EXCEPT ![i].live = b])
    BY <1>7 DEF DeleteTransaction, RestoreTransaction
  <2>2. line' = line
    BY <1>7 DEF DeleteTransaction, RestoreTransaction
  <2>3. \E rows \in Seq(RowRecord) : Recount(rows)
    BY <1>6, <2>1
  <2> QED
    BY <1>3, <2>2, <2>3
<1>8. ASSUME NEW q \in 1 .. MaxQty, UpdateTransactionQuantity(o, i, q)
      PROVE  /\ \E rows \in Seq(RowRecord) : Recount(rows)
             /\ line' \in [Trips -> [Orders -> LineRecord]]
  <2> DEFINE t == s[i].trip
  <2>1. q \in Nat /\ q > 0
    BY BoundsAssumption
  <2>2. [s[i] EXCEPT !.qty = q] \in RowRecord /\ [s[i] EXCEPT !.qty = q].qty = q
        /\ [s[i] EXCEPT !.qty = q].kind = s[i].kind /\ [s[i] EXCEPT !.qty = q].trip = s[i].trip
    BY <1>4, <2>1 DEF RowRecord
  <2>3. Correct(o, [s EXCEPT ![i] = [s[i] EXCEPT !.qty = q]])
    BY <1>8 DEF UpdateTransactionQuantity
  <2>4. line' = line \/ line' = [line EXCEPT ![t] = [line[t] EXCEPT ![o] = [line[t][o] EXCEPT !.qty = q]]]
    BY <1>8 DEF UpdateTransactionQuantity
  <2>5. \E rows \in Seq(RowRecord) : Recount(rows)
    <3> HIDE DEF Recount, s
    <3> QED
      BY <1>5, <2>1, <2>2, <2>3
  <2> HIDE DEF t
  <2>6. ASSUME t \in Trips
        PROVE  [line[t] EXCEPT ![o] = [line[t][o] EXCEPT !.qty = q]] \in [Orders -> LineRecord]
    <3>1. line[t] \in [Orders -> LineRecord] /\ line[t][o] \in LineRecord
      BY <1>3, <2>6
    <3>2. [line[t][o] EXCEPT !.qty = q] \in LineRecord
      BY <2>1, <3>1 DEF LineRecord
    <3> QED
      BY <3>1, <3>2
  <2>7. line' \in [Trips -> [Orders -> LineRecord]]
    BY <1>3, <2>4, <2>6
  <2> QED
    BY <2>5, <2>7
<1> QED
  BY <1>2, <1>7, <1>8

LEMMA CarefulCorrectionKeepsBooks == Books /\ CarefulCorrection => Books'
<1> SUFFICES ASSUME Books, CarefulCorrection PROVE Books'
  OBVIOUS
<1>1. TypeOK /\ AllCarry /\ InvoiceCorrection /\ HubStockNonNegative'
  BY DEF Books, CarefulCorrection
<1> QED
  BY <1>1, CorrectionIsRecount, CorrectKeepsBooks

-----------------------------------------------------------------------------
(* Dispatches taken back: rollbackTrip on the side of the dispatch.  For one *)
(* order, s are its invoices, R the ones reversed and z what is left.       *)

Without(s, R) == [i \in DOMAIN s |-> IF i \in R THEN [s[i] EXCEPT !.live = FALSE] ELSE s[i]]

LEMMA ReversedInvoices ==
  ASSUME NEW s \in Seq(RowRecord), NEW R \in SUBSET DOMAIN s, Carries(s)
  PROVE  /\ Without(s, R) \in Seq(RowRecord) /\ Carries(Without(s, R))
         /\ DOMAIN Without(s, R) = DOMAIN s
         /\ \A i \in DOMAIN s : /\ Without(s, R)[i].qty = s[i].qty
                                /\ Without(s, R)[i].kind = s[i].kind
                                /\ Without(s, R)[i].hub = s[i].hub
                                /\ i \in R => ~Without(s, R)[i].live
                                /\ i \notin R => Without(s, R)[i].live = s[i].live
<1> DEFINE z == Without(s, R)
<1>1. DOMAIN s = 1 .. Len(s) /\ Len(s) \in Nat
  BY LenProperties
<1>2. \A i \in DOMAIN s : s[i] \in RowRecord
  BY <1>1, ElementOfSeq
<1>3. DOMAIN z = DOMAIN s
  BY DEF Without
<1>4. ASSUME NEW i \in DOMAIN s
      PROVE  /\ z[i] \in RowRecord
             /\ z[i].qty = s[i].qty /\ z[i].kind = s[i].kind /\ z[i].hub = s[i].hub
             /\ i \in R => ~z[i].live
             /\ i \notin R => z[i].live = s[i].live
  <2>1. z[i] = IF i \in R THEN [s[i] EXCEPT !.live = FALSE] ELSE s[i]
    BY DEF Without
  <2>2. s[i] \in RowRecord
    BY <1>2
  <2> HIDE DEF z
  <2>3. CASE i \in R
    <3>1. z[i] = [s[i] EXCEPT !.live = FALSE]
      BY <2>1, <2>3
    <3> QED
      BY <2>2, <2>3, <3>1 DEF RowRecord
  <2>4. CASE i \notin R
    <3>1. z[i] = s[i]
      BY <2>1, <2>4
    <3> QED
      BY <2>2, <2>4, <3>1
  <2> QED
    BY <2>3, <2>4
<1>5. z \in Seq(RowRecord)
  <2>1. z \in [1 .. Len(s) -> RowRecord]
    BY <1>1, <1>4 DEF Without
  <2> HIDE DEF z
  <2> QED
    BY <1>1, <2>1
<1>6. Carries(z)
  BY <1>3, <1>4 DEF Carries
<1> HIDE DEF z
<1>7. z \in Seq(RowRecord) /\ Carries(z) /\ DOMAIN z = DOMAIN s
  BY <1>3, <1>5, <1>6
<1> QED
  BY <1>4, <1>7 DEF z

(* The packages of the reversed dispatches leave the dispatched sums. *)
LEMMA ReversedSums ==
  ASSUME NEW s \in Seq(RowRecord), NEW R \in SUBSET RowsIn(s, Dispatch, Hubs), Carries(s)
  PROVE  /\ QtyOf(s, R) \in Nat
         /\ SumIn(s, Dispatch, Hubs) = SumIn(Without(s, R), Dispatch, Hubs) + QtyOf(s, R)
         /\ \A H : SumIn(Without(s, R), Dispatch, H) <= SumIn(s, Dispatch, H)
         /\ \A H : SumIn(Without(s, R), Receipt, H) = SumIn(s, Receipt, H)
         /\ \A K, H : RowsIn(Without(s, R), K, H) \subseteq RowsIn(s, K, H)
<1> DEFINE z == Without(s, R)
<1>1. R \in SUBSET DOMAIN s
  BY DEF RowsIn
<1>2. /\ DOMAIN z = DOMAIN s
      /\ \A i \in DOMAIN s : /\ z[i].qty = s[i].qty /\ z[i].kind = s[i].kind /\ z[i].hub = s[i].hub
                             /\ i \in R => ~z[i].live
                             /\ i \notin R => z[i].live = s[i].live
  BY <1>1, ReversedInvoices
<1> HIDE DEF z
<1>3. \A K, H : RowsIn(z, K, H) = RowsIn(s, K, H) \ R
  BY <1>2 DEF RowsIn
<1>4. \A K, H : SumIn(z, K, H) = QtyOf(s, RowsIn(s, K, H) \ R)
  <2> SUFFICES ASSUME NEW K, NEW H PROVE SumIn(z, K, H) = QtyOf(s, RowsIn(s, K, H) \ R)
    OBVIOUS
  <2> DEFINE I == RowsIn(s, K, H) \ R
  <2>1. \A i \in I : z[i].qty = s[i].qty
    BY <1>2 DEF RowsIn
  <2>2. SumIn(z, K, H) = QtyOf(z, I)
    BY <1>3 DEF SumIn
  <2> HIDE DEF I
  <2>3. QtyOf(z, I) = QtyOf(s, I)
    BY <2>1, QtySame
  <2> QED
    BY <2>2, <2>3 DEF I
<1>5. \A K, H : /\ IsFiniteSet(RowsIn(s, K, H))
                /\ \A i \in RowsIn(s, K, H) : s[i].qty \in Nat
                /\ SumIn(s, K, H) \in Nat
  BY RowsInFinite
<1>6. IsFiniteSet(R) /\ \A i \in R : s[i].qty \in Nat
  BY <1>5, FS_Subset
<1>7. QtyOf(s, R) \in Nat
  BY <1>6, QtyFinite
<1>8. SumIn(s, Dispatch, Hubs) = SumIn(z, Dispatch, Hubs) + QtyOf(s, R)
  <2> DEFINE I == RowsIn(s, Dispatch, Hubs) \ R
  <2>1. IsFiniteSet(I) /\ I \cap R = {} /\ I \cup R = RowsIn(s, Dispatch, Hubs)
        /\ \A i \in I \cup R : s[i].qty \in Nat
    BY <1>5, FS_Subset
  <2> HIDE DEF I
  <2>2. QtyOf(s, I \cup R) = QtyOf(s, I) + QtyOf(s, R)
    BY <1>6, <2>1, QtyUnion
  <2> QED
    BY <1>4, <2>1, <2>2 DEF SumIn, I
<1>9. ASSUME NEW H
      PROVE  SumIn(z, Dispatch, H) <= SumIn(s, Dispatch, H) /\ SumIn(z, Receipt, H) = SumIn(s, Receipt, H)
  <2>1. QtyOf(s, RowsIn(s, Dispatch, H) \ R) <= SumIn(s, Dispatch, H)
    BY <1>5, QtyMonotone DEF SumIn
  <2>2. RowsIn(s, Receipt, H) \ R = RowsIn(s, Receipt, H)
    BY DEF RowsIn, Receipt, Dispatch
  <2> QED
    BY <1>4, <2>1, <2>2 DEF SumIn
<1>10. \A K, H : RowsIn(z, K, H) \subseteq RowsIn(s, K, H)
  BY <1>3
<1> QED
  BY <1>7, <1>8, <1>9, <1>10 DEF z

LEMMA UndispatchType ==
  ASSUME NEW ord \in OrderRecord, NEW q \in Nat
  PROVE  Undispatch(ord, q) \in OrderRecord
<1>1. ASSUME NEW out \in Nat, NEW rem \in Nat, NEW st \in Stored
      PROVE  [ord EXCEPT !.outb = out, !.rem = rem, !.status = st] \in OrderRecord
  BY DEF OrderRecord
<1>2. ord.outb \in Nat /\ ord.rem \in Nat
  BY DEF OrderRecord
<1>3. Monus(ord.outb, q) \in Nat
  BY <1>2, MonusNat, Zenon
<1>3a. ord.rem + q \in Nat /\ "INBOUND" \in Stored
  BY <1>2 DEF Stored
<1>4. [ord EXCEPT !.outb = Monus(ord.outb, q), !.rem = ord.rem + q, !.status = "INBOUND"] \in OrderRecord
  BY <1>1, <1>3, <1>3a, Zenon
<1> QED
  BY <1>4 DEF Undispatch

(* An order whose dispatches are given back agrees with what is left. *)
LEMMA UndispatchSound ==
  ASSUME TypeOK, NEW o \in Orders, Sound(order[o], ledger[o]), Carries(ledger[o]),
         NEW R \in SUBSET RowsIn(ledger[o], Dispatch, Hubs)
  PROVE  LET q == QtyOf(ledger[o], R)
             new == Undispatch(order[o], q)
         IN new \in OrderRecord /\ (IsLive(o) => Sound(new, Without(ledger[o], R)))
                /\ (~IsLive(o) => Sound(order[o], Without(ledger[o], R)))
<1> DEFINE s == ledger[o]
           ord == order[o]
           q == QtyOf(s, R)
           z == Without(s, R)
           new == Undispatch(ord, q)
<1>1. /\ ord \in OrderRecord /\ s \in Seq(RowRecord)
      /\ ord.status \in {Unborn} \cup DraftLike \cup Stored
      /\ ord.inb \in Nat /\ ord.outb \in Nat /\ ord.rem \in Nat
      /\ DraftLike \cap Stored = {} /\ Unborn \notin DraftLike \cup Stored
      /\ "INBOUND" \in Stored
      /\ Receipt \in SUBSET Kinds /\ Dispatch \in SUBSET Kinds
  BY StatusKinds
<1>2. /\ q \in Nat
      /\ SumIn(s, Dispatch, Hubs) = SumIn(z, Dispatch, Hubs) + q
      /\ \A H : SumIn(z, Dispatch, H) <= SumIn(s, Dispatch, H)
      /\ \A H : SumIn(z, Receipt, H) = SumIn(s, Receipt, H)
      /\ \A K, H : RowsIn(z, K, H) \subseteq RowsIn(s, K, H)
  BY <1>1, ReversedSums
<1>3. z \in Seq(RowRecord)
  BY <1>1, ReversedInvoices DEF RowsIn
<1> HIDE DEF z, q
<1>4. \A H : /\ SumIn(s, Dispatch, H) \in Nat /\ SumIn(s, Receipt, H) \in Nat
             /\ SumIn(z, Dispatch, H) \in Nat /\ SumIn(z, Receipt, H) \in Nat
  BY <1>1, <1>3, RowsInFinite
<1>5. \A H \in SUBSET Hubs : SumIn(z, Dispatch, H) <= SumIn(z, Receipt, H)
  BY <1>2, <1>4 DEF Sound
<1>6. new \in OrderRecord
  BY <1>1, <1>2, UndispatchType
<1>7. ASSUME RowsIn(s, Kinds, Hubs) = {}
      PROVE  q = 0 /\ RowsIn(z, Kinds, Hubs) = {}
  <2>1. R = {}
    BY <1>7 DEF RowsIn, Kinds
  <2> QED
    BY <1>2, <1>7, <2>1, QtyEmpty DEF q
<1>8. ~IsLive(o) => Sound(ord, z)
  BY <1>5, <1>7 DEF Sound, IsLive
<1>9. ASSUME IsLive(o)
      PROVE  Sound(new, z)
  <2>1. CASE ord.status \in DraftLike
    <3>1. q = 0 /\ RowsIn(z, Kinds, Hubs) = {}
      BY <1>7, <2>1 DEF Sound
    <3>2. new = ord
      BY <3>1 DEF Undispatch
    <3> QED
      BY <1>1, <1>5, <2>1, <3>1, <3>2 DEF Sound
  <2>2. CASE ord.status \notin DraftLike
    <3>1. /\ ord.live /\ ord.status \in Stored
          /\ ord.inb = SumIn(s, Receipt, Hubs) /\ ord.outb = SumIn(s, Dispatch, Hubs)
          /\ ord.rem + ord.outb = ord.inb
      BY <1>1, <1>9, <2>2 DEF Sound, IsLive
    <3>2. /\ new.live /\ new.status \in Stored /\ new.inb = ord.inb
          /\ new.outb = Monus(ord.outb, q) /\ new.rem = ord.rem + q
      BY <1>1, <1>2, <3>1 DEF Undispatch, OrderRecord, Monus
    <3>3. Monus(ord.outb, q) = SumIn(z, Dispatch, Hubs) /\ SumIn(z, Dispatch, Hubs) + q = ord.outb
      BY <1>2, <1>4, <3>1 DEF Monus
    <3> HIDE DEF new
    <3>4. new.outb = SumIn(z, Dispatch, Hubs) /\ new.inb = SumIn(z, Receipt, Hubs)
          /\ new.rem + new.outb = new.inb
      BY <1>1, <1>2, <1>4, <3>1, <3>2, <3>3
    <3> QED
      BY <1>1, <1>5, <3>2, <3>4 DEF Sound
  <2> QED
    BY <2>1, <2>2
<1> QED
  BY <1>6, <1>8, <1>9 DEF q, z

(* Which invoices of an order a rollback of the dispatch side reverses. *)
Reversed(o, t, at) == {i \in DOMAIN ledger[o] : Reverses(ledger[o][i], t, at)}

LEMMA TakenBackOrder ==
  ASSUME TypeOK, NEW o \in Orders, Sound(order[o], ledger[o]), Carries(ledger[o]),
         NEW t \in Codes, NEW at \in Hubs \cup {NoHub}, ReopensDispatch(t, at)
  PROVE  LET z == Without(ledger[o], Reversed(o, t, at))
             new == RolledBackOrder(o, t, at)
         IN new \in OrderRecord /\ z \in Seq(RowRecord) /\ Carries(z) /\ Sound(new, z)
<1> DEFINE s == ledger[o]
           R == Reversed(o, t, at)
           z == Without(s, R)
           new == RolledBackOrder(o, t, at)
           ord == Undispatch(order[o], QtyOf(s, R))
<1>1. order[o] \in OrderRecord /\ s \in Seq(RowRecord)
  BY StatusKinds
<1>2. R \in SUBSET RowsIn(s, Dispatch, Hubs)
  <2>1. DOMAIN s = 1 .. Len(s)
    BY <1>1, LenProperties
  <2>2. \A i \in DOMAIN s : s[i] \in RowRecord
    BY <1>1, <2>1, ElementOfSeq
  <2>3. \A i \in DOMAIN s : s[i].hub \in Hubs
    BY <2>2 DEF RowRecord
  <2> QED
    BY <2>3 DEF Reversed, Reverses, ReversedKinds, RowsIn
<1>3. z \in Seq(RowRecord) /\ Carries(z)
  <2>1. R \in SUBSET DOMAIN s
    BY DEF Reversed
  <2> QED
    BY <1>1, <2>1, ReversedInvoices
<1>4. /\ ord \in OrderRecord
      /\ IsLive(o) => Sound(ord, z)
      /\ ~IsLive(o) => Sound(order[o], z)
  BY <1>2, UndispatchSound
<1>5. new = IF ~IsLive(o) THEN order[o]
            ELSE IF (QtyOf(s, R) > 0 \/ LiveLine(t, o)) /\ ord.trip = t THEN [ord EXCEPT !.trip = NoTrip]
            ELSE ord
  BY DEF RolledBackOrder, Reversed
<1> HIDE DEF new, ord, z
<1>6. CASE ~IsLive(o)
  BY <1>1, <1>3, <1>4, <1>5, <1>6 DEF z, new
<1>7. CASE IsLive(o)
  <2>1. new = ord \/ new = [ord EXCEPT !.trip = NoTrip]
    BY <1>5, <1>7
  <2>2. /\ new \in OrderRecord /\ new.live = ord.live /\ new.status = ord.status
        /\ new.inb = ord.inb /\ new.outb = ord.outb /\ new.rem = ord.rem
    BY <1>4, <2>1 DEF OrderRecord, NoTrip
  <2>3. Sound(new, z)
    BY <1>4, <1>7, <2>2 DEF Sound
  <2> QED
    BY <1>3, <2>2, <2>3 DEF z, new
<1> QED
  BY <1>6, <1>7

(* A rollback of the dispatch side, order by order, and the tables it leaves. *)
LEMMA TakenBackTables ==
  ASSUME TypeOK, NEW t \in Codes, NEW at \in Hubs \cup {NoHub}, RollbackTrip(t, at)
  PROVE  /\ \A o \in Orders : /\ order'[o] = RolledBackOrder(o, t, at)
                               /\ ledger'[o] = Without(ledger[o], Reversed(o, t, at))
         /\ (\A o \in Orders : order'[o] \in OrderRecord /\ ledger'[o] \in Seq(RowRecord)) => TypeOK'
<1>1. ASSUME NEW o \in Orders
      PROVE  ledger'[o] = Without(ledger[o], Reversed(o, t, at))
  <2>1. ledger'[o] = [i \in DOMAIN ledger[o] |->
                        IF Reverses(ledger[o][i], t, at) THEN [ledger[o][i] EXCEPT !.live = FALSE]
                        ELSE ledger[o][i]]
    BY DEF RollbackTrip
  <2>2. \A i \in DOMAIN ledger[o] : i \in Reversed(o, t, at) <=> Reverses(ledger[o][i], t, at)
    BY DEF Reversed
  <2> QED
    BY <2>1, <2>2 DEF Without
<1>2. order' = [o \in Orders |-> order'[o]] /\ ledger' = [o \in Orders |-> ledger'[o]]
  BY DEF RollbackTrip
<1>3. line' \in [Trips -> [Orders -> LineRecord]]
  <2>1. t \in Trips
    BY CodesAreTrips
  <2>2. line \in [Trips -> [Orders -> LineRecord]]
    BY DEF TypeOK
  <2>3. ASSUME NEW o \in Orders
        PROVE  (IF LiveLine(t, o) THEN [line[t][o] EXCEPT !.status = "PENDING"] ELSE line[t][o]) \in LineRecord
    <3>1. line[t][o] \in LineRecord
      BY <2>1, <2>2
    <3>2. [line[t][o] EXCEPT !.status = "PENDING"] \in LineRecord
      BY <3>1 DEF LineRecord
    <3> QED
      BY <3>1, <3>2
  <2>4. line' = [line EXCEPT ![t] = [o \in Orders |->
                   IF LiveLine(t, o) THEN [line[t][o] EXCEPT !.status = "PENDING"] ELSE line[t][o]]]
    BY DEF RollbackTrip, ReopenedLine
  <2> QED
    BY <2>2, <2>3, <2>4
<1>4. stop' \in [Trips -> [Hubs -> {"NONE", "DELETED", "PENDING", "COMPLETED"}]] /\ lastTrip' = lastTrip
  BY DEF RollbackTrip, TypeOK
<1>5. ASSUME \A o \in Orders : order'[o] \in OrderRecord /\ ledger'[o] \in Seq(RowRecord)
      PROVE  TypeOK'
  <2>1. order' \in [Orders -> OrderRecord] /\ ledger' \in [Orders -> Seq(RowRecord)]
    BY <1>2, <1>5
  <2> QED
    BY <1>3, <1>4, <2>1 DEF TypeOK
<1>6. \A o \in Orders : order'[o] = RolledBackOrder(o, t, at)
  BY DEF RollbackTrip
<1> QED
  BY <1>1, <1>5, <1>6

LEMMA TakeBackKeepsBooks == Books /\ TakeBack => Books'
<1> SUFFICES ASSUME Books, NEW t \in Codes, NEW at \in Hubs \cup {NoHub},
                    ReopensDispatch(t, at), RollbackTrip(t, at)
             PROVE  Books'
  BY DEF TakeBack
<1>1. TypeOK /\ AllSound /\ AllCarry
  BY DEF Books
<1>2. ASSUME NEW o \in Orders
      PROVE  /\ order'[o] \in OrderRecord
             /\ ledger'[o] \in Seq(RowRecord) /\ Carries(ledger'[o])
             /\ Sound(order'[o], ledger'[o])
  <2>1. Sound(order[o], ledger[o]) /\ Carries(ledger[o])
    BY <1>1 DEF AllSound, AllCarry
  <2> QED
    BY <1>1, <2>1, TakenBackTables, TakenBackOrder
<1>3. TypeOK'
  BY <1>1, <1>2, TakenBackTables
<1> QED
  BY <1>2, <1>3 DEF Books, AllSound, AllCarry

-----------------------------------------------------------------------------
(* The books of an orderly administrator. *)

LEMMA BooksInit == Init => Books
<1>1. Init => AllCarry
  BY DEF Init, AllCarry, Carries
<1> QED
  BY <1>1, InitType, InitSound DEF Books

LEMMA BooksStep == Books /\ [Routine \/ CarefulCorrection \/ TakeBack]_everything => Books'
<1> SUFFICES ASSUME Books, [Routine \/ CarefulCorrection \/ TakeBack]_everything
             PROVE  Books'
  OBVIOUS
<1>1. TypeOK /\ AllSound /\ AllCarry
  BY DEF Books
<1>2. ASSUME [RoutineNext]_vars
      PROVE  Books'
  <2>1. TypeOK'
    BY <1>1, <1>2, TypeStep, RoutineAllowed
  <2> QED
    BY <1>1, <1>2, <2>1, SoundStep, RoutineCarries DEF Books
<1>3. CASE UNCHANGED everything
  <2>1. UNCHANGED vars
    BY <1>3 DEF everything, vars
  <2> QED
    BY <1>2, <2>1
<1> QED
  BY <1>2, <1>3, CarefulCorrectionKeepsBooks, TakeBackKeepsBooks DEF Routine

LEMMA BooksMean == Books => CorrectionsKeepTheBooks
BY SoundMeans DEF Books, CorrectionsKeepTheBooks

(* Whatever an administrator corrects (deleteTransaction, restoreTransaction, *)
(* updateTransactionQuantity, as long as no hub is left with more dispatched *)
(* than received) or takes back (rollbackTrip of a dispatch) between the     *)
(* daily handlers: the counters are the sums of the invoices, what remains  *)
(* is what the hubs hold, and no hub ships what it never received.          *)
THEOREM OrderlyBooksAreKept == OrderlySpec => []CorrectionsKeepTheBooks
<1>1. CorrectionsInit => Books
  BY BooksInit DEF CorrectionsInit
<1>2. Books /\ [Routine \/ CarefulCorrection \/ TakeBack]_everything => Books'
  BY BooksStep
<1>3. Books => CorrectionsKeepTheBooks
  BY BooksMean
<1> QED
  BY <1>1, <1>2, <1>3, PTL DEF OrderlySpec

(* The administrator of the run is orderly: the theorem covers its worlds.  *)
LEMMA AdministratorIsOrderly == AdministratorSpec => OrderlySpec
<1>1. OrderlyInit => CorrectionsInit
  BY DEF OrderlyInit
<1>2. [OrderlyWork /\ UNCHANGED work]_<<everything, work>>
        => [Routine \/ CarefulCorrection \/ TakeBack]_everything
  BY DEF OrderlyWork
<1> QED
  BY <1>1, <1>2, PTL DEF AdministratorSpec, OrderlySpec

-----------------------------------------------------------------------------
(***************************************************************************)
(* Corrections without care.  Whatever is corrected, restored or taken back *)
(* between whatever the daily handlers accept, no contract is left below    *)
(* what was received.  Hubs may oversell, so orders are not Sound; they     *)
(* stay Clean but for one part, that a trip is received once per hub: an    *)
(* invoice restored may stand beside the one that replaced it.  That every  *)
(* invoice carries packages is needed again: a recount that finds no        *)
(* package makes the order a draft, and a draft must have no dispatch that  *)
(* could be taken back, or it would be stored with a contract it no longer  *)
(* has.                                                                     *)
(***************************************************************************)
Contracts == TypeOK /\ AllCarry /\ CleanFor({})

LEMMA CorrectedTables ==
  ASSUME TypeOK, AllCarry, NEW o \in Orders, NEW rows \in Seq(RowRecord), Carries(rows), Correct(o, rows),
         line' \in [Trips -> [Orders -> LineRecord]]
  PROVE  /\ order' = [order EXCEPT ![o] = Recounted(o, rows)] /\ ledger' = [ledger EXCEPT ![o] = rows]
         /\ Recounted(o, rows).live /\ Recounted(o, rows).trip = order[o].trip
         /\ Recounted(o, rows).inb = Recounted(o, rows).total
         /\ Recounted(o, rows).status \in DraftLike \cup Stored
         /\ Recounted(o, rows).status \in DraftLike => \A i \in DOMAIN rows : ~rows[i].live
         /\ TypeOK' /\ AllCarry' /\ lastTrip' = lastTrip
<1> DEFINE inb == SumOf(rows, Receipt)
           outb == SumOf(rows, Dispatch)
           new == Recounted(o, rows)
<1>1. /\ IsLive(o) /\ Balanced(rows)
      /\ ledger' = [ledger EXCEPT ![o] = rows]
      /\ order' = [order EXCEPT ![o] = new]
      /\ stop' = stop /\ lastTrip' = lastTrip
  BY DEF Correct
<1>2. /\ inb = SumIn(rows, Receipt, Hubs) /\ outb = SumIn(rows, Dispatch, Hubs)
      /\ inb \in Nat /\ outb \in Nat /\ outb <= inb
  BY <1>1, CorrectionSums DEF Balanced
<1>3. order[o] \in OrderRecord /\ order[o].live
  BY <1>1, StatusKinds DEF IsLive
<1>4. new = [order[o] EXCEPT !.total = inb, !.inb = inb, !.outb = outb, !.rem = Monus(inb, outb),
                             !.status = CorrectedStatus(inb, outb)]
  BY DEF Recounted
<1>5. /\ CorrectedStatus(inb, outb) \in DraftLike \cup Stored
      /\ inb # 0 => CorrectedStatus(inb, outb) \in Stored
  BY <1>2, CorrectedStatusKinds
<1>6. Monus(inb, outb) \in Nat
  BY <1>2, MonusNat
<1> HIDE DEF inb, outb, new
<1>7. /\ new.live /\ new.trip = order[o].trip /\ new.inb = inb /\ new.total = inb
      /\ new.status = CorrectedStatus(inb, outb)
      /\ new \in OrderRecord
  BY <1>2, <1>3, <1>4, <1>5, <1>6 DEF OrderRecord
<1>8. ASSUME new.status \in DraftLike
      PROVE  \A i \in DOMAIN rows : ~rows[i].live
  <2>1. inb = 0 /\ outb = 0
    BY <1>2, <1>5, <1>7, <1>8, StatusKinds
  <2>2. RowsIn(rows, Kinds, Hubs) = {}
    BY <1>2, <2>1, NothingBooked
  <2>3. \A i \in DOMAIN rows : rows[i] \in RowRecord
    BY LenProperties, ElementOfSeq
  <2>4. \A i \in DOMAIN rows : rows[i].kind \in Kinds /\ rows[i].hub \in Hubs
    BY <2>3 DEF RowRecord
  <2> QED
    BY <2>2, <2>4 DEF RowsIn
<1>9. TypeOK'
  BY <1>1, <1>7 DEF TypeOK
<1>10. AllCarry'
  <2>1. ledger \in [Orders -> Seq(RowRecord)]
    BY DEF TypeOK
  <2> QED
    BY <1>1, <2>1 DEF AllCarry
<1> QED
  BY <1>1, <1>5, <1>7, <1>8, <1>9, <1>10 DEF new

LEMMA CorrectionKeepsContracts == Contracts /\ InvoiceCorrection => Contracts'
<1> SUFFICES ASSUME Contracts, InvoiceCorrection PROVE Contracts'
  OBVIOUS
<1>1. TypeOK /\ AllCarry /\ CleanFor({})
  BY DEF Contracts
<1>2. PICK o \in Orders, rows \in Seq(RowRecord) :
        /\ Correct(o, rows) /\ Carries(rows)
        /\ DOMAIN rows = DOMAIN ledger[o]
        /\ \A j \in DOMAIN rows : rows[j].trip = ledger[o][j].trip
  BY <1>1, CorrectionIsRecount
<1>3. line' \in [Trips -> [Orders -> LineRecord]]
  BY <1>1, CorrectionIsRecount
<1> DEFINE new == Recounted(o, rows)
<1>4. /\ order' = [order EXCEPT ![o] = new] /\ ledger' = [ledger EXCEPT ![o] = rows]
      /\ new.live /\ new.trip = order[o].trip /\ new.inb = new.total
      /\ new.status \in DraftLike \cup Stored
      /\ new.status \in DraftLike => \A i \in DOMAIN rows : ~rows[i].live
      /\ TypeOK' /\ AllCarry' /\ lastTrip' = lastTrip
  BY <1>1, <1>2, <1>3, CorrectedTables
<1>5. ASSUME NEW p \in Orders
      PROVE  Clean(order'[p], ledger'[p], lastTrip, {})
  <2>1. Clean(order[p], ledger[p], lastTrip, {})
    BY <1>1 DEF CleanFor
  <2>2. order \in [Orders -> OrderRecord] /\ ledger \in [Orders -> Seq(RowRecord)]
    BY <1>1 DEF TypeOK
  <2>3. CASE p # o
    BY <1>4, <2>1, <2>2, <2>3
  <2>4. CASE p = o
    <3>1. order'[p] = new /\ ledger'[p] = rows
      BY <1>4, <2>2, <2>4
    <3>2. order'[o] \in OrderRecord
      BY <1>4 DEF TypeOK
    <3>3. new \in OrderRecord
      BY <2>4, <3>1, <3>2
    <3> HIDE DEF new
    <3>4. new.inb \in Nat /\ new.status # Unborn /\ (Unstocked(new) => new.status \in DraftLike)
      BY <1>1, <1>4, <3>3, OrderFacts DEF Unstocked, OrderRecord
    <3>5. new.trip <= lastTrip /\ \A i \in DOMAIN rows : rows[i].trip <= lastTrip
      BY <1>2, <1>4, <2>1, <2>4 DEF Clean
    <3>6. new.inb <= new.total
      BY <1>4, <3>4
    <3>7. Clean(new, rows, lastTrip, {})
      BY <1>4, <3>4, <3>5, <3>6 DEF Clean
    <3> QED
      BY <3>1, <3>7
  <2> QED
    BY <2>3, <2>4
<1> HIDE DEF new
<1> QED
  BY <1>4, <1>5 DEF Contracts, CleanFor

(* A dispatch taken back touches neither what was received nor the contract. *)
LEMMA TakenBackClean ==
  ASSUME TypeOK, NEW o \in Orders, Clean(order[o], ledger[o], lastTrip, {}), Carries(ledger[o]),
         NEW t \in Codes, NEW at \in Hubs \cup {NoHub}, ReopensDispatch(t, at)
  PROVE  LET z == Without(ledger[o], Reversed(o, t, at))
             new == RolledBackOrder(o, t, at)
         IN new \in OrderRecord /\ z \in Seq(RowRecord) /\ Carries(z) /\ Clean(new, z, lastTrip, {})
<1> DEFINE s == ledger[o]
           R == Reversed(o, t, at)
           z == Without(s, R)
           q == QtyOf(s, R)
           ord == Undispatch(order[o], q)
           new == RolledBackOrder(o, t, at)
<1>1. /\ order[o] \in OrderRecord /\ s \in Seq(RowRecord)
      /\ order[o].status \in {Unborn} \cup DraftLike \cup Stored
      /\ "INBOUND" \in Stored /\ DraftLike \cap Stored = {} /\ Unborn \notin DraftLike \cup Stored
      /\ \A i \in DOMAIN s : s[i] \in RowRecord /\ s[i].trip \in Nat
      /\ lastTrip \in Nat
  BY OrderFacts
<1>2. R \in SUBSET DOMAIN s /\ \A i \in R : s[i].live
  BY DEF Reversed, Reverses
<1>3. /\ z \in Seq(RowRecord) /\ Carries(z) /\ DOMAIN z = DOMAIN s
      /\ \A i \in DOMAIN s : ~s[i].live => ~z[i].live
  <2>1. z \in Seq(RowRecord) /\ Carries(z) /\ DOMAIN z = DOMAIN s
    BY <1>1, <1>2, ReversedInvoices
  <2>2. \A i \in DOMAIN s : i \notin R => z[i] = s[i]
    BY DEF Without
  <2> QED
    BY <1>2, <2>1, <2>2
<1>4. \A i \in DOMAIN s : z[i].trip = s[i].trip
  BY <1>1 DEF Without, RowRecord
<1>5. q \in Nat /\ ord \in OrderRecord
  <2>1. q \in Nat
    BY <1>2, RowsFinite
  <2> HIDE DEF q
  <2> QED
    BY <1>1, <2>1, UndispatchType
<1>6. new = IF ~IsLive(o) THEN order[o]
            ELSE IF (q > 0 \/ LiveLine(t, o)) /\ ord.trip = t THEN [ord EXCEPT !.trip = NoTrip]
            ELSE ord
  BY DEF RolledBackOrder, Reversed
<1>7. Unstocked(order[o]) => q = 0
  <2> SUFFICES ASSUME Unstocked(order[o]) PROVE q = 0
    OBVIOUS
  <2>1. R = {}
    BY <1>2 DEF Clean
  <2> QED
    BY <2>1, QtyEmpty
<1> HIDE DEF q
<1>8. /\ ord.live = order[o].live /\ ord.inb = order[o].inb /\ ord.total = order[o].total
      /\ ord.trip = order[o].trip
      /\ ord.status = order[o].status \/ (~Unstocked(order[o]) /\ ord.status = "INBOUND")
  BY <1>1, <1>5, <1>7 DEF Undispatch, OrderRecord
<1> HIDE DEF ord, new, z, R
<1>9. /\ new \in OrderRecord /\ new.live = order[o].live /\ new.inb = order[o].inb
      /\ new.total = order[o].total /\ new.trip \in {order[o].trip, NoTrip}
      /\ new.status = order[o].status \/ (~Unstocked(order[o]) /\ new.status = "INBOUND")
  <2>1. CASE ~IsLive(o)
    BY <1>1, <1>6, <2>1
  <2>2. CASE IsLive(o)
    <3>1. new = ord \/ new = [ord EXCEPT !.trip = NoTrip]
      BY <1>6, <2>2
    <3> QED
      BY <1>5, <1>8, <3>1 DEF OrderRecord, NoTrip
  <2> QED
    BY <2>1, <2>2
<1>10. /\ new.status = Unborn => ~new.live
       /\ Unstocked(new) => Unstocked(order[o])
       /\ ~Unstocked(new) => ~Unstocked(order[o])
       /\ new.trip <= lastTrip
  BY <1>1, <1>9 DEF Clean, Unstocked, NoTrip
<1>11. Unstocked(new) => \A i \in DOMAIN z : ~z[i].live
  BY <1>3, <1>10 DEF Clean
<1>12. \A i \in DOMAIN z : z[i].trip <= lastTrip
  BY <1>3, <1>4 DEF Clean
<1>13. ~Unstocked(new) => new.inb <= new.total
  BY <1>9, <1>10 DEF Clean
<1>14. Clean(new, z, lastTrip, {})
  BY <1>10, <1>11, <1>12, <1>13 DEF Clean
<1> QED
  BY <1>3, <1>9, <1>14 DEF new, z, R

LEMMA TakeBackKeepsContracts == Contracts /\ TakeBack => Contracts'
<1> SUFFICES ASSUME Contracts, NEW t \in Codes, NEW at \in Hubs \cup {NoHub},
                    ReopensDispatch(t, at), RollbackTrip(t, at)
             PROVE  Contracts'
  BY DEF TakeBack
<1>1. TypeOK /\ AllCarry /\ CleanFor({})
  BY DEF Contracts
<1>2. ASSUME NEW o \in Orders
      PROVE  /\ order'[o] \in OrderRecord
             /\ ledger'[o] \in Seq(RowRecord) /\ Carries(ledger'[o])
             /\ Clean(order'[o], ledger'[o], lastTrip, {})
  <2>1. Clean(order[o], ledger[o], lastTrip, {}) /\ Carries(ledger[o])
    BY <1>1 DEF CleanFor, AllCarry
  <2> QED
    BY <1>1, <2>1, TakenBackTables, TakenBackClean
<1>3. TypeOK' /\ lastTrip' = lastTrip
  BY <1>1, <1>2, TakenBackTables DEF RollbackTrip
<1> QED
  BY <1>2, <1>3 DEF Contracts, AllCarry, CleanFor

LEMMA DailyAllowed == Daily => Next
<1>1. CASE HubNext
  BY <1>1 DEF Next
<1>2. ASSUME NEW load \in Cargo, NEW to \in Hubs \cup {NoHub}, NEW d \in Codes \cup {NoTrip},
             NEW at \in [DOMAIN load -> Hubs], NEW first \in DOMAIN load,
             AdminOutbound(at, first, load, to, d)
      PROVE  Next
  BY <1>2 DEF Next
<1> QED
  BY <1>1, <1>2 DEF Daily

LEMMA DailyKeepsContracts == Contracts /\ [Next]_vars => Contracts'
BY TypeStep, DailyCarries, CleanForStep DEF Contracts

LEMMA ContractsInit == Init => Contracts
BY BooksInit, InitClean DEF Contracts, Books

LEMMA ContractsMean == Contracts => TotalCoversInbound
BY DEF Contracts, CleanFor, Clean, Unstocked, TotalCoversInbound, IsLive, IsDraft

(* Whatever an administrator deletes, restores, corrects (deleteTransaction, *)
(* restoreTransaction, updateTransactionQuantity) or takes back (rollbackTrip *)
(* of a dispatch) between whatever the daily handlers accept, notes saved on *)
(* reopened orders included: the contract total of a stored order covers    *)
(* what was received.                                                       *)
THEOREM CorrectedContractsCover == CorrectionSpec => []TotalCoversInbound
<1>1. CorrectionsInit => Contracts
  BY ContractsInit DEF CorrectionsInit
<1>2. Contracts /\ [Daily \/ InvoiceCorrection \/ TakeBack]_everything => Contracts'
  <2>1. [Daily \/ InvoiceCorrection \/ TakeBack]_everything => [Next]_vars \/ InvoiceCorrection \/ TakeBack
    BY DailyAllowed DEF everything, vars
  <2> QED
    BY <2>1, DailyKeepsContracts, CorrectionKeepsContracts, TakeBackKeepsContracts
<1> QED
  BY <1>1, <1>2, ContractsMean, PTL DEF CorrectionSpec

(* The same of the run: in its world of corrections.                        *)
THEOREM CorrectedTotalsStayCovered == OnTheRoadSpec => []CorrectedTotalsCover
<1> DEFINE Inv == work = "corrections" => Contracts
<1>1. OnTheRoadInit => Inv
  BY ContractsInit DEF OnTheRoadInit, CorrectionsInit
<1>2. Inv /\ [OnTheRoadWork /\ UNCHANGED work]_<<everything, work>> => Inv'
  <2> SUFFICES ASSUME Inv, [OnTheRoadWork /\ UNCHANGED work]_<<everything, work>>, work' = "corrections"
               PROVE  Contracts'
    OBVIOUS
  <2>1. Contracts /\ work = "corrections"
    OBVIOUS
  <2>2. [Next]_vars \/ InvoiceCorrection \/ TakeBack
    BY <2>1, DailyAllowed DEF OnTheRoadWork, HubDaily, Daily, everything, vars
  <2> QED
    BY <2>1, <2>2, DailyKeepsContracts, CorrectionKeepsContracts, TakeBackKeepsContracts
<1>3. Inv => CorrectedTotalsCover
  BY ContractsMean DEF CorrectedTotalsCover
<1> QED
  BY <1>1, <1>2, <1>3, PTL DEF OnTheRoadSpec

-----------------------------------------------------------------------------
(***************************************************************************)
(* The daily handlers and those that load on the road add invoices and      *)
(* correct quantities, and take none out: what was booked for a trip stays  *)
(* booked, and what was picked up on the road stays picked up.              *)
(***************************************************************************)
BookedFor(s, K, t) == \E i \in DOMAIN s : s[i].live /\ s[i].kind \in K /\ s[i].trip = t
Roadside(s) == \E i \in DOMAIN s : s[i].live /\ s[i].kind \in Receipt /\ s[i].hub = NoHub

(* Of an invoice this argument needs only the columns it reads. *)
RowColumns(r) == {"live", "kind", "trip", "hub"} \subseteq DOMAIN r
InOrder(s) == (\E T : s \in Seq(T)) /\ \A i \in DOMAIN s : RowColumns(s[i])

Keeps(s, z) ==
  /\ InOrder(z)
  /\ \A K, t : BookedFor(s, K, t) => BookedFor(z, K, t)
  /\ Roadside(s) => Roadside(z)

LedgersInOrder == DOMAIN ledger = Orders /\ \A o \in Orders : InOrder(ledger[o])
InvoicesStay == DOMAIN ledger' = Orders /\ \A o \in Orders : Keeps(ledger[o], ledger'[o])

LEMMA AppendKeeps ==
  ASSUME NEW s, InOrder(s), NEW r, RowColumns(r), r.live
  PROVE  Keeps(s, Append(s, r)) /\ \A K : r.kind \in K => BookedFor(Append(s, r), K, r.trip)
<1>1. PICK T : s \in Seq(T)
  BY DEF InOrder
<1> DEFINE U == T \cup {r}
           z == Append(s, r)
           n == Len(s) + 1
<1>2. DOMAIN s = 1 .. Len(s) /\ Len(s) \in Nat
  BY <1>1, LenProperties
<1>3. s \in Seq(U)
  BY <1>1
<1>4. /\ z \in Seq(U) /\ DOMAIN z = 1 .. n
      /\ \A i \in 1 .. Len(s) : z[i] = s[i]
      /\ z[n] = r
  <2>1. r \in U
    OBVIOUS
  <2> HIDE DEF U
  <2>2. z \in Seq(U) /\ Len(z) = n
    BY <1>3, <2>1, AppendProperties
  <2> QED
    BY <1>3, <2>1, <2>2, AppendProperties, LenProperties
<1> HIDE DEF U, z
<1>5. DOMAIN z = DOMAIN s \cup {n} /\ \A i \in DOMAIN s : z[i] = s[i]
  BY <1>2, <1>4
<1> HIDE DEF n
<1>6. InOrder(z)
  BY <1>4, <1>5 DEF InOrder
<1>7. \A K, t : BookedFor(s, K, t) => BookedFor(z, K, t)
  BY <1>5 DEF BookedFor
<1>8. \A K : r.kind \in K => BookedFor(z, K, r.trip)
  BY <1>4, <1>5 DEF BookedFor
<1>9. Roadside(s) => Roadside(z)
  BY <1>5 DEF Roadside
<1> QED
  BY <1>6, <1>7, <1>8, <1>9 DEF Keeps, z

LEMMA SameKeeps ==
  ASSUME NEW s, InOrder(s)
  PROVE  Keeps(s, s)
BY DEF Keeps

(* The row a handler adds. *)
LEMMA RowKeeps ==
  ASSUME NEW s, InOrder(s), NEW k, NEW h, NEW t, NEW q
  PROVE  /\ Keeps(s, Append(s, Row(k, h, t, q)))
         /\ \A K : k \in K => BookedFor(Append(s, Row(k, h, t, q)), K, t)
<1> DEFINE r == Row(k, h, t, q)
<1>1. RowColumns(r) /\ r.live /\ r.kind = k /\ r.trip = t
  BY DEF Row, RowColumns
<1> HIDE DEF r
<1>2. Keeps(s, Append(s, r)) /\ \A K : r.kind \in K => BookedFor(Append(s, r), K, r.trip)
  BY <1>1, AppendKeeps
<1> QED
  BY <1>1, <1>2 DEF r

LEMMA QuantityKeeps ==
  ASSUME NEW s, InOrder(s), NEW i \in DOMAIN s, NEW q
  PROVE  Keeps(s, [s EXCEPT ![i].qty = q])
<1> DEFINE r == [s[i] EXCEPT !.qty = q]
           z == [s EXCEPT ![i] = r]
<1>1. PICK T : s \in Seq(T)
  BY DEF InOrder
<1> DEFINE U == T \cup {r}
<1>2. i \in 1 .. Len(s) /\ s \in Seq(U) /\ r \in U
  BY <1>1, LenProperties
<1>3. /\ RowColumns(r) /\ r.live = s[i].live /\ r.kind = s[i].kind
      /\ r.trip = s[i].trip /\ r.hub = s[i].hub
  BY DEF InOrder, RowColumns
<1> HIDE DEF r, U
<1>4. z \in Seq(U)
  BY <1>2, ExceptSeq
<1>5. DOMAIN z = DOMAIN s /\ \A j \in DOMAIN s : z[j] = IF j = i THEN r ELSE s[j]
  OBVIOUS
<1> HIDE DEF z
<1>6. InOrder(z)
  BY <1>3, <1>4, <1>5 DEF InOrder
<1>7. \A K, t : BookedFor(s, K, t) => BookedFor(z, K, t)
  BY <1>3, <1>5 DEF BookedFor
<1>8. Roadside(s) => Roadside(z)
  BY <1>3, <1>5 DEF Roadside
<1>9. Keeps(s, z)
  BY <1>6, <1>7, <1>8 DEF Keeps
<1> QED
  BY <1>9 DEF z, r

LEMMA ReceivedKeeps ==
  ASSUME NEW o \in Orders, InOrder(ledger[o]), NEW h, NEW admin \in BOOLEAN, NEW t, NEW q
  PROVE  Keeps(ledger[o], ReceivedLedger(o, h, admin, t, q))
<1> DEFINE c == TripOf(o, h, admin, t)
           i == TheReceipt(o, c, h)
<1>1. CASE ~Skipped(o, h, admin, t)
  <2>1. ReceivedLedger(o, h, admin, t, q) = Append(ledger[o], Row("INBOUND", h, c, q))
    BY <1>1 DEF ReceivedLedger
  <2> QED
    BY <2>1, RowKeeps
<1>2. CASE Skipped(o, h, admin, t) /\ admin
  <2>1. ReceivedLedger(o, h, admin, t, q) = [ledger[o] EXCEPT ![i].qty = q]
    BY <1>2 DEF ReceivedLedger
  <2>2. i \in DOMAIN ledger[o]
    BY <1>2 DEF TheReceipt, Duplicate, ReceiptsOf, RowsAt, RowsOn, Rows, Skipped
  <2> HIDE DEF i
  <2> QED
    BY <2>1, <2>2, QuantityKeeps
<1>3. CASE Skipped(o, h, admin, t) /\ ~admin
  <2>1. ReceivedLedger(o, h, admin, t, q) = ledger[o]
    BY <1>3 DEF ReceivedLedger
  <2> QED
    BY <2>1, SameKeeps
<1> QED
  BY <1>1, <1>2, <1>3

LEMMA RoadsideRow ==
  ASSUME NEW s, InOrder(s), NEW t, NEW q
  PROVE  Roadside(Append(s, Row("INBOUND", NoHub, t, q)))
<1>1. PICK T : s \in Seq(T)
  BY DEF InOrder
<1> DEFINE r == Row("INBOUND", NoHub, t, q)
           n == Len(s) + 1
<1>2. r.live /\ r.kind \in Receipt /\ r.hub = NoHub
  BY DEF Row, Receipt
<1> HIDE DEF r
<1>3. s \in Seq(T \cup {r})
  BY <1>1
<1>4. n \in DOMAIN Append(s, r) /\ Append(s, r)[n] = r
  BY <1>3, AppendProperties, LenProperties
<1> QED
  BY <1>2, <1>4 DEF Roadside, r

LEMMA NoInvoiceMore ==
  ASSUME LedgersInOrder, ledger' = ledger
  PROVE  InvoicesStay
BY SameKeeps DEF LedgersInOrder, InvoicesStay

LEMMA SomeInvoicesMore ==
  ASSUME LedgersInOrder, DOMAIN ledger' = Orders,
         \A o \in Orders :
           \/ ledger'[o] = ledger[o]
           \/ \E k, h, t, q : ledger'[o] = Append(ledger[o], Row(k, h, t, q))
           \/ \E h, t, q : \E admin \in BOOLEAN : ledger'[o] = ReceivedLedger(o, h, admin, t, q)
  PROVE  InvoicesStay
<1> SUFFICES ASSUME NEW o \in Orders PROVE Keeps(ledger[o], ledger'[o])
  BY DEF InvoicesStay
<1>1. InOrder(ledger[o])
  BY DEF LedgersInOrder
<1>2. CASE ledger'[o] = ledger[o]
  BY <1>1, <1>2, SameKeeps
<1>3. CASE \E k, h, t, q : ledger'[o] = Append(ledger[o], Row(k, h, t, q))
  BY <1>1, <1>3, RowKeeps
<1>4. CASE \E h, t, q : \E admin \in BOOLEAN : ledger'[o] = ReceivedLedger(o, h, admin, t, q)
  BY <1>1, <1>4, ReceivedKeeps
<1> QED
  BY <1>2, <1>3, <1>4

LEMMA RoutineInvoicesStay ==
  ASSUME LedgersInOrder, RoutineNext
  PROVE  InvoicesStay
<1>1. CASE ledger' = ledger
  BY <1>1, NoInvoiceMore
<1>2. ASSUME NEW o \in Orders, NEW h \in Hubs, NEW q \in 1 .. MaxQty, NEW d \in BOOLEAN,
             QuickCreateInbound(o, h, q, d)
      PROVE  InvoicesStay
  <2>1. ledger' = ledger \/ ledger' = [ledger EXCEPT ![o] = Append(@, Row("INBOUND", h, NoTrip, q))]
    BY <1>2 DEF QuickCreateInbound
  <2>2. CASE ledger' = [ledger EXCEPT ![o] = Append(@, Row("INBOUND", h, NoTrip, q))]
    BY <2>2, SomeInvoicesMore DEF LedgersInOrder
  <2> QED
    BY <1>1, <2>1, <2>2
<1>3. ASSUME NEW h \in Hubs, NEW got \in Cargo, NEW drafts, BatchCreateInbound(h, got, drafts)
      PROVE  InvoicesStay
  <2>1. ledger' = [o \in Orders |-> IF o \in DOMAIN got \ drafts
                                   THEN Append(ledger[o], Row("INBOUND", h, lastTrip + 1, got[o]))
                                   ELSE ledger[o]]
    BY <1>3 DEF BatchCreateInbound
  <2> QED
    BY <2>1, SomeInvoicesMore
<1>4. ASSUME NEW h \in Hubs, NEW t, NEW got \in Cargo, NEW keep,
             ConfirmInbound(h, FALSE, t, got, keep)
      PROVE  InvoicesStay
  <2>1. ledger' = [o \in Orders |-> IF o \in DOMAIN got THEN ReceivedLedger(o, h, FALSE, t, got[o])
                                   ELSE ledger[o]]
    BY <1>4 DEF ConfirmInbound
  <2> QED
    BY <2>1, SomeInvoicesMore
<1>5. ASSUME NEW h \in Hubs, NEW load \in Cargo, NEW to, NEW d, ConfirmOutbound(h, load, to, d)
      PROVE  InvoicesStay
  <2>1. ledger' = [o \in Orders |-> IF o \in DOMAIN load
                                   THEN Append(ledger[o], Row(OutKind(to), h, TripFor(d), load[o]))
                                   ELSE ledger[o]]
    BY <1>5 DEF ConfirmOutbound
  <2> QED
    BY <2>1, SomeInvoicesMore
<1>6. ASSUME NEW o, NEW h, NEW q, CreateOrder(o, h, q) PROVE InvoicesStay
  BY <1>1, <1>6 DEF CreateOrder
<1>7. ASSUME NEW h, NEW t, NEW got, SaveInboundDraft(h, FALSE, t, got) PROVE InvoicesStay
  BY <1>1, <1>7 DEF SaveInboundDraft
<1>8. ASSUME NEW h, NEW load, NEW to, NEW d, SaveOutboundDraft(h, load, to, d) PROVE InvoicesStay
  BY <1>1, <1>8 DEF SaveOutboundDraft
<1>9. ASSUME NEW h, NEW t, CancelOutboundDraft(h, t) \/ CancelInboundDraft(h, t) \/ UpdateTransitStep(h, t)
      PROVE  InvoicesStay
  BY <1>1, <1>9 DEF CancelOutboundDraft, CancelInboundDraft, UpdateTransitStep
<1> QED
  BY <1>2, <1>3, <1>4, <1>5, <1>6, <1>7, <1>8, <1>9 DEF RoutineNext

LEMMA LoadingInvoicesStay ==
  ASSUME LedgersInOrder, Loading
  PROVE  InvoicesStay
<1> PICK h \in Hubs, admin \in BOOLEAN, t \in Codes :
      \/ \E o \in Orders, q \in 1 .. MaxQty, to \in Hubs \ {h} : AppendOrderToTrip(h, admin, t, o, q, to)
      \/ \E o \in Orders, q \in 1 .. MaxQty : PickUpOnTheRoad(h, admin, t, o, q)
      \/ \E S \in (SUBSET Orders) \ {{}} : AppendStoredOrdersToTrip(h, admin, t, S)
      \/ \E o \in Orders, to \in Hubs \cup {NoHub} : UpdateTripOrderDestination(h, admin, t, o, to)
  BY DEF Loading
<1>1. ASSUME NEW o \in Orders, NEW k, NEW g, NEW q,
             ledger' = [ledger EXCEPT ![o] = Append(@, Row(k, g, t, q))]
      PROVE  InvoicesStay
  BY <1>1, SomeInvoicesMore DEF LedgersInOrder
<1>2. ASSUME NEW o \in Orders, NEW q, NEW to, AppendOrderToTrip(h, admin, t, o, q, to)
      PROVE  InvoicesStay
  BY <1>1, <1>2 DEF AppendOrderToTrip
<1>3. ASSUME NEW o \in Orders, NEW q, PickUpOnTheRoad(h, admin, t, o, q)
      PROVE  InvoicesStay
  BY <1>1, <1>3 DEF PickUpOnTheRoad
<1>4. ASSUME NEW S \in SUBSET Orders, AppendStoredOrdersToTrip(h, admin, t, S)
      PROVE  InvoicesStay
  <2>1. ledger' = [o \in Orders |-> IF o \in S THEN Append(ledger[o], Row("TRANSFER", h, t, WholeLoad(o)))
                                   ELSE ledger[o]]
    BY <1>4 DEF AppendStoredOrdersToTrip
  <2> QED
    BY <2>1, SomeInvoicesMore
<1>5. ASSUME NEW o \in Orders, NEW to, UpdateTripOrderDestination(h, admin, t, o, to)
      PROVE  InvoicesStay
  <2> DEFINE k == IF stop[t][h] = "COMPLETED" THEN "ADJUSTMENT" ELSE "TRANSFER"
  <2>1. ledger' = [ledger EXCEPT ![o] = Append(@, Row(k, h, t, line[t][o].qty))]
    BY <1>5 DEF UpdateTripOrderDestination
  <2> HIDE DEF k
  <2> QED
    BY <1>1, <2>1
<1> QED
  BY <1>2, <1>3, <1>4, <1>5

-----------------------------------------------------------------------------
(***************************************************************************)
(* Loading on the road: an order in transit is on a live line of its trip.  *)
(* The line is an allocation that left (it is no plan, so no cancellation   *)
(* or dispatch of a note takes it) and is not a receipt of some hub.  A     *)
(* receiving note can take out a line of no hub, but that line was picked   *)
(* up on the road: its order has the invoice of the pick-up, and afterwards *)
(* names no trip.                                                           *)
(***************************************************************************)
Aboard(l) == l.status \in {"IN_TRANSIT", "COMPLETED"} /\ (l.kind \in Dispatch \/ l.hub = NoHub)

InTransitTo(ord) == ord.live /\ ord.status = "IN_TRANSIT"

OfNoHub(l) == l.status \notin {"NONE", "DELETED"} /\ l.hub = NoHub

RidesWell ==
  /\ \A o \in Orders : InTransitTo(order[o]) =>
       IF order[o].trip = NoTrip THEN Roadside(ledger[o])
       ELSE order[o].trip \in Codes /\ Aboard(line[order[o].trip][o])
  /\ \A t \in Trips, o \in Orders : OfNoHub(line[t][o]) => Roadside(ledger[o])

(* Of the tables this argument needs only the columns it reads. *)
HasFields(ord) == {"status", "live", "trip"} \subseteq DOMAIN ord
HasColumns(l) == {"status", "kind", "hub"} \subseteq DOMAIN l
Shaped ==
  /\ lastTrip \in 0 .. MaxTrips
  /\ DOMAIN order = Orders /\ DOMAIN line = Trips /\ LedgersInOrder
  /\ \A o \in Orders : HasFields(order[o])
  /\ \A t \in Trips : DOMAIN line[t] = Orders /\ \A o \in Orders : HasColumns(line[t][o])

(* The order enters no trip: if it is in transit, it was before. *)
Settled(new, ord) ==
  HasFields(new) /\ (InTransitTo(new) => InTransitTo(ord) /\ new.trip = ord.trip)

LEMMA NewOrderSettled ==
  ASSUME NEW h, NEW st, st # "IN_TRANSIT", NEW total, NEW stocked, NEW ord
  PROVE  Settled(NewOrder(h, st, total, stocked), ord)
BY DEF NewOrder, NoOrder, Settled, HasFields, InTransitTo

LEMMA IntakeSettled ==
  ASSUME NEW o \in Orders, HasFields(order[o]), NEW h, NEW q, NEW draft \in BOOLEAN
  PROVE  Settled(Intake(o, h, q, draft), order[o])
<1> DEFINE ord == order[o]
           new == Intake(o, h, q, draft)
<1>1. CASE IsUnborn(o)
  <2>1. \E st \in {"DRAFT", "INBOUND"}, n \in {0, q} : new = NewOrder(h, st, q, n)
    BY <1>1 DEF Intake
  <2> HIDE DEF new
  <2> QED
    BY <2>1, NewOrderSettled DEF new
<1>2. CASE ~IsUnborn(o)
  <2>1. \/ new = [ord EXCEPT !.total = @ + q]
        \/ new = [ord EXCEPT !.total = q, !.inb = q, !.rem = q, !.status = "INBOUND"]
        \/ new = [ord EXCEPT !.total = @ + q, !.inb = @ + q, !.rem = @ + q, !.status = "INBOUND"]
    BY <1>2 DEF Intake
  <2> HIDE DEF new, ord
  <2>2. HasFields(ord)
    BY DEF ord
  <2>3. Settled(new, ord)
    BY <2>1, <2>2 DEF Settled, HasFields, InTransitTo
  <2> QED
    BY <2>3 DEF new, ord
<1> QED
  BY <1>1, <1>2

LEMMA ReceivedSettled ==
  ASSUME NEW o \in Orders, HasFields(order[o]), NEW h, NEW t, NEW q
  PROVE  Settled(ReceivedOrder(o, h, FALSE, t, q), order[o])
<1> DEFINE ord == order[o]
           c == TripOf(o, h, FALSE, t)
           new == ReceivedOrder(o, h, FALSE, t, q)
<1> HIDE DEF c
<1>1. CASE IsUnborn(o)
  BY <1>1, NewOrderSettled DEF ReceivedOrder, c
<1>2. CASE ~IsUnborn(o)
  <2>1. \/ new = ReceiveDraft(o, h, q)
        \/ new = ReceiveLocked(o, c, q)
        \/ new = ord
    BY <1>2 DEF ReceivedOrder, c
  <2>2. ReceiveDraft(o, h, q).status = "INBOUND" /\ HasFields(ReceiveDraft(o, h, q))
    BY DEF ReceiveDraft, HasFields
  <2>3. ReceiveLocked(o, c, q).status = "INBOUND" /\ HasFields(ReceiveLocked(o, c, q))
    BY DEF ReceiveLocked, HasFields
  <2> HIDE DEF new
  <2>4. Settled(new, ord)
    BY <2>1, <2>2, <2>3 DEF Settled, InTransitTo
  <2> QED
    BY <2>4 DEF new
<1> QED
  BY <1>1, <1>2

LEMMA DraftedSettled ==
  ASSUME NEW o \in Orders, HasFields(order[o]), NEW h, NEW q
  PROVE  Settled(DraftedOrder(o, h, FALSE, q), order[o])
<1> DEFINE ord == order[o]
           new == DraftedOrder(o, h, FALSE, q)
<1>1. CASE IsUnborn(o)
  BY <1>1, NewOrderSettled DEF DraftedOrder
<1>2. CASE ~IsUnborn(o)
  <2>1. \/ new = [ord EXCEPT !.total = q, !.origin = IF @ = NoHub THEN h ELSE @]
        \/ new = [ord EXCEPT !.total = q, !.inb = q, !.rem = Monus(q, ord.outb),
                             !.origin = IF @ = NoHub THEN h ELSE @]
        \/ new = ord
    BY <1>2 DEF DraftedOrder
  <2> HIDE DEF new, ord
  <2>2. HasFields(ord)
    BY DEF ord
  <2>3. Settled(new, ord)
    BY <2>1, <2>2 DEF Settled, HasFields, InTransitTo
  <2> QED
    BY <2>3 DEF new, ord
<1> QED
  BY <1>1, <1>2

(* The order gives its trip up; it was picked up on the road. *)
GivesUp(new, s) == HasFields(new) /\ new.trip = NoTrip /\ Roadside(s)

(* An order taken out of a note names its trip no longer. *)
LEMMA RemovedSettled ==
  ASSUME NEW o \in Orders, HasFields(order[o]), NEW t, t # NoTrip,
         InTransitTo(order[o]) /\ order[o].trip = t => Roadside(ledger[o])
  PROVE  /\ Settled(RemovedOrder(o, t), order[o]) \/ GivesUp(RemovedOrder(o, t), ledger[o])
         /\ InTransitTo(RemovedOrder(o, t)) => RemovedOrder(o, t).trip # t
<1> DEFINE ord == order[o]
           new == RemovedOrder(o, t)
<1>1. \/ ~(ord.live /\ ord.trip = t) /\ new = ord
      \/ new = [ord EXCEPT !.live = FALSE]
      \/ ord.trip = t /\ new = [ord EXCEPT !.trip = NoTrip]
  BY DEF RemovedOrder, IsLive
<1>2. HasFields(ord) /\ (InTransitTo(ord) /\ ord.trip = t => Roadside(ledger[o]))
  OBVIOUS
<1> HIDE DEF new, ord
<1>3. /\ Settled(new, ord) \/ GivesUp(new, ledger[o])
      /\ InTransitTo(new) => new.trip # t
  <2>1. CASE ~(ord.live /\ ord.trip = t) /\ new = ord
    BY <1>2, <2>1 DEF Settled, InTransitTo
  <2>2. CASE new = [ord EXCEPT !.live = FALSE]
    BY <1>2, <2>2 DEF Settled, HasFields, InTransitTo
  <2>3. CASE ord.trip = t /\ new = [ord EXCEPT !.trip = NoTrip]
    <3>1. HasFields(new) /\ new.trip = NoTrip /\ new.live = ord.live /\ new.status = ord.status
      BY <1>2, <2>3 DEF HasFields
    <3> QED
      BY <1>2, <2>3, <3>1 DEF Settled, GivesUp, InTransitTo
  <2> QED
    BY <1>1, <2>1, <2>2, <2>3
<1> QED
  BY <1>3 DEF new, ord

LEMMA DispatchedSettled ==
  ASSUME NEW o \in Orders, HasFields(order[o]), NEW t, NEW q, NEW to
  PROVE  Settled(DispatchedOrder(o, t, q, to), order[o])
<1>1. /\ HasFields(DispatchedOrder(o, t, q, to))
      /\ DispatchedOrder(o, t, q, to).status \in {"COMPLETED_INBOUND", "INBOUND"}
  BY DEF DispatchedOrder, HasFields
<1> QED
  BY <1>1 DEF Settled, InTransitTo

LEMMA CancelledSettled ==
  ASSUME NEW o \in Orders, HasFields(order[o]), NEW t
  PROVE  Settled(CancelledOrder(o, t), order[o])
<1> DEFINE ord == order[o]
           new == CancelledOrder(o, t)
<1>1. \/ new = ord
      \/ new = [ord EXCEPT !.live = FALSE]
      \/ new = Reconciled(o, t)
  BY DEF CancelledOrder
<1>2. /\ HasFields(Reconciled(o, t))
      /\ Reconciled(o, t).live = ord.live
      /\ Reconciled(o, t).trip = ord.trip
      /\ Reconciled(o, t).status \in {ord.status, "COMPLETED_INBOUND", "INBOUND"}
  BY DEF Reconciled, HasFields
<1>3. HasFields(ord)
  OBVIOUS
<1> HIDE DEF new, ord
<1>4. Settled(new, ord)
  BY <1>1, <1>2, <1>3 DEF Settled, HasFields, InTransitTo
<1> QED
  BY <1>4 DEF new, ord

(* A step in which no order enters a trip, no line is handed to no hub, and *)
(* a line aboard is lost only if its order no longer rides it.              *)
Kept(new, l) ==
  /\ HasColumns(new)
  /\ Aboard(l) => Aboard(new)
  /\ OfNoHub(new) => OfNoHub(l)

Dropped(new, ord, t) ==
  /\ HasColumns(new) /\ ~OfNoHub(new)
  /\ t \in Codes /\ InTransitTo(ord) => ord.trip # t

LEMMA NobodyLeftBehind ==
  ASSUME Shaped, RidesWell, InvoicesStay,
         lastTrip' \in lastTrip .. MaxTrips,
         DOMAIN order' = Orders, DOMAIN line' = Trips,
         \A o \in Orders : Settled(order'[o], order[o]) \/ GivesUp(order'[o], ledger[o]),
         \A t \in Trips : DOMAIN line'[t] = Orders,
         \A t \in Trips, o \in Orders :
           Kept(line'[t][o], line[t][o]) \/ Dropped(line'[t][o], order'[o], t)
  PROVE  Shaped' /\ RidesWell'
<1>1. lastTrip' \in 0 .. MaxTrips /\ Codes \subseteq Codes' /\ Codes \subseteq Trips
  BY BoundsAssumption DEF Shaped, Codes, Trips
<1>2. LedgersInOrder' /\ \A o \in Orders : Roadside(ledger[o]) => Roadside(ledger'[o])
  BY DEF InvoicesStay, LedgersInOrder, Keeps
<1>3. Shaped'
  <2>1. \A o \in Orders : HasFields(order'[o])
    BY DEF Settled, GivesUp
  <2>2. \A t \in Trips, o \in Orders : HasColumns(line'[t][o])
    BY DEF Kept, Dropped
  <2> QED
    BY <1>1, <1>2, <2>1, <2>2 DEF Shaped
<1>4. ASSUME NEW o \in Orders, InTransitTo(order'[o])
      PROVE  IF order'[o].trip = NoTrip THEN Roadside(ledger'[o])
             ELSE order'[o].trip \in Codes' /\ Aboard(line'[order'[o].trip][o])
  <2>1. CASE GivesUp(order'[o], ledger[o])
    BY <1>2, <2>1 DEF GivesUp
  <2>2. CASE Settled(order'[o], order[o])
    <3>1. InTransitTo(order[o]) /\ order'[o].trip = order[o].trip
      BY <1>4, <2>2 DEF Settled
    <3>2. CASE order[o].trip = NoTrip
      BY <1>2, <3>1, <3>2 DEF RidesWell
    <3>3. CASE order[o].trip # NoTrip
      <4> DEFINE t == order[o].trip
      <4>1. t \in Codes /\ t \in Trips /\ Aboard(line[t][o])
        BY <1>1, <3>1, <3>3 DEF RidesWell
      <4>2. ~Dropped(line'[t][o], order'[o], t)
        BY <1>4, <3>1, <4>1 DEF Dropped
      <4>3. Kept(line'[t][o], line[t][o])
        BY <4>1, <4>2
      <4> QED
        BY <1>1, <3>1, <3>3, <4>1, <4>3 DEF Kept
    <3> QED
      BY <3>2, <3>3
  <2> QED
    BY <2>1, <2>2
<1>5. ASSUME NEW t \in Trips, NEW o \in Orders, OfNoHub(line'[t][o])
      PROVE  Roadside(ledger'[o])
  <2>1. Kept(line'[t][o], line[t][o])
    BY <1>5 DEF Dropped
  <2> QED
    BY <1>2, <1>5, <2>1 DEF Kept, RidesWell
<1> QED
  BY <1>3, <1>4, <1>5 DEF RidesWell

(* What each way of writing a line does to a line that carries packages. *)
LEMMA FreshLine ==
  ASSUME NEW st, NEW kind, NEW h, NEW q
  PROVE  /\ HasColumns(Line(st, kind, h, q)) /\ HasColumns(DeletedLine)
         /\ ~OfNoHub(DeletedLine)
         /\ h \in Hubs => ~OfNoHub(Line(st, kind, h, q))
<1>1. HasColumns(Line(st, kind, h, q)) /\ HasColumns(DeletedLine)
  BY DEF Line, DeletedLine, NoLine, HasColumns
<1>2. DeletedLine.status = "DELETED" /\ Line(st, kind, h, q).hub = h
  BY DEF Line, DeletedLine, NoLine
<1> QED
  BY <1>1, <1>2, HubsAssumption DEF OfNoHub

LEMMA SweptLine ==
  ASSUME NEW l, HasColumns(l), NEW done \in BOOLEAN
  PROVE  Kept(Sweep(l, done), l)
<1>1. CASE done /\ l.status \notin {"NONE", "DELETED"}
  BY <1>1 DEF Kept, Sweep, HasColumns, Aboard, OfNoHub
<1>2. CASE ~(done /\ l.status \notin {"NONE", "DELETED"})
  BY <1>2 DEF Kept, Sweep
<1> QED
  BY <1>1, <1>2

LEMMA ReceivedLineKept ==
  ASSUME NEW c, NEW o, HasColumns(line[c][o]), NEW h \in Hubs, NEW t, NEW q, NEW keep \in BOOLEAN
  PROVE  Kept(ReceivedLine(c, o, h, FALSE, t, q, keep), line[c][o])
<1> DEFINE l == line[c][o]
           new == ReceivedLine(c, o, h, FALSE, t, q, keep)
           fresh == Line(IF keep THEN "PENDING" ELSE "COMPLETED", "INBOUND", h, q)
<1>1. \/ new = l
      \/ /\ l.status \notin {"NONE", "DELETED"}
         /\ new = [l EXCEPT !.qty = q, !.status = IF keep THEN @ ELSE "COMPLETED"]
      \/ l.status \in {"NONE", "DELETED"} /\ new = fresh
  BY DEF ReceivedLine, LiveLine
<1>2. HasColumns(fresh) /\ ~OfNoHub(fresh)
  BY FreshLine
<1>3. HasColumns(l)
  OBVIOUS
<1> HIDE DEF new, l, fresh
<1>4. Kept(new, l)
  BY <1>1, <1>2, <1>3 DEF Kept, HasColumns, Aboard, OfNoHub
<1> QED
  BY <1>4 DEF new, l

(* One lemma per daily handler. *)
LEMMA CreateOrderRides ==
  ASSUME Shaped, RidesWell, InvoicesStay, NEW o \in Orders, NEW h, NEW q, CreateOrder(o, h, q)
  PROVE  Shaped' /\ RidesWell'
<1>1. order' = [order EXCEPT ![o] = NewOrder(h, "DRAFT", q, q)] /\ line' = line /\ lastTrip' = lastTrip
  BY DEF CreateOrder
<1>2. \A p \in Orders : Settled(order'[p], order[p])
  BY <1>1, NewOrderSettled DEF Shaped, Settled
<1> QED
  BY <1>1, <1>2, NobodyLeftBehind DEF Shaped, Kept

LEMMA QuickCreateInboundRides ==
  ASSUME Shaped, RidesWell, InvoicesStay, NEW o \in Orders, NEW h, NEW q, NEW draft \in BOOLEAN,
         QuickCreateInbound(o, h, q, draft)
  PROVE  Shaped' /\ RidesWell'
<1>1. order' = [order EXCEPT ![o] = Intake(o, h, q, draft)] /\ line' = line /\ lastTrip' = lastTrip
  BY DEF QuickCreateInbound
<1>2. Settled(Intake(o, h, q, draft), order[o])
  BY IntakeSettled DEF Shaped
<1>3. \A p \in Orders : Settled(order'[p], order[p])
  BY <1>1, <1>2 DEF Shaped, Settled
<1> QED
  BY <1>1, <1>3, NobodyLeftBehind DEF Shaped, Kept

LEMMA BatchCreateInboundRides ==
  ASSUME Shaped, RidesWell, InvoicesStay, NEW h \in Hubs, NEW got \in Cargo, NEW drafts,
         BatchCreateInbound(h, got, drafts)
  PROVE  Shaped' /\ RidesWell'
<1> DEFINE S == DOMAIN got
           t == lastTrip + 1
           Fresh(o) == Line(IF o \in drafts THEN "PENDING" ELSE "COMPLETED", "INBOUND", h, got[o])
<1>1. /\ lastTrip < MaxTrips /\ lastTrip' = t
      /\ order' = [o \in Orders |-> IF o \in S THEN Intake(o, h, got[o], o \in drafts) ELSE order[o]]
      /\ line' = [line EXCEPT ![t] = [o \in Orders |-> IF o \in S THEN Fresh(o) ELSE @[o]]]
  BY DEF BatchCreateInbound
<1>2. \A o \in Orders : Settled(order'[o], order[o])
  <2> TAKE o \in Orders
  <2>1. HasFields(order[o])
    BY DEF Shaped
  <2>2. (o \in drafts) \in BOOLEAN
    OBVIOUS
  <2>3. Settled(Intake(o, h, got[o], o \in drafts), order[o])
    BY ONLY IntakeSettled, <2>1, <2>2, o \in Orders
  <2>4. Settled(order[o], order[o])
    BY <2>1 DEF Settled
  <2> QED
    BY <1>1, <2>3, <2>4
<1>3. \A o \in Orders : HasColumns(Fresh(o)) /\ ~OfNoHub(Fresh(o))
  BY FreshLine
<1>4. t \notin Codes /\ lastTrip' \in lastTrip .. MaxTrips
  BY <1>1, BoundsAssumption DEF Shaped, Codes
<1>5. DOMAIN order' = Orders /\ DOMAIN line' = Trips
  BY <1>1 DEF Shaped
<1> HIDE DEF Fresh, t
<1>6. \A c \in Trips, o \in Orders :
        Kept(line'[c][o], line[c][o]) \/ Dropped(line'[c][o], order'[o], c)
  BY <1>1, <1>3, <1>4 DEF Shaped, Kept, Dropped
<1>7. \A c \in Trips : DOMAIN line'[c] = Orders
  BY <1>1 DEF Shaped
<1> QED
  BY <1>2, <1>4, <1>5, <1>6, <1>7, NobodyLeftBehind

(* A line taken out of a receiving note carries nothing, or it was picked   *)
(* up on the road; its order does not ride that trip afterwards.            *)
LEMMA RemovedLines ==
  ASSUME Shaped, RidesWell, NEW t \in Codes \cup {NoTrip}, NEW h \in Hubs, NEW S, NEW keep \in BOOLEAN,
         NEW o \in Removed(t, h, S, keep)
  PROVE  /\ o \in Orders /\ t # NoTrip
         /\ Settled(RemovedOrder(o, t), order[o]) \/ GivesUp(RemovedOrder(o, t), ledger[o])
         /\ Dropped(DeletedLine, RemovedOrder(o, t), t)
<1>1. /\ o \in Orders /\ LiveLine(t, o) /\ t # NoTrip
      /\ line[t][o].kind = "INBOUND" /\ line[t][o].hub \in {NoHub, h}
  BY DEF Removed, LiveLines
<1>2. t \in Codes /\ t \in Trips
  BY <1>1, BoundsAssumption DEF Shaped, Codes, Trips
<1>3. ASSUME InTransitTo(order[o]), order[o].trip = t PROVE Roadside(ledger[o])
  <2>1. Aboard(line[t][o])
    BY <1>1, <1>3 DEF RidesWell
  <2>2. OfNoHub(line[t][o])
    BY <1>1, <2>1 DEF Aboard, OfNoHub, LiveLine, Dispatch
  <2> QED
    BY <1>1, <1>2, <2>2 DEF RidesWell
<1>4. HasFields(order[o])
  BY <1>1 DEF Shaped
<1>5. /\ Settled(RemovedOrder(o, t), order[o]) \/ GivesUp(RemovedOrder(o, t), ledger[o])
      /\ InTransitTo(RemovedOrder(o, t)) => RemovedOrder(o, t).trip # t
  BY <1>1, <1>3, <1>4, RemovedSettled
<1> QED
  BY <1>1, <1>5, FreshLine DEF Dropped

LEMMA ConfirmInboundRides ==
  ASSUME Shaped, RidesWell, InvoicesStay, NEW h \in Hubs, NEW t \in Codes \cup {NoTrip},
         NEW got \in Cargo, NEW keep \in BOOLEAN, ConfirmInbound(h, FALSE, t, got, keep)
  PROVE  Shaped' /\ RidesWell'
<1> DEFINE S == DOMAIN got
           gone == Removed(t, h, S, keep)
           on(c) == {o \in S : TripOf(o, h, FALSE, t) = c}
           processed == {c \in Trips : on(c) # {}}
           swept(c) == c \in processed /\ ~keep /\ ~AnyPending(ReceivedStops(c, h, keep))
           L(c, o) == IF o \in on(c) THEN ReceivedLine(c, o, h, FALSE, t, got[o], keep)
                      ELSE IF c = t /\ o \in gone THEN DeletedLine ELSE line[c][o]
<1>1. /\ order' = [o \in Orders |-> IF o \in S THEN ReceivedOrder(o, h, FALSE, t, got[o])
                                   ELSE IF o \in gone THEN RemovedOrder(o, t) ELSE order[o]]
      /\ line' = [c \in Trips |-> [o \in Orders |-> Sweep(L(c, o), swept(c))]]
      /\ lastTrip' = lastTrip
  BY DEF ConfirmInbound
<1>2. \A o \in Orders : Settled(order'[o], order[o]) \/ GivesUp(order'[o], ledger[o])
  <2> TAKE o \in Orders
  <2>1. HasFields(order[o])
    BY DEF Shaped
  <2>2. Settled(ReceivedOrder(o, h, FALSE, t, got[o]), order[o])
    BY <2>1, ReceivedSettled
  <2>3. o \in gone => \/ Settled(RemovedOrder(o, t), order[o])
                      \/ GivesUp(RemovedOrder(o, t), ledger[o])
    BY RemovedLines
  <2>4. Settled(order[o], order[o])
    BY <2>1 DEF Settled
  <2> HIDE DEF gone
  <2> QED
    BY <1>1, <2>2, <2>3, <2>4
<1>3. \A c \in Trips, o \in Orders :
        Kept(line'[c][o], line[c][o]) \/ Dropped(line'[c][o], order'[o], c)
  <2> TAKE c \in Trips, o \in Orders
  <2>1. HasColumns(line[c][o])
    BY DEF Shaped
  <2>2. line'[c][o] = Sweep(L(c, o), swept(c)) /\ swept(c) \in BOOLEAN
    BY <1>1
  <2>3. CASE c = t /\ o \in gone
    <3>1. o \notin S
      BY <2>3 DEF Removed
    <3>2. L(c, o) = DeletedLine /\ order'[o] = RemovedOrder(o, t)
      BY <1>1, <2>3, <3>1
    <3>3. Sweep(DeletedLine, swept(c)) = DeletedLine
      BY DEF Sweep, DeletedLine, NoLine
    <3>4. Dropped(DeletedLine, RemovedOrder(o, t), t)
      BY <2>3, RemovedLines
    <3> QED
      BY <2>2, <2>3, <3>2, <3>3, <3>4
  <2>4. CASE ~(c = t /\ o \in gone)
    <3>1. Kept(ReceivedLine(c, o, h, FALSE, t, got[o], keep), line[c][o])
      BY <2>1, ReceivedLineKept
    <3>2. Kept(line[c][o], line[c][o])
      BY <2>1 DEF Kept
    <3> HIDE DEF gone, on
    <3>3. Kept(L(c, o), line[c][o])
      BY <2>4, <3>1, <3>2
    <3> HIDE DEF L, swept
    <3>4. HasColumns(L(c, o))
      BY <3>3 DEF Kept
    <3>5. Kept(Sweep(L(c, o), swept(c)), L(c, o))
      BY <2>2, <3>4, SweptLine
    <3> QED
      BY <2>2, <3>3, <3>5 DEF Kept
  <2> QED
    BY <2>3, <2>4
<1>5. DOMAIN order' = Orders /\ DOMAIN line' = Trips /\ \A c \in Trips : DOMAIN line'[c] = Orders
  BY <1>1
<1>6. lastTrip' \in lastTrip .. MaxTrips
  BY <1>1, BoundsAssumption DEF Shaped
<1> QED
  BY <1>2, <1>3, <1>5, <1>6, NobodyLeftBehind

LEMMA SaveInboundDraftRides ==
  ASSUME Shaped, RidesWell, InvoicesStay, NEW h \in Hubs, NEW t \in Codes, NEW got \in Cargo,
         SaveInboundDraft(h, FALSE, t, got)
  PROVE  Shaped' /\ RidesWell'
<1> DEFINE S == DOMAIN got
           gone == Removed(t, h, S, FALSE)
           L(o) == IF o \in gone THEN DeletedLine
                   ELSE IF o \notin S THEN line[t][o]
                   ELSE IF LiveLine(t, o) THEN [line[t][o] EXCEPT !.qty = got[o]]
                   ELSE Line("PENDING", "INBOUND", h, got[o])
<1>1. /\ order' = [o \in Orders |-> IF o \in S THEN DraftedOrder(o, h, FALSE, got[o])
                                   ELSE IF o \in gone THEN RemovedOrder(o, t) ELSE order[o]]
      /\ line' = [line EXCEPT ![t] = [o \in Orders |-> L(o)]]
      /\ lastTrip' = lastTrip
  BY DEF SaveInboundDraft
<1>2. \A o \in Orders : Settled(order'[o], order[o]) \/ GivesUp(order'[o], ledger[o])
  <2> TAKE o \in Orders
  <2>1. HasFields(order[o])
    BY DEF Shaped
  <2>2. Settled(DraftedOrder(o, h, FALSE, got[o]), order[o])
    BY <2>1, DraftedSettled
  <2>3. o \in gone => \/ Settled(RemovedOrder(o, t), order[o])
                      \/ GivesUp(RemovedOrder(o, t), ledger[o])
    BY RemovedLines
  <2>4. Settled(order[o], order[o])
    BY <2>1 DEF Settled
  <2> HIDE DEF gone
  <2> QED
    BY <1>1, <2>2, <2>3, <2>4
<1>3. \A c \in Trips, o \in Orders :
        Kept(line'[c][o], line[c][o]) \/ Dropped(line'[c][o], order'[o], c)
  <2> TAKE c \in Trips, o \in Orders
  <2>1. HasColumns(line[c][o])
    BY DEF Shaped
  <2>2. CASE c # t
    BY <1>1, <2>1, <2>2 DEF Shaped, Kept
  <2>3. CASE c = t
    <3>1. line'[c][o] = L(o)
      BY <1>1, <2>3 DEF Shaped
    <3>2. CASE o \in gone
      <4>1. o \notin S
        BY <3>2 DEF Removed
      <4>2. order'[o] = RemovedOrder(o, t)
        BY <1>1, <3>2, <4>1
      <4>3. Dropped(DeletedLine, RemovedOrder(o, t), t)
        BY <3>2, RemovedLines
      <4> QED
        BY <2>3, <3>1, <3>2, <4>2, <4>3
    <3>3. Kept(line[c][o], line[c][o]) /\ Kept([line[c][o] EXCEPT !.qty = got[o]], line[c][o])
      BY <2>1 DEF Kept, HasColumns, Aboard, OfNoHub
    <3>4. ~LiveLine(c, o) => Kept(Line("PENDING", "INBOUND", h, got[o]), line[c][o])
      BY FreshLine DEF Kept, LiveLine, Aboard
    <3> HIDE DEF gone
    <3> QED
      BY <2>3, <3>1, <3>2, <3>3, <3>4
  <2> QED
    BY <2>2, <2>3
<1>5. DOMAIN order' = Orders /\ DOMAIN line' = Trips /\ \A c \in Trips : DOMAIN line'[c] = Orders
  BY <1>1 DEF Shaped
<1>6. lastTrip' \in lastTrip .. MaxTrips
  BY <1>1, BoundsAssumption DEF Shaped
<1> QED
  BY <1>2, <1>3, <1>5, <1>6, NobodyLeftBehind

(* A dispatch and its note rewrite the lines of a trip that nobody is on:   *)
(* a fresh code, or a note whose lines are all plans.                       *)
LEMMA PlannedLinesKept ==
  ASSUME Shaped, NEW h \in Hubs, NEW load \in Cargo, NEW to, NEW status, NEW draft,
         draft # NoTrip => OutboundDraft(draft, h),
         NEW t \in Trips, t = TripFor(draft), NEW o \in Orders, NEW ord
  PROVE  \/ Kept(Planned(t, h, load, to, status)[o], line[t][o])
         \/ Dropped(Planned(t, h, load, to, status)[o], ord, t)
<1>1. Planned(t, h, load, to, status)[o] \in
        {Line(status, OutKind(to), h, load[o]), DeletedLine, line[t][o]}
  BY DEF Planned
<1>2. t \in Codes => t = draft /\ draft # NoTrip
  BY BoundsAssumption DEF Shaped, Codes, TripFor
<1>3. t \in Codes => ~Aboard(line[t][o])
  BY <1>2 DEF OutboundDraft, LiveLines, LiveLine, PendingOut, Aboard
<1>4. HasColumns(line[t][o])
  BY DEF Shaped
<1>5. /\ HasColumns(Line(status, OutKind(to), h, load[o])) /\ HasColumns(DeletedLine)
      /\ ~OfNoHub(Line(status, OutKind(to), h, load[o])) /\ ~OfNoHub(DeletedLine)
  BY FreshLine
<1> HIDE DEF Aboard, OfNoHub, HasColumns
<1> QED
  BY <1>1, <1>3, <1>4, <1>5 DEF Kept, Dropped

LEMMA ConfirmOutboundRides ==
  ASSUME Shaped, RidesWell, InvoicesStay, NEW h \in Hubs, NEW load \in Cargo, NEW to,
         NEW draft \in Codes \cup {NoTrip},
         ConfirmOutbound(h, load, to, draft)
  PROVE  Shaped' /\ RidesWell'
<1> DEFINE S == DOMAIN load
           t == TripFor(draft)
           new == Planned(t, h, load, to, "IN_TRANSIT")
<1>1. /\ order' = [o \in Orders |-> IF o \in S THEN DispatchedOrder(o, t, load[o], to) ELSE order[o]]
      /\ line' = [line EXCEPT ![t] = new]
      /\ lastTrip' = IF draft = NoTrip THEN t ELSE lastTrip
      /\ t <= MaxTrips
      /\ draft # NoTrip => OutboundDraft(draft, h)
  BY DEF ConfirmOutbound
<1>2. t \in Trips /\ lastTrip' \in lastTrip .. MaxTrips
  BY <1>1, BoundsAssumption DEF Shaped, TripFor, Trips, Codes, NoTrip
<1>3. \A o \in Orders : Settled(order'[o], order[o])
  BY <1>1, DispatchedSettled DEF Shaped, Settled
<1>4. \A o \in Orders : Kept(new[o], line[t][o]) \/ Dropped(new[o], order'[o], t)
  BY <1>1, <1>2, PlannedLinesKept
<1>5. DOMAIN new = Orders
  BY DEF Planned
<1> HIDE DEF new, t
<1>6. \A c \in Trips, o \in Orders :
        Kept(line'[c][o], line[c][o]) \/ Dropped(line'[c][o], order'[o], c)
  BY <1>1, <1>4 DEF Shaped, Kept
<1>7. DOMAIN order' = Orders /\ DOMAIN line' = Trips /\ \A c \in Trips : DOMAIN line'[c] = Orders
  BY <1>1, <1>5 DEF Shaped
<1> QED
  BY <1>2, <1>3, <1>6, <1>7, NobodyLeftBehind

LEMMA SaveOutboundDraftRides ==
  ASSUME Shaped, RidesWell, InvoicesStay, NEW h \in Hubs, NEW load \in Cargo, NEW to,
         NEW draft \in Codes \cup {NoTrip},
         SaveOutboundDraft(h, load, to, draft)
  PROVE  Shaped' /\ RidesWell'
<1> DEFINE t == TripFor(draft)
           new == Planned(t, h, load, to, "PENDING")
<1>1. /\ order' = order
      /\ line' = [line EXCEPT ![t] = new]
      /\ lastTrip' = IF draft = NoTrip THEN t ELSE lastTrip
      /\ t <= MaxTrips
      /\ draft # NoTrip => OutboundDraft(draft, h)
  BY DEF SaveOutboundDraft
<1>2. t \in Trips /\ lastTrip' \in lastTrip .. MaxTrips
  BY <1>1, BoundsAssumption DEF Shaped, TripFor, Trips, Codes, NoTrip
<1>3. \A o \in Orders : Settled(order'[o], order[o])
  BY <1>1 DEF Shaped, Settled
<1>4. \A o \in Orders : Kept(new[o], line[t][o]) \/ Dropped(new[o], order'[o], t)
  BY <1>1, <1>2, PlannedLinesKept
<1>5. DOMAIN new = Orders
  BY DEF Planned
<1> HIDE DEF new, t
<1>6. \A c \in Trips, o \in Orders :
        Kept(line'[c][o], line[c][o]) \/ Dropped(line'[c][o], order'[o], c)
  BY <1>1, <1>4 DEF Shaped, Kept
<1>7. DOMAIN order' = Orders /\ DOMAIN line' = Trips /\ \A c \in Trips : DOMAIN line'[c] = Orders
  BY <1>1, <1>5 DEF Shaped
<1> QED
  BY <1>2, <1>3, <1>6, <1>7, NobodyLeftBehind

LEMMA CancelOutboundDraftRides ==
  ASSUME Shaped, RidesWell, InvoicesStay, NEW h, NEW t \in Codes, CancelOutboundDraft(h, t)
  PROVE  Shaped' /\ RidesWell'
<1> DEFINE new == [o \in Orders |-> IF LiveLine(t, o) THEN DeletedLine ELSE line[t][o]]
<1>1. /\ order' = order /\ lastTrip' = lastTrip
      /\ line' = [line EXCEPT ![t] = new]
      /\ OutboundDraft(t, h)
  BY DEF CancelOutboundDraft
<1>2. \A o \in Orders : ~Aboard(line[t][o])
  BY <1>1 DEF OutboundDraft, LiveLines, LiveLine, PendingOut, Aboard
<1>3. DOMAIN new = Orders /\ t \in Trips
  BY BoundsAssumption DEF Shaped, Codes, Trips
<1>4. \A o \in Orders : Kept(new[o], line[t][o])
  BY <1>2, <1>3, FreshLine DEF Shaped, Kept
<1> HIDE DEF new
<1>5. \A c \in Trips, o \in Orders : Kept(line'[c][o], line[c][o])
  BY <1>1, <1>4 DEF Shaped, Kept
<1>6. /\ \A o \in Orders : Settled(order'[o], order[o])
      /\ DOMAIN order' = Orders /\ DOMAIN line' = Trips /\ \A c \in Trips : DOMAIN line'[c] = Orders
      /\ lastTrip' \in lastTrip .. MaxTrips
  BY <1>1, <1>3, BoundsAssumption DEF Shaped, Settled
<1> QED
  BY <1>5, <1>6, NobodyLeftBehind

LEMMA CancelInboundDraftRides ==
  ASSUME Shaped, RidesWell, InvoicesStay, NEW h, NEW t \in Codes, CancelInboundDraft(h, t)
  PROVE  Shaped' /\ RidesWell'
<1> DEFINE new == [o \in Orders |-> IF line[t][o].status = "PENDING" THEN DeletedLine ELSE line[t][o]]
<1>1. /\ order' = [o \in Orders |-> CancelledOrder(o, t)] /\ lastTrip' = lastTrip
      /\ line' = [line EXCEPT ![t] = new]
  BY DEF CancelInboundDraft
<1>2. \A o \in Orders : line[t][o].status = "PENDING" => ~Aboard(line[t][o])
  BY DEF Aboard
<1>3. DOMAIN new = Orders /\ t \in Trips
  BY BoundsAssumption DEF Shaped, Codes, Trips
<1>4. \A o \in Orders : Kept(new[o], line[t][o])
  BY <1>2, <1>3, FreshLine DEF Shaped, Kept
<1> HIDE DEF new
<1>5. \A c \in Trips, o \in Orders : Kept(line'[c][o], line[c][o])
  BY <1>1, <1>4 DEF Shaped, Kept
<1>6. \A o \in Orders : Settled(order'[o], order[o])
  BY <1>1, CancelledSettled DEF Shaped
<1>7. /\ DOMAIN order' = Orders /\ DOMAIN line' = Trips /\ \A c \in Trips : DOMAIN line'[c] = Orders
      /\ lastTrip' \in lastTrip .. MaxTrips
  BY <1>1, <1>3, BoundsAssumption DEF Shaped
<1> QED
  BY <1>5, <1>6, <1>7, NobodyLeftBehind

(* Every order a loading handler puts on the road has its line there. *)
LEMMA LoadedAndAboard ==
  ASSUME Shaped, RidesWell, InvoicesStay, NEW t \in Codes, NEW S \in SUBSET Orders,
         lastTrip' = lastTrip, DOMAIN order' = Orders, DOMAIN line' = Trips,
         \A c \in Trips : DOMAIN line'[c] = Orders,
         \A o \in Orders \ S : order'[o] = order[o],
         \A o \in S : HasFields(order'[o]) /\ order'[o].trip = t,
         \A c \in Trips, o \in Orders :
           /\ HasColumns(line'[c][o])
           /\ Aboard(line[c][o]) => Aboard(line'[c][o])
           /\ OfNoHub(line'[c][o]) => OfNoHub(line[c][o]) \/ Roadside(ledger'[o]),
         \A o \in S : Aboard(line'[t][o])
  PROVE  Shaped' /\ RidesWell'
<1>1. Codes' = Codes /\ Codes \subseteq Trips /\ NoTrip \notin Codes
  BY BoundsAssumption DEF Shaped, Codes, Trips, NoTrip
<1>2. LedgersInOrder' /\ \A o \in Orders : Roadside(ledger[o]) => Roadside(ledger'[o])
  BY DEF InvoicesStay, LedgersInOrder, Keeps
<1>3. Shaped'
  BY <1>2 DEF Shaped
<1>4. ASSUME NEW o \in Orders, InTransitTo(order'[o])
      PROVE  IF order'[o].trip = NoTrip THEN Roadside(ledger'[o])
             ELSE order'[o].trip \in Codes' /\ Aboard(line'[order'[o].trip][o])
  <2>1. CASE o \in S
    BY <2>1, <1>1
  <2>2. CASE o \notin S
    <3>1. order'[o] = order[o]
      BY <2>2
    <3> QED
      BY <3>1, <1>1, <1>2, <1>4 DEF RidesWell
  <2> QED
    BY <2>1, <2>2
<1>5. \A c \in Trips, o \in Orders : OfNoHub(line'[c][o]) => Roadside(ledger'[o])
  BY <1>2 DEF RidesWell
<1> QED
  BY <1>3, <1>4, <1>5 DEF RidesWell

LEMMA AppendOrderToTripRides ==
  ASSUME Shaped, RidesWell, InvoicesStay, NEW h \in Hubs, NEW admin, NEW t \in Codes,
         NEW o \in Orders, NEW q, NEW to,
         AppendOrderToTrip(h, admin, t, o, q, to)
  PROVE  Shaped' /\ RidesWell'
<1> DEFINE S == {o}
           fresh == [NewOrder(h, "IN_TRANSIT", q, q) EXCEPT !.inb = 0, !.trip = t]
           moved == [order[o] EXCEPT !.status = "IN_TRANSIT", !.trip = t]
           new == Line("IN_TRANSIT", "TRANSFER", h, q)
<1>1. /\ order' = [order EXCEPT ![o] = IF IsUnborn(o) THEN fresh ELSE moved]
      /\ line' = [line EXCEPT ![t][o] = new] /\ lastTrip' = lastTrip
  BY DEF AppendOrderToTrip
<1>2. HasFields(fresh) /\ fresh.trip = t
  BY DEF HasFields, NewOrder, NoOrder
<1>3. HasFields(moved) /\ moved.trip = t
  BY DEF HasFields, Shaped
<1>4. HasColumns(new) /\ Aboard(new) /\ ~OfNoHub(new)
  BY FreshLine DEF HasColumns, Aboard, Line, Dispatch
<1>5. t \in Trips
  BY BoundsAssumption DEF Shaped, Codes, Trips
<1> HIDE DEF fresh, moved, new
<1>6. \A c \in Trips, p \in Orders :
        /\ HasColumns(line'[c][p])
        /\ Aboard(line[c][p]) => Aboard(line'[c][p])
        /\ OfNoHub(line'[c][p]) => OfNoHub(line[c][p]) \/ Roadside(ledger'[p])
  BY <1>1, <1>4, <1>5 DEF Shaped
<1>7. S \in SUBSET Orders /\ \A p \in S : Aboard(line'[t][p])
  BY <1>1, <1>4, <1>5 DEF Shaped
<1>8. /\ \A p \in S : HasFields(order'[p]) /\ order'[p].trip = t
      /\ \A p \in Orders \ S : order'[p] = order[p]
  BY <1>1, <1>2, <1>3 DEF Shaped
<1>9. DOMAIN order' = Orders /\ DOMAIN line' = Trips /\ \A c \in Trips : DOMAIN line'[c] = Orders
  BY <1>1, <1>5 DEF Shaped
<1> HIDE DEF S
<1> QED
  BY <1>1, <1>6, <1>7, <1>8, <1>9, LoadedAndAboard

LEMMA PickUpOnTheRoadRides ==
  ASSUME Shaped, RidesWell, InvoicesStay, NEW h, NEW admin, NEW t \in Codes,
         NEW o \in Orders, NEW q,
         PickUpOnTheRoad(h, admin, t, o, q)
  PROVE  Shaped' /\ RidesWell'
<1> DEFINE S == {o}
           fresh == [NewOrder(NoHub, "IN_TRANSIT", q, q) EXCEPT !.inb = 0, !.trip = t]
           new == Line("IN_TRANSIT", "INBOUND", NoHub, q)
<1>1. /\ order' = [order EXCEPT ![o] = fresh]
      /\ line' = [line EXCEPT ![t][o] = new] /\ lastTrip' = lastTrip
  BY DEF PickUpOnTheRoad
<1>2. HasFields(fresh) /\ fresh.trip = t
  BY DEF HasFields, NewOrder, NoOrder
<1>3. HasColumns(new) /\ Aboard(new)
  BY DEF HasColumns, Aboard, Line
<1>4. t \in Trips
  BY BoundsAssumption DEF Shaped, Codes, Trips
<1> HIDE DEF fresh, new
<1>9. Roadside(ledger'[o])
  <2>1. ledger'[o] = Append(ledger[o], Row("INBOUND", NoHub, t, q)) /\ InOrder(ledger[o])
    BY DEF PickUpOnTheRoad, Shaped, LedgersInOrder
  <2> QED
    BY <2>1, RoadsideRow
<1>5. \A c \in Trips, p \in Orders :
        /\ HasColumns(line'[c][p])
        /\ Aboard(line[c][p]) => Aboard(line'[c][p])
        /\ OfNoHub(line'[c][p]) => OfNoHub(line[c][p]) \/ Roadside(ledger'[p])
  BY <1>1, <1>3, <1>4, <1>9 DEF Shaped
<1>6. S \in SUBSET Orders /\ \A p \in S : Aboard(line'[t][p])
  BY <1>1, <1>3, <1>4 DEF Shaped
<1>7. /\ \A p \in S : HasFields(order'[p]) /\ order'[p].trip = t
      /\ \A p \in Orders \ S : order'[p] = order[p]
  BY <1>1, <1>2 DEF Shaped
<1>8. DOMAIN order' = Orders /\ DOMAIN line' = Trips /\ \A c \in Trips : DOMAIN line'[c] = Orders
  BY <1>1, <1>4 DEF Shaped
<1> HIDE DEF S
<1> QED
  BY <1>1, <1>5, <1>6, <1>7, <1>8, LoadedAndAboard

LEMMA AppendStoredOrdersToTripRides ==
  ASSUME Shaped, RidesWell, InvoicesStay, NEW h \in Hubs, NEW admin, NEW t \in Codes,
         NEW S \in SUBSET Orders,
         AppendStoredOrdersToTrip(h, admin, t, S)
  PROVE  Shaped' /\ RidesWell'
<1> DEFINE Sent(o) == order[o].outb + WholeLoad(o)
           moved(o) == [order[o] EXCEPT !.status = "IN_TRANSIT", !.trip = t, !.outb = Sent(o),
                                        !.rem = Monus(order[o].total, Sent(o))]
           fresh(o) == Line("IN_TRANSIT", "TRANSFER", h, WholeLoad(o))
           new == [o \in Orders |-> IF o \in S THEN fresh(o) ELSE line[t][o]]
<1>1. /\ order' = [o \in Orders |-> IF o \notin S THEN order[o] ELSE moved(o)]
      /\ line' = [line EXCEPT ![t] = new] /\ lastTrip' = lastTrip
  BY DEF AppendStoredOrdersToTrip
<1>2. \A o \in S : HasFields(moved(o)) /\ moved(o).trip = t
  BY DEF HasFields, Shaped
<1>3. \A o \in S : HasColumns(fresh(o)) /\ Aboard(fresh(o)) /\ ~OfNoHub(fresh(o))
  BY FreshLine DEF HasColumns, Aboard, Line, Dispatch
<1>4. t \in Trips
  BY BoundsAssumption DEF Shaped, Codes, Trips
<1> HIDE DEF moved, fresh
<1>5. /\ DOMAIN new = Orders
      /\ \A o \in S : Aboard(new[o])
      /\ \A o \in Orders : Kept(new[o], line[t][o])
  BY <1>3, <1>4 DEF Shaped, Kept
<1> HIDE DEF new
<1>6. \A c \in Trips, p \in Orders : Kept(line'[c][p], line[c][p])
  BY <1>1, <1>4, <1>5 DEF Shaped, Kept
<1>7. \A o \in S : Aboard(line'[t][o])
  BY <1>1, <1>4, <1>5 DEF Shaped
<1>8. /\ \A o \in S : HasFields(order'[o]) /\ order'[o].trip = t
      /\ \A p \in Orders \ S : order'[p] = order[p]
  BY <1>1, <1>2
<1>9. DOMAIN order' = Orders /\ DOMAIN line' = Trips /\ \A c \in Trips : DOMAIN line'[c] = Orders
  BY <1>1, <1>4, <1>5 DEF Shaped
<1>10. \A c \in Trips, p \in Orders :
        /\ HasColumns(line'[c][p])
        /\ Aboard(line[c][p]) => Aboard(line'[c][p])
        /\ OfNoHub(line'[c][p]) => OfNoHub(line[c][p]) \/ Roadside(ledger'[p])
  BY <1>6 DEF Kept
<1>11. lastTrip' = lastTrip
  BY <1>1
<1> HIDE DEF Kept, Aboard, OfNoHub, HasColumns, HasFields
<1> QED
  BY <1>7, <1>8, <1>9, <1>10, <1>11, LoadedAndAboard

(* A redirected line leaves a hub, whatever it was before. *)
LEMMA UpdateTripOrderDestinationRides ==
  ASSUME Shaped, RidesWell, InvoicesStay, NEW h, NEW admin, NEW t \in Codes,
         NEW o \in Orders, NEW to, UpdateTripOrderDestination(h, admin, t, o, to)
  PROVE  Shaped' /\ RidesWell'
<1> DEFINE new == [line[t][o] EXCEPT !.kind = OutKind(to)]
<1>1. line' = [line EXCEPT ![t][o] = new] /\ order' = order /\ lastTrip' = lastTrip
  BY DEF UpdateTripOrderDestination
<1>2. Kept(new, line[t][o])
  BY BoundsAssumption DEF Shaped, Codes, Trips, Kept, HasColumns, Aboard, OfNoHub, OutKind,
     Dispatch
<1>3. t \in Trips
  BY BoundsAssumption DEF Shaped, Codes, Trips
<1> HIDE DEF new
<1>4. \A c \in Trips, p \in Orders : Kept(line'[c][p], line[c][p])
  BY <1>1, <1>2, <1>3 DEF Shaped, Kept
<1>5. DOMAIN order' = Orders /\ DOMAIN line' = Trips /\ \A c \in Trips : DOMAIN line'[c] = Orders
  BY <1>1, <1>3 DEF Shaped
<1>6. \A c \in Trips, p \in Orders :
        /\ HasColumns(line'[c][p])
        /\ Aboard(line[c][p]) => Aboard(line'[c][p])
        /\ OfNoHub(line'[c][p]) => OfNoHub(line[c][p]) \/ Roadside(ledger'[p])
  BY <1>4 DEF Kept
<1> QED
  BY <1>1, <1>5, <1>6, LoadedAndAboard, {} \in SUBSET Orders

LEMMA RoutineRides ==
  ASSUME Shaped, RidesWell, RoutineNext
  PROVE  Shaped' /\ RidesWell'
<1> InvoicesStay
  BY RoutineInvoicesStay DEF Shaped
<1>1. CASE \E o \in Orders, h \in Hubs \cup {NoHub}, q \in 1 .. MaxQty : CreateOrder(o, h, q)
  BY <1>1, CreateOrderRides
<1>2. CASE \E o \in Orders, h \in Hubs, q \in 1 .. MaxQty, d \in BOOLEAN : QuickCreateInbound(o, h, q, d)
  BY <1>2, QuickCreateInboundRides
<1>3. CASE \E h \in Hubs, got \in Cargo, drafts \in SUBSET Orders : BatchCreateInbound(h, got, drafts)
  BY <1>3, BatchCreateInboundRides
<1>4. CASE \E h \in Hubs, t \in Codes \cup {NoTrip}, got \in Cargo, keep \in BOOLEAN :
             OwnDrafts(h, got) /\ Arrived(t, got) /\ ConfirmInbound(h, FALSE, t, got, keep)
  BY <1>4, ConfirmInboundRides
<1>5. CASE \E h \in Hubs, t \in Codes, got \in Cargo :
             NotYetStored(h, got) /\ Arrived(t, got) /\ SaveInboundDraft(h, FALSE, t, got)
  BY <1>5, SaveInboundDraftRides
<1>6. CASE \E h \in Hubs, load \in Cargo, to \in Hubs \cup {NoHub}, d \in Codes \cup {NoTrip} :
             to # h /\ Holds(h, load) /\ ConfirmOutbound(h, load, to, d)
  BY <1>6, ConfirmOutboundRides
<1>7. CASE \E h \in Hubs, load \in Cargo, to \in Hubs \cup {NoHub}, d \in Codes \cup {NoTrip} :
             to # h /\ Holds(h, load) /\ SaveOutboundDraft(h, load, to, d)
  BY <1>7, SaveOutboundDraftRides
<1>8. CASE \E h \in Hubs, t \in Codes : CancelOutboundDraft(h, t)
  BY <1>8, CancelOutboundDraftRides
<1>9. CASE \E h \in Hubs, t \in Codes : CancelInboundDraft(h, t)
  BY <1>9, CancelInboundDraftRides
<1>10. CASE \E h \in Hubs, t \in Codes : UpdateTransitStep(h, t)
  BY <1>10 DEF UpdateTransitStep, Shaped, RidesWell, Codes, LedgersInOrder
<1> QED
  BY <1>1, <1>2, <1>3, <1>4, <1>5, <1>6, <1>7, <1>8, <1>9, <1>10 DEF RoutineNext

LEMMA LoadingRides ==
  ASSUME Shaped, RidesWell, Loading
  PROVE  Shaped' /\ RidesWell'
<1> PICK h \in Hubs, admin \in BOOLEAN, t \in Codes :
      \/ \E o \in Orders, q \in 1 .. MaxQty, to \in Hubs \ {h} : AppendOrderToTrip(h, admin, t, o, q, to)
      \/ \E o \in Orders, q \in 1 .. MaxQty : PickUpOnTheRoad(h, admin, t, o, q)
      \/ \E S \in (SUBSET Orders) \ {{}} : AppendStoredOrdersToTrip(h, admin, t, S)
      \/ \E o \in Orders, to \in Hubs \cup {NoHub} : UpdateTripOrderDestination(h, admin, t, o, to)
  BY DEF Loading
<1> InvoicesStay
  BY LoadingInvoicesStay DEF Shaped
<1>1. CASE \E o \in Orders, q \in 1 .. MaxQty, to \in Hubs \ {h} : AppendOrderToTrip(h, admin, t, o, q, to)
  BY <1>1, AppendOrderToTripRides
<1>2. CASE \E o \in Orders, q \in 1 .. MaxQty : PickUpOnTheRoad(h, admin, t, o, q)
  BY <1>2, PickUpOnTheRoadRides
<1>3. CASE \E S \in (SUBSET Orders) \ {{}} : AppendStoredOrdersToTrip(h, admin, t, S)
  BY <1>3, AppendStoredOrdersToTripRides
<1>4. CASE \E o \in Orders, to \in Hubs \cup {NoHub} : UpdateTripOrderDestination(h, admin, t, o, to)
  BY <1>4, UpdateTripOrderDestinationRides
<1> QED
  BY <1>1, <1>2, <1>3, <1>4

LEMMA RidesInit == Init => Shaped /\ RidesWell
<1> SUFFICES ASSUME Init PROVE Shaped /\ RidesWell
  OBVIOUS
<1>1. \A o \in Orders : order[o] = NoOrder /\ ledger[o] = <<>>
  BY DEF Init
<1>2. \A t \in Trips : DOMAIN line[t] = Orders /\ \A o \in Orders : line[t][o] = NoLine
  BY DEF Init
<1>3. HasFields(NoOrder) /\ ~InTransitTo(NoOrder)
  BY DEF HasFields, InTransitTo, NoOrder
<1>4. HasColumns(NoLine) /\ ~OfNoHub(NoLine)
  BY DEF HasColumns, OfNoHub, NoLine
<1>5. InOrder(<<>>)
  <2>1. <<>> \in Seq({}) /\ DOMAIN <<>> = {}
    OBVIOUS
  <2> QED
    BY <2>1 DEF InOrder
<1>6. DOMAIN order = Orders /\ DOMAIN ledger = Orders /\ DOMAIN line = Trips /\ lastTrip = 0
  BY DEF Init
<1> QED
  BY <1>1, <1>2, <1>3, <1>4, <1>5, <1>6, BoundsAssumption DEF Shaped, RidesWell, LedgersInOrder

LEMMA NothingMoves ==
  ASSUME Shaped, RidesWell, UNCHANGED everything
  PROVE  (Shaped /\ RidesWell)'
BY DEF everything, Shaped, RidesWell, Codes, LedgersInOrder

LEMMA RidesMean == Shaped /\ RidesWell => RidesItsTrip
<1> SUFFICES ASSUME Shaped, RidesWell, NEW o \in Orders, IsLive(o), order[o].status = "IN_TRANSIT"
             PROVE  IF order[o].trip = NoTrip THEN PickedUp(o) ELSE LiveLine(order[o].trip, o)
  BY DEF RidesItsTrip
<1>1. InTransitTo(order[o])
  BY DEF InTransitTo, IsLive
<1>2. Roadside(ledger[o]) => PickedUp(o)
  BY DEF Roadside, PickedUp, RowsAt, Rows
<1> QED
  BY <1>1, <1>2 DEF RidesWell, LiveLine, Aboard

(* An order on the road is on a live line of the trip it names, through any *)
(* interleaving of the daily handlers with loading and redirecting on the   *)
(* road (appendOrderToTrip, appendStoredOrdersToTrip,                       *)
(* updateTripOrderDestination), for any orders, hubs and quantities.        *)
THEOREM OrdersRideTheirTrips == LoadingSpec => []RidesItsTrip
<1>1. CorrectionsInit => Shaped /\ RidesWell
  BY RidesInit DEF CorrectionsInit
<1>2. Shaped /\ RidesWell /\ [Routine \/ Loading]_everything => (Shaped /\ RidesWell)'
  <2> SUFFICES ASSUME Shaped, RidesWell, [Routine \/ Loading]_everything
               PROVE  (Shaped /\ RidesWell)'
    OBVIOUS
  <2>1. CASE Routine
    BY <2>1, RoutineRides DEF Routine
  <2>2. CASE Loading
    BY <2>2, LoadingRides
  <2>3. CASE UNCHANGED everything
    BY <2>3, NothingMoves
  <2> QED
    BY <2>1, <2>2, <2>3
<1> QED
  BY <1>1, <1>2, RidesMean, PTL DEF LoadingSpec

(* The same of the specification the run explores: in its world of loading, *)
(* where nothing is rolled back.                                            *)
THEOREM LoadedOrdersRideAlong == OnTheRoadSpec => []LoadedOrdersRide
<1> DEFINE Inv == work = "loading" => Shaped /\ RidesWell
<1>1. OnTheRoadInit => Inv
  BY RidesInit DEF OnTheRoadInit, CorrectionsInit
<1>2. Inv /\ [OnTheRoadWork /\ UNCHANGED work]_<<everything, work>> => Inv'
  <2> SUFFICES ASSUME Inv, [OnTheRoadWork /\ UNCHANGED work]_<<everything, work>>, work' = "loading"
               PROVE  (Shaped /\ RidesWell)'
    OBVIOUS
  <2>1. Shaped /\ RidesWell /\ work = "loading"
    OBVIOUS
  <2>2. CASE Routine
    BY <2>1, <2>2, RoutineRides DEF Routine
  <2>3. CASE Loading
    BY <2>1, <2>3, LoadingRides
  <2>4. CASE UNCHANGED everything
    BY <2>1, <2>4, NothingMoves
  <2> QED
    BY <2>1, <2>2, <2>3, <2>4 DEF OnTheRoadWork
<1>3. Inv => LoadedOrdersRide
  BY RidesMean DEF LoadedOrdersRide
<1> QED
  BY <1>1, <1>2, <1>3, PTL DEF OnTheRoadSpec

-----------------------------------------------------------------------------
(***************************************************************************)
(* Trips loaded on the road and reopened: a line on the road has its        *)
(* invoice.  Every handler that puts a line on the road books it in the     *)
(* same step; afterwards a line stays at the hub it was loaded at, and the  *)
(* only handler that takes an invoice out, the rollback of a trip, reopens  *)
(* every line of that trip, whichever of its invoices it takes.             *)
(***************************************************************************)
Carried(l) == IF l.hub = NoHub THEN Receipt ELSE Dispatch
Covered(l, s, t) == l.status = "IN_TRANSIT" => BookedFor(s, Carried(l), t)

RoadBooked ==
  /\ lastTrip \in 0 .. MaxTrips
  /\ DOMAIN ledger = Orders /\ DOMAIN line = Trips
  /\ \A o \in Orders : InOrder(ledger[o])
  /\ \A t \in Trips : DOMAIN line[t] = Orders
  /\ \A t \in Trips, o \in Orders : HasColumns(line[t][o]) /\ Covered(line[t][o], ledger[o], t)

(* No line is put on the road. *)
Stays(new, l) ==
  HasColumns(new) /\ (new.status = "IN_TRANSIT" => l.status = "IN_TRANSIT" /\ new.hub = l.hub)

(* A step that takes no invoice out and books every line it puts on the     *)
(* road.                                                                    *)
LEMMA RoadKept ==
  ASSUME RoadBooked, lastTrip' \in 0 .. MaxTrips,
         DOMAIN ledger' = Orders, DOMAIN line' = Trips,
         \A t \in Trips : DOMAIN line'[t] = Orders,
         \A o \in Orders : Keeps(ledger[o], ledger'[o]),
         \A t \in Trips, o \in Orders :
           \/ Stays(line'[t][o], line[t][o])
           \/ HasColumns(line'[t][o]) /\ Covered(line'[t][o], ledger'[o], t)
  PROVE  RoadBooked'
<1>1. \A o \in Orders : InOrder(ledger'[o])
  BY DEF Keeps
<1>2. ASSUME NEW t \in Trips, NEW o \in Orders
      PROVE  HasColumns(line'[t][o]) /\ Covered(line'[t][o], ledger'[o], t)
  <2>1. CASE HasColumns(line'[t][o]) /\ Covered(line'[t][o], ledger'[o], t)
    BY <2>1
  <2>2. CASE Stays(line'[t][o], line[t][o])
    <3>1. HasColumns(line'[t][o])
      BY <2>2 DEF Stays
    <3>2. ASSUME line'[t][o].status = "IN_TRANSIT"
          PROVE  BookedFor(ledger'[o], Carried(line'[t][o]), t)
      <4>1. line[t][o].status = "IN_TRANSIT" /\ line'[t][o].hub = line[t][o].hub
        BY <2>2, <3>2 DEF Stays
      <4>2. Carried(line'[t][o]) = Carried(line[t][o])
        BY <4>1 DEF Carried
      <4>3. BookedFor(ledger[o], Carried(line[t][o]), t)
        BY <4>1 DEF RoadBooked, Covered
      <4>4. BookedFor(ledger'[o], Carried(line[t][o]), t)
        BY <4>3 DEF Keeps
      <4> QED
        BY <4>2, <4>4
    <3> QED
      BY <3>1, <3>2 DEF Covered
  <2> QED
    BY <1>2, <2>1, <2>2
<1> QED
  BY <1>1, <1>2 DEF RoadBooked

(* What each way of writing a line does to a line on the road. *)
LEMMA SweptStays ==
  ASSUME NEW l, HasColumns(l), NEW done \in BOOLEAN
  PROVE  Stays(Sweep(l, done), l)
<1>1. CASE done /\ l.status \notin {"NONE", "DELETED"}
  BY <1>1 DEF Stays, Sweep, HasColumns
<1>2. CASE ~(done /\ l.status \notin {"NONE", "DELETED"})
  BY <1>2 DEF Stays, Sweep
<1> QED
  BY <1>1, <1>2

LEMMA WrittenStays ==
  ASSUME NEW l, NEW kind, NEW h, NEW q
  PROVE  /\ Stays(Line("PENDING", kind, h, q), l) /\ Stays(Line("COMPLETED", kind, h, q), l)
         /\ Stays(DeletedLine, l)
BY DEF Stays, HasColumns, Line, DeletedLine, NoLine

LEMMA RequantifiedStays ==
  ASSUME NEW l, HasColumns(l), NEW q
  PROVE  Stays([l EXCEPT !.qty = q], l)
BY DEF Stays, HasColumns

LEMMA ReceivedLineStays ==
  ASSUME NEW c, NEW o, HasColumns(line[c][o]), NEW h, NEW admin \in BOOLEAN, NEW t, NEW q,
         NEW keep \in BOOLEAN
  PROVE  Stays(ReceivedLine(c, o, h, admin, t, q, keep), line[c][o])
<1> DEFINE l == line[c][o]
           new == ReceivedLine(c, o, h, admin, t, q, keep)
<1>1. \/ new = l
      \/ new = [l EXCEPT !.qty = q]
      \/ new = [l EXCEPT !.qty = q, !.status = IF keep THEN @ ELSE "COMPLETED"]
      \/ new = Line("PENDING", "INBOUND", h, q)
      \/ new = Line("COMPLETED", "INBOUND", h, q)
  BY DEF ReceivedLine
<1>2. HasColumns(l)
  OBVIOUS
<1> HIDE DEF new, l
<1>3. Stays(new, l)
  <2>1. CASE new = Line("PENDING", "INBOUND", h, q) \/ new = Line("COMPLETED", "INBOUND", h, q)
    BY <2>1, WrittenStays
  <2>2. CASE new = l \/ new = [l EXCEPT !.qty = q]
    BY <1>2, <2>2 DEF Stays, HasColumns
  <2>3. CASE new = [l EXCEPT !.qty = q, !.status = IF keep THEN @ ELSE "COMPLETED"]
    BY <1>2, <2>3 DEF Stays, HasColumns
  <2> QED
    BY <1>1, <2>1, <2>2, <2>3
<1> QED
  BY <1>3 DEF new, l

(* A handler that leaves every line alone, or writes the lines of one trip. *)
LEMMA LinesAlone ==
  ASSUME RoadBooked, line' = line
  PROVE  /\ DOMAIN line' = Trips /\ \A t \in Trips : DOMAIN line'[t] = Orders
         /\ \A t \in Trips, o \in Orders : Stays(line'[t][o], line[t][o])
BY DEF RoadBooked, Stays

LEMMA OneTripWritten ==
  ASSUME RoadBooked, lastTrip' \in 0 .. MaxTrips, DOMAIN ledger' = Orders,
         \A o \in Orders : Keeps(ledger[o], ledger'[o]),
         NEW t \in Trips, NEW new, DOMAIN new = Orders, line' = [line EXCEPT ![t] = new],
         \A o \in Orders : \/ Stays(new[o], line[t][o])
                           \/ HasColumns(new[o]) /\ Covered(new[o], ledger'[o], t)
  PROVE  RoadBooked'
<1>1. \A c \in Trips : line'[c] = IF c = t THEN new ELSE line[c]
  BY DEF RoadBooked
<1>2. DOMAIN line' = Trips /\ \A c \in Trips : DOMAIN line'[c] = Orders
  BY <1>1 DEF RoadBooked
<1>3. \A c \in Trips, o \in Orders : c # t => Stays(line'[c][o], line[c][o])
  BY <1>1 DEF RoadBooked, Stays
<1>4. \A c \in Trips, o \in Orders :
        \/ Stays(line'[c][o], line[c][o])
        \/ HasColumns(line'[c][o]) /\ Covered(line'[c][o], ledger'[o], c)
  BY <1>1, <1>3
<1> QED
  BY <1>2, <1>4, RoadKept

LEMMA InvoicesAlone ==
  ASSUME RoadBooked, ledger' = ledger
  PROVE  DOMAIN ledger' = Orders /\ \A o \in Orders : Keeps(ledger[o], ledger'[o])
BY SameKeeps DEF RoadBooked

LEMMA OneInvoiceMore ==
  ASSUME RoadBooked, NEW o \in Orders, NEW k, NEW h, NEW t, NEW q,
         ledger' = [ledger EXCEPT ![o] = Append(@, Row(k, h, t, q))]
  PROVE  /\ DOMAIN ledger' = Orders /\ \A p \in Orders : Keeps(ledger[p], ledger'[p])
         /\ \A K : k \in K => BookedFor(ledger'[o], K, t)
<1>1. /\ Keeps(ledger[o], Append(ledger[o], Row(k, h, t, q)))
      /\ \A K : k \in K => BookedFor(Append(ledger[o], Row(k, h, t, q)), K, t)
  BY RowKeeps DEF RoadBooked
<1>2. \A p \in Orders : Keeps(ledger[p], ledger[p])
  BY SameKeeps DEF RoadBooked
<1>3. \A p \in Orders : ledger'[p] = IF p = o THEN Append(ledger[o], Row(k, h, t, q)) ELSE ledger[p]
  BY DEF RoadBooked
<1>4. DOMAIN ledger' = Orders
  BY DEF RoadBooked
<1> QED
  BY <1>1, <1>2, <1>3, <1>4

(* One lemma per daily handler. *)
LEMMA CreateOrderBooked ==
  ASSUME RoadBooked, NEW o \in Orders, NEW h, NEW q, CreateOrder(o, h, q)
  PROVE  RoadBooked'
<1>1. ledger' = ledger /\ line' = line /\ lastTrip' \in 0 .. MaxTrips
  BY DEF CreateOrder, RoadBooked
<1> QED
  BY <1>1, LinesAlone, InvoicesAlone, RoadKept

LEMMA QuickCreateInboundBooked ==
  ASSUME RoadBooked, NEW o \in Orders, NEW h, NEW q, NEW draft \in BOOLEAN,
         QuickCreateInbound(o, h, q, draft)
  PROVE  RoadBooked'
<1>1. line' = line /\ lastTrip' \in 0 .. MaxTrips
  BY DEF QuickCreateInbound, RoadBooked
<1>2. \/ ledger' = ledger
      \/ ledger' = [ledger EXCEPT ![o] = Append(@, Row("INBOUND", h, NoTrip, q))]
  BY DEF QuickCreateInbound
<1>3. DOMAIN ledger' = Orders /\ \A p \in Orders : Keeps(ledger[p], ledger'[p])
  BY <1>2, InvoicesAlone, OneInvoiceMore
<1> QED
  BY <1>1, <1>3, LinesAlone, RoadKept

LEMMA BatchCreateInboundBooked ==
  ASSUME RoadBooked, NEW h, NEW got \in Cargo, NEW drafts, BatchCreateInbound(h, got, drafts)
  PROVE  RoadBooked'
<1> DEFINE S == DOMAIN got
           t == lastTrip + 1
           new == [o \in Orders |->
                     IF o \in S
                     THEN Line(IF o \in drafts THEN "PENDING" ELSE "COMPLETED", "INBOUND", h, got[o])
                     ELSE line[t][o]]
<1>1. /\ lastTrip < MaxTrips /\ lastTrip' = t
      /\ ledger' = [o \in Orders |-> IF o \in S \ drafts
                                     THEN Append(ledger[o], Row("INBOUND", h, t, got[o]))
                                     ELSE ledger[o]]
      /\ line' = [line EXCEPT ![t] = new]
  BY DEF BatchCreateInbound
<1>2. t \in Trips /\ lastTrip' \in 0 .. MaxTrips
  BY <1>1, BoundsAssumption DEF RoadBooked, Trips
<1>3. \A o \in Orders : Stays(new[o], line[t][o])
  <2> TAKE o \in Orders
  <2>1. Stays(line[t][o], line[t][o])
    BY <1>2 DEF RoadBooked, Stays
  <2>2. new[o] \in {Line("PENDING", "INBOUND", h, got[o]), Line("COMPLETED", "INBOUND", h, got[o]),
                    line[t][o]}
    OBVIOUS
  <2> HIDE DEF new, t
  <2> QED
    BY <2>1, <2>2, WrittenStays
<1>4. DOMAIN new = Orders
  OBVIOUS
<1> HIDE DEF new, t, S
<1>5. DOMAIN ledger' = Orders /\ \A o \in Orders : Keeps(ledger[o], ledger'[o])
  BY <1>1, RowKeeps, SameKeeps DEF RoadBooked
<1> QED
  BY <1>1, <1>2, <1>3, <1>4, <1>5, OneTripWritten

LEMMA ConfirmInboundBooked ==
  ASSUME RoadBooked, NEW h, NEW admin \in BOOLEAN, NEW t, NEW got \in Cargo, NEW keep \in BOOLEAN,
         ConfirmInbound(h, admin, t, got, keep)
  PROVE  RoadBooked'
<1> DEFINE S == DOMAIN got
           gone == Removed(t, h, S, keep)
           on(c) == {o \in S : TripOf(o, h, admin, t) = c}
           processed == {c \in Trips : on(c) # {}}
           swept(c) == c \in processed /\ ~keep /\ ~AnyPending(ReceivedStops(c, h, keep))
           L(c, o) == IF o \in on(c) THEN ReceivedLine(c, o, h, admin, t, got[o], keep)
                      ELSE IF c = t /\ o \in gone THEN DeletedLine ELSE line[c][o]
<1>1. /\ ledger' = [o \in Orders |-> IF o \in S THEN ReceivedLedger(o, h, admin, t, got[o])
                                     ELSE ledger[o]]
      /\ line' = [c \in Trips |-> [o \in Orders |-> Sweep(L(c, o), swept(c))]]
      /\ lastTrip' = lastTrip
  BY DEF ConfirmInbound
<1>2. \A c \in Trips, o \in Orders : Stays(line'[c][o], line[c][o])
  <2> TAKE c \in Trips, o \in Orders
  <2>1. HasColumns(line[c][o])
    BY DEF RoadBooked
  <2>2. Stays(ReceivedLine(c, o, h, admin, t, got[o], keep), line[c][o])
    BY <2>1, ReceivedLineStays
  <2>3. Stays(DeletedLine, line[c][o])
    BY WrittenStays
  <2>4. Stays(line[c][o], line[c][o])
    BY <2>1 DEF Stays
  <2> HIDE DEF gone, on
  <2>5. Stays(L(c, o), line[c][o])
    BY <2>2, <2>3, <2>4
  <2>6. swept(c) \in BOOLEAN
    OBVIOUS
  <2>7. line'[c][o] = Sweep(L(c, o), swept(c))
    BY <1>1
  <2> HIDE DEF L, swept
  <2>8. HasColumns(L(c, o))
    BY <2>5 DEF Stays
  <2>9. Stays(Sweep(L(c, o), swept(c)), L(c, o))
    BY <2>6, <2>8, SweptStays
  <2> QED
    BY <2>5, <2>7, <2>9 DEF Stays
<1>3. DOMAIN line' = Trips /\ \A c \in Trips : DOMAIN line'[c] = Orders
  BY <1>1
<1>4. lastTrip' \in 0 .. MaxTrips
  BY <1>1 DEF RoadBooked
<1> HIDE DEF S
<1>5. DOMAIN ledger' = Orders /\ \A o \in Orders : Keeps(ledger[o], ledger'[o])
  BY <1>1, ReceivedKeeps, SameKeeps DEF RoadBooked
<1> QED
  BY <1>2, <1>3, <1>4, <1>5, RoadKept

LEMMA SaveInboundDraftBooked ==
  ASSUME RoadBooked, NEW h, NEW admin, NEW t \in Codes, NEW got \in Cargo,
         SaveInboundDraft(h, admin, t, got)
  PROVE  RoadBooked'
<1> DEFINE S == DOMAIN got
           gone == Removed(t, h, S, FALSE)
           new == [o \in Orders |->
                     IF o \in gone THEN DeletedLine
                     ELSE IF o \notin S THEN line[t][o]
                     ELSE IF LiveLine(t, o) THEN [line[t][o] EXCEPT !.qty = got[o]]
                     ELSE Line("PENDING", "INBOUND", h, got[o])]
<1>1. line' = [line EXCEPT ![t] = new] /\ ledger' = ledger /\ lastTrip' = lastTrip
  BY DEF SaveInboundDraft
<1>2. t \in Trips /\ lastTrip' \in 0 .. MaxTrips
  BY <1>1, BoundsAssumption DEF RoadBooked, Codes, Trips
<1>3. \A o \in Orders : Stays(new[o], line[t][o])
  <2> TAKE o \in Orders
  <2>1. HasColumns(line[t][o])
    BY <1>2 DEF RoadBooked
  <2>2. new[o] \in {DeletedLine, line[t][o], [line[t][o] EXCEPT !.qty = got[o]],
                    Line("PENDING", "INBOUND", h, got[o])}
    OBVIOUS
  <2> HIDE DEF new
  <2>3. Stays(line[t][o], line[t][o])
    BY <2>1 DEF Stays
  <2>4. Stays([line[t][o] EXCEPT !.qty = got[o]], line[t][o])
    BY <2>1, RequantifiedStays
  <2> QED
    BY <2>2, <2>3, <2>4, WrittenStays
<1>4. DOMAIN new = Orders
  OBVIOUS
<1> HIDE DEF new
<1> QED
  BY <1>1, <1>2, <1>3, <1>4, InvoicesAlone, OneTripWritten

(* The lines a dispatch ships are those of the orders it books. *)
LEMMA ConfirmOutboundBooked ==
  ASSUME RoadBooked, NEW h \in Hubs, NEW load \in Cargo, NEW to, NEW draft \in Codes \cup {NoTrip},
         ConfirmOutbound(h, load, to, draft)
  PROVE  RoadBooked'
<1> DEFINE S == DOMAIN load
           t == TripFor(draft)
           new == Planned(t, h, load, to, "IN_TRANSIT")
           row(o) == Row(OutKind(to), h, t, load[o])
<1>1. /\ ledger' = [o \in Orders |-> IF o \in S THEN Append(ledger[o], row(o)) ELSE ledger[o]]
      /\ line' = [line EXCEPT ![t] = new]
      /\ lastTrip' = IF draft = NoTrip THEN t ELSE lastTrip
      /\ t <= MaxTrips
  BY DEF ConfirmOutbound
<1>2. t \in Trips /\ lastTrip' \in 0 .. MaxTrips
  BY <1>1, BoundsAssumption DEF RoadBooked, TripFor, Trips, Codes, NoTrip
<1>3. \A o \in Orders : /\ o \in S => new[o] = Line("IN_TRANSIT", OutKind(to), h, load[o])
                        /\ o \notin S => new[o] \in {DeletedLine, line[t][o]}
  BY DEF Planned
<1>4. DOMAIN new = Orders
  BY DEF Planned
<1> HIDE DEF new, t, S
<1>5. \A o \in Orders : /\ Keeps(ledger[o], Append(ledger[o], row(o)))
                        /\ BookedFor(Append(ledger[o], row(o)), Dispatch, t)
                        /\ Keeps(ledger[o], ledger[o])
  <2> TAKE o \in Orders
  <2>1. OutKind(to) \in Dispatch /\ InOrder(ledger[o])
    BY DEF RoadBooked, OutKind, Dispatch
  <2> QED
    BY <2>1, RowKeeps, SameKeeps
<1> HIDE DEF row
<1>6. /\ DOMAIN ledger' = Orders /\ \A o \in Orders : Keeps(ledger[o], ledger'[o])
      /\ \A o \in Orders : o \in S => BookedFor(ledger'[o], Dispatch, t)
  <2>1. DOMAIN ledger' = Orders
    BY <1>1
  <2>2. \A o \in Orders : ledger'[o] = IF o \in S THEN Append(ledger[o], row(o)) ELSE ledger[o]
    BY <1>1
  <2> QED
    BY <1>5, <2>1, <2>2
<1>7. ASSUME NEW o \in Orders
      PROVE  \/ Stays(new[o], line[t][o])
             \/ HasColumns(new[o]) /\ Covered(new[o], ledger'[o], t)
  <2>1. CASE o \in S
    <3>1. HasColumns(new[o]) /\ Carried(new[o]) = Dispatch
      <4>1. new[o] = Line("IN_TRANSIT", OutKind(to), h, load[o])
        BY <1>3, <2>1
      <4>2. new[o] = [status |-> "IN_TRANSIT", kind |-> OutKind(to), hub |-> h, qty |-> load[o]]
        BY <4>1 DEF Line
      <4>3. HasColumns(new[o]) /\ new[o].hub = h
        BY <4>2 DEF HasColumns
      <4> QED
        BY <4>3, HubsAssumption DEF Carried
    <3> QED
      BY <1>6, <2>1, <3>1 DEF Covered
  <2>2. CASE o \notin S
    BY <1>2, <1>3, <2>2, WrittenStays DEF RoadBooked, Stays
  <2> QED
    BY <2>1, <2>2
<1> QED
  BY <1>1, <1>2, <1>4, <1>6, <1>7, OneTripWritten

LEMMA SaveOutboundDraftBooked ==
  ASSUME RoadBooked, NEW h, NEW load \in Cargo, NEW to, NEW draft \in Codes \cup {NoTrip},
         SaveOutboundDraft(h, load, to, draft)
  PROVE  RoadBooked'
<1> DEFINE t == TripFor(draft)
           new == Planned(t, h, load, to, "PENDING")
<1>1. /\ line' = [line EXCEPT ![t] = new] /\ ledger' = ledger
      /\ lastTrip' = IF draft = NoTrip THEN t ELSE lastTrip
      /\ t <= MaxTrips
  BY DEF SaveOutboundDraft
<1>2. t \in Trips /\ lastTrip' \in 0 .. MaxTrips
  BY <1>1, BoundsAssumption DEF RoadBooked, TripFor, Trips, Codes, NoTrip
<1>3. \A o \in Orders : new[o] \in {Line("PENDING", OutKind(to), h, load[o]), DeletedLine, line[t][o]}
  BY DEF Planned
<1>4. DOMAIN new = Orders
  BY DEF Planned
<1> HIDE DEF new, t
<1>5. \A o \in Orders : Stays(new[o], line[t][o])
  BY <1>2, <1>3, WrittenStays DEF RoadBooked, Stays
<1> QED
  BY <1>1, <1>2, <1>4, <1>5, InvoicesAlone, OneTripWritten

LEMMA CancelOutboundDraftBooked ==
  ASSUME RoadBooked, NEW h, NEW t \in Codes, CancelOutboundDraft(h, t)
  PROVE  RoadBooked'
<1> DEFINE new == [o \in Orders |-> IF LiveLine(t, o) THEN DeletedLine ELSE line[t][o]]
<1>1. line' = [line EXCEPT ![t] = new] /\ ledger' = ledger /\ lastTrip' = lastTrip
  BY DEF CancelOutboundDraft
<1>2. t \in Trips /\ lastTrip' \in 0 .. MaxTrips
  BY <1>1, BoundsAssumption DEF RoadBooked, Codes, Trips
<1>3. DOMAIN new = Orders /\ \A o \in Orders : new[o] \in {DeletedLine, line[t][o]}
  OBVIOUS
<1> HIDE DEF new
<1>4. \A o \in Orders : Stays(new[o], line[t][o])
  BY <1>2, <1>3, WrittenStays DEF RoadBooked, Stays
<1> QED
  BY <1>1, <1>2, <1>3, <1>4, InvoicesAlone, OneTripWritten

LEMMA CancelInboundDraftBooked ==
  ASSUME RoadBooked, NEW h, NEW t \in Codes, CancelInboundDraft(h, t)
  PROVE  RoadBooked'
<1> DEFINE new == [o \in Orders |-> IF line[t][o].status = "PENDING" THEN DeletedLine ELSE line[t][o]]
<1>1. line' = [line EXCEPT ![t] = new] /\ ledger' = ledger /\ lastTrip' = lastTrip
  BY DEF CancelInboundDraft
<1>2. t \in Trips /\ lastTrip' \in 0 .. MaxTrips
  BY <1>1, BoundsAssumption DEF RoadBooked, Codes, Trips
<1>3. DOMAIN new = Orders /\ \A o \in Orders : new[o] \in {DeletedLine, line[t][o]}
  OBVIOUS
<1> HIDE DEF new
<1>4. \A o \in Orders : Stays(new[o], line[t][o])
  BY <1>2, <1>3, WrittenStays DEF RoadBooked, Stays
<1> QED
  BY <1>1, <1>2, <1>3, <1>4, InvoicesAlone, OneTripWritten

(* An administrator's dispatch of several hubs on one trip, or the note of  *)
(* one.                                                                     *)
LEMMA AdminConfirmOutboundBooked ==
  ASSUME RoadBooked, NEW load \in Cargo, NEW at \in [DOMAIN load -> Hubs], NEW first, NEW to,
         NEW draft \in Codes \cup {NoTrip}, AdminConfirmOutbound(at, first, load, to, draft)
  PROVE  RoadBooked'
<1> DEFINE S == DOMAIN load
           t == TripFor(draft)
           new == PlannedFrom(t, at, load, to, "IN_TRANSIT")
           row(o) == Row(OutKind(to), at[o], t, load[o])
<1>1. /\ ledger' = [o \in Orders |-> IF o \in S THEN Append(ledger[o], row(o)) ELSE ledger[o]]
      /\ line' = [line EXCEPT ![t] = new]
      /\ lastTrip' = IF draft = NoTrip THEN t ELSE lastTrip
      /\ t <= MaxTrips
  BY DEF AdminConfirmOutbound
<1>2. t \in Trips /\ lastTrip' \in 0 .. MaxTrips
  BY <1>1, BoundsAssumption DEF RoadBooked, TripFor, Trips, Codes, NoTrip
<1>3. \A o \in Orders : /\ o \in S => new[o] = Line("IN_TRANSIT", OutKind(to), at[o], load[o])
                        /\ o \notin S => new[o] \in {DeletedLine, line[t][o]}
  BY DEF PlannedFrom
<1>4. DOMAIN new = Orders /\ \A o \in S : at[o] \in Hubs
  BY DEF PlannedFrom
<1> HIDE DEF new, t, S
<1>5. \A o \in Orders : /\ Keeps(ledger[o], Append(ledger[o], row(o)))
                        /\ BookedFor(Append(ledger[o], row(o)), Dispatch, t)
                        /\ Keeps(ledger[o], ledger[o])
  <2> TAKE o \in Orders
  <2>1. OutKind(to) \in Dispatch /\ InOrder(ledger[o])
    BY DEF RoadBooked, OutKind, Dispatch
  <2> QED
    BY <2>1, RowKeeps, SameKeeps
<1> HIDE DEF row
<1>6. /\ DOMAIN ledger' = Orders /\ \A o \in Orders : Keeps(ledger[o], ledger'[o])
      /\ \A o \in Orders : o \in S => BookedFor(ledger'[o], Dispatch, t)
  <2>1. DOMAIN ledger' = Orders
    BY <1>1
  <2>2. \A o \in Orders : ledger'[o] = IF o \in S THEN Append(ledger[o], row(o)) ELSE ledger[o]
    BY <1>1
  <2> QED
    BY <1>5, <2>1, <2>2
<1>7. ASSUME NEW o \in Orders
      PROVE  \/ Stays(new[o], line[t][o])
             \/ HasColumns(new[o]) /\ Covered(new[o], ledger'[o], t)
  <2>1. CASE o \in S
    <3>1. new[o] = [status |-> "IN_TRANSIT", kind |-> OutKind(to), hub |-> at[o], qty |-> load[o]]
      BY <1>3, <2>1 DEF Line
    <3>2. HasColumns(new[o]) /\ new[o].hub = at[o]
      BY <3>1 DEF HasColumns
    <3>3. Carried(new[o]) = Dispatch
      BY <1>4, <2>1, <3>2, HubsAssumption DEF Carried
    <3> QED
      BY <1>6, <2>1, <3>2, <3>3 DEF Covered
  <2>2. CASE o \notin S
    BY <1>2, <1>3, <2>2, WrittenStays DEF RoadBooked, Stays
  <2> QED
    BY <2>1, <2>2
<1> QED
  BY <1>1, <1>2, <1>4, <1>6, <1>7, OneTripWritten

LEMMA AdminSaveOutboundDraftBooked ==
  ASSUME RoadBooked, NEW load \in Cargo, NEW at, NEW first, NEW to,
         NEW draft \in Codes \cup {NoTrip}, AdminSaveOutboundDraft(at, first, load, to, draft)
  PROVE  RoadBooked'
<1> DEFINE t == TripFor(draft)
           new == PlannedFrom(t, at, load, to, "PENDING")
<1>1. /\ line' = [line EXCEPT ![t] = new] /\ ledger' = ledger
      /\ lastTrip' = IF draft = NoTrip THEN t ELSE lastTrip
      /\ t <= MaxTrips
  BY DEF AdminSaveOutboundDraft
<1>2. t \in Trips /\ lastTrip' \in 0 .. MaxTrips
  BY <1>1, BoundsAssumption DEF RoadBooked, TripFor, Trips, Codes, NoTrip
<1>3. \A o \in Orders :
        new[o] \in {Line("PENDING", OutKind(to), at[o], load[o]), DeletedLine, line[t][o]}
  BY DEF PlannedFrom
<1>4. DOMAIN new = Orders
  BY DEF PlannedFrom
<1> HIDE DEF new, t
<1>5. \A o \in Orders : Stays(new[o], line[t][o])
  BY <1>2, <1>3, WrittenStays DEF RoadBooked, Stays
<1> QED
  BY <1>1, <1>2, <1>4, <1>5, InvoicesAlone, OneTripWritten

LEMMA DailyBooked ==
  ASSUME RoadBooked, Daily
  PROVE  RoadBooked'
<1>1. CASE \E o \in Orders, h \in Hubs \cup {NoHub}, q \in 1 .. MaxQty : CreateOrder(o, h, q)
  BY <1>1, CreateOrderBooked
<1>2. CASE \E o \in Orders, h \in Hubs, q \in 1 .. MaxQty, d \in BOOLEAN : QuickCreateInbound(o, h, q, d)
  BY <1>2, QuickCreateInboundBooked
<1>3. CASE \E h \in Hubs, got \in Cargo, drafts \in SUBSET Orders : BatchCreateInbound(h, got, drafts)
  BY <1>3, BatchCreateInboundBooked
<1>4. CASE \E h \in Hubs, admin \in BOOLEAN, t \in Codes \cup {NoTrip}, got \in Cargo, keep \in BOOLEAN :
             ConfirmInbound(h, admin, t, got, keep)
  BY <1>4, ConfirmInboundBooked
<1>5. CASE \E h \in Hubs, admin \in BOOLEAN, t \in Codes, got \in Cargo : SaveInboundDraft(h, admin, t, got)
  BY <1>5, SaveInboundDraftBooked
<1>6. CASE \E h \in Hubs, load \in Cargo, to \in Hubs \cup {NoHub}, d \in Codes \cup {NoTrip} :
             to # h /\ ConfirmOutbound(h, load, to, d)
  BY <1>6, ConfirmOutboundBooked
<1>7. CASE \E h \in Hubs, load \in Cargo, to \in Hubs \cup {NoHub}, d \in Codes \cup {NoTrip} :
             to # h /\ SaveOutboundDraft(h, load, to, d)
  BY <1>7, SaveOutboundDraftBooked
<1>8. CASE \E h \in Hubs \cup {NoHub}, t \in Codes : CancelOutboundDraft(h, t)
  BY <1>8, CancelOutboundDraftBooked
<1>9. CASE \E h \in Hubs, t \in Codes : CancelInboundDraft(h, t)
  BY <1>9, CancelInboundDraftBooked
<1>10. CASE \E h \in Hubs, t \in Codes : UpdateTransitStep(h, t)
  <2>1. ledger' = ledger /\ line' = line /\ lastTrip' \in 0 .. MaxTrips
    BY <1>10 DEF UpdateTransitStep, RoadBooked
  <2> QED
    BY <2>1, LinesAlone, InvoicesAlone, RoadKept
<1>11. ASSUME NEW load \in Cargo, NEW to \in Hubs \cup {NoHub}, NEW d \in Codes \cup {NoTrip},
              NEW at \in [DOMAIN load -> Hubs], NEW first \in DOMAIN load,
              AdminOutbound(at, first, load, to, d)
       PROVE  RoadBooked'
  BY <1>11, AdminConfirmOutboundBooked, AdminSaveOutboundDraftBooked DEF AdminOutbound
<1>12. CASE HubNext
  BY <1>1, <1>2, <1>3, <1>4, <1>5, <1>6, <1>7, <1>8, <1>9, <1>10, <1>12 DEF HubNext
<1> QED
  BY <1>11, <1>12 DEF Daily

(* One lemma per way of loading a trip on the road. *)
LEMMA OneLineWritten ==
  ASSUME RoadBooked, lastTrip' = lastTrip, NEW t \in Codes, NEW o \in Orders, NEW l,
         NEW k, NEW h, NEW q, ledger' = [ledger EXCEPT ![o] = Append(@, Row(k, h, t, q))],
         line' = [line EXCEPT ![t][o] = l],
         \/ Stays(l, line[t][o])
         \/ HasColumns(l) /\ k \in Carried(l)
  PROVE  RoadBooked'
<1> DEFINE new == [line[t] EXCEPT ![o] = l]
<1>1. t \in Trips /\ lastTrip' \in 0 .. MaxTrips
  BY BoundsAssumption DEF RoadBooked, Codes, Trips
<1>2. line' = [line EXCEPT ![t] = new]
  OBVIOUS
<1>3. DOMAIN new = Orders /\ \A p \in Orders : new[p] = IF p = o THEN l ELSE line[t][p]
  BY <1>1 DEF RoadBooked
<1> HIDE DEF new
<1>4. /\ DOMAIN ledger' = Orders /\ \A p \in Orders : Keeps(ledger[p], ledger'[p])
      /\ \A K : k \in K => BookedFor(ledger'[o], K, t)
  BY OneInvoiceMore
<1>5. \A p \in Orders : Stays(line[t][p], line[t][p])
  BY <1>1 DEF RoadBooked, Stays
<1>6. \/ Stays(l, line[t][o])
      \/ HasColumns(l) /\ Covered(l, ledger'[o], t)
  BY <1>4 DEF Covered
<1>7. \A p \in Orders : \/ Stays(new[p], line[t][p])
                        \/ HasColumns(new[p]) /\ Covered(new[p], ledger'[p], t)
  BY <1>3, <1>5, <1>6
<1> QED
  BY <1>1, <1>2, <1>3, <1>4, <1>7, OneTripWritten

LEMMA AppendOrderToTripBooked ==
  ASSUME RoadBooked, NEW h \in Hubs, NEW admin, NEW t \in Codes, NEW o \in Orders, NEW q, NEW to,
         AppendOrderToTrip(h, admin, t, o, q, to)
  PROVE  RoadBooked'
<1> DEFINE l == Line("IN_TRANSIT", "TRANSFER", h, q)
<1>1. /\ lastTrip' = lastTrip /\ line' = [line EXCEPT ![t][o] = l]
      /\ ledger' = [ledger EXCEPT ![o] = Append(@, Row("TRANSFER", h, t, q))]
  BY DEF AppendOrderToTrip
<1>2. HasColumns(l) /\ "TRANSFER" \in Carried(l)
  BY HubsAssumption DEF HasColumns, Line, Carried, Dispatch
<1> HIDE DEF l
<1> QED
  BY <1>1, <1>2, OneLineWritten

LEMMA PickUpOnTheRoadBooked ==
  ASSUME RoadBooked, NEW h, NEW admin, NEW t \in Codes, NEW o \in Orders, NEW q,
         PickUpOnTheRoad(h, admin, t, o, q)
  PROVE  RoadBooked'
<1> DEFINE l == Line("IN_TRANSIT", "INBOUND", NoHub, q)
<1>1. /\ lastTrip' = lastTrip /\ line' = [line EXCEPT ![t][o] = l]
      /\ ledger' = [ledger EXCEPT ![o] = Append(@, Row("INBOUND", NoHub, t, q))]
  BY DEF PickUpOnTheRoad
<1>2. HasColumns(l) /\ "INBOUND" \in Carried(l)
  BY DEF HasColumns, Line, Carried, Receipt
<1> HIDE DEF l
<1> QED
  BY <1>1, <1>2, OneLineWritten

LEMMA UpdateTripOrderDestinationBooked ==
  ASSUME RoadBooked, NEW h, NEW admin, NEW t \in Codes, NEW o \in Orders, NEW to,
         UpdateTripOrderDestination(h, admin, t, o, to)
  PROVE  RoadBooked'
<1> DEFINE l == [line[t][o] EXCEPT !.kind = OutKind(to)]
           k == IF stop[t][h] = "COMPLETED" THEN "ADJUSTMENT" ELSE "TRANSFER"
<1>1. /\ lastTrip' = lastTrip /\ line' = [line EXCEPT ![t][o] = l]
      /\ ledger' = [ledger EXCEPT ![o] = Append(@, Row(k, h, t, line[t][o].qty))]
  BY DEF UpdateTripOrderDestination
<1>2. HasColumns(line[t][o])
  BY BoundsAssumption DEF RoadBooked, Codes, Trips
<1>3. Stays(l, line[t][o])
  BY <1>2 DEF Stays, HasColumns
<1> HIDE DEF l, k
<1> QED
  BY <1>1, <1>3, OneLineWritten

LEMMA AppendStoredOrdersToTripBooked ==
  ASSUME RoadBooked, NEW h \in Hubs, NEW admin, NEW t \in Codes, NEW S \in SUBSET Orders,
         AppendStoredOrdersToTrip(h, admin, t, S)
  PROVE  RoadBooked'
<1> DEFINE row(o) == Row("TRANSFER", h, t, WholeLoad(o))
           fresh(o) == Line("IN_TRANSIT", "TRANSFER", h, WholeLoad(o))
           new == [o \in Orders |-> IF o \in S THEN fresh(o) ELSE line[t][o]]
<1>1. /\ lastTrip' = lastTrip /\ line' = [line EXCEPT ![t] = new]
      /\ ledger' = [o \in Orders |-> IF o \in S THEN Append(ledger[o], row(o)) ELSE ledger[o]]
  BY DEF AppendStoredOrdersToTrip
<1>2. t \in Trips /\ lastTrip' \in 0 .. MaxTrips
  BY <1>1, BoundsAssumption DEF RoadBooked, Codes, Trips
<1>3. \A o \in Orders : HasColumns(fresh(o)) /\ Carried(fresh(o)) = Dispatch
  BY HubsAssumption DEF HasColumns, Line, Carried
<1>4. \A o \in Orders : /\ Keeps(ledger[o], Append(ledger[o], row(o)))
                        /\ BookedFor(Append(ledger[o], row(o)), Dispatch, t)
                        /\ Keeps(ledger[o], ledger[o])
  <2> TAKE o \in Orders
  <2>1. "TRANSFER" \in Dispatch /\ InOrder(ledger[o])
    BY DEF RoadBooked, Dispatch
  <2> QED
    BY <2>1, RowKeeps, SameKeeps
<1>5. DOMAIN new = Orders /\ \A o \in Orders : new[o] = IF o \in S THEN fresh(o) ELSE line[t][o]
  OBVIOUS
<1> HIDE DEF new, row, fresh
<1>6. /\ DOMAIN ledger' = Orders /\ \A o \in Orders : Keeps(ledger[o], ledger'[o])
      /\ \A o \in S : BookedFor(ledger'[o], Dispatch, t)
  BY <1>1, <1>4
<1>7. \A o \in Orders : Stays(line[t][o], line[t][o])
  BY <1>2 DEF RoadBooked, Stays
<1>8. \A o \in Orders : \/ Stays(new[o], line[t][o])
                        \/ HasColumns(new[o]) /\ Covered(new[o], ledger'[o], t)
  BY <1>3, <1>5, <1>6, <1>7 DEF Covered
<1> QED
  BY <1>1, <1>2, <1>5, <1>6, <1>8, OneTripWritten

LEMMA LoadingBooked ==
  ASSUME RoadBooked, Loading
  PROVE  RoadBooked'
<1> PICK h \in Hubs, admin \in BOOLEAN, t \in Codes :
      \/ \E o \in Orders, q \in 1 .. MaxQty, to \in Hubs \ {h} : AppendOrderToTrip(h, admin, t, o, q, to)
      \/ \E o \in Orders, q \in 1 .. MaxQty : PickUpOnTheRoad(h, admin, t, o, q)
      \/ \E S \in (SUBSET Orders) \ {{}} : AppendStoredOrdersToTrip(h, admin, t, S)
      \/ \E o \in Orders, to \in Hubs \cup {NoHub} : UpdateTripOrderDestination(h, admin, t, o, to)
  BY DEF Loading
<1>1. CASE \E o \in Orders, q \in 1 .. MaxQty, to \in Hubs \ {h} : AppendOrderToTrip(h, admin, t, o, q, to)
  BY <1>1, AppendOrderToTripBooked
<1>2. CASE \E o \in Orders, q \in 1 .. MaxQty : PickUpOnTheRoad(h, admin, t, o, q)
  BY <1>2, PickUpOnTheRoadBooked
<1>3. CASE \E S \in (SUBSET Orders) \ {{}} : AppendStoredOrdersToTrip(h, admin, t, S)
  BY <1>3, AppendStoredOrdersToTripBooked
<1>4. CASE \E o \in Orders, to \in Hubs \cup {NoHub} : UpdateTripOrderDestination(h, admin, t, o, to)
  BY <1>4, UpdateTripOrderDestinationBooked
<1> QED
  BY <1>1, <1>2, <1>3, <1>4

(* The rollback of a trip takes invoices of that trip only, and reopens     *)
(* every line that is on it.                                                *)
LEMMA RollbackTripBooked ==
  ASSUME RoadBooked, NEW t \in Codes, NEW at, RollbackTrip(t, at)
  PROVE  RoadBooked'
<1> DEFINE taken(r) == Reverses(r, t, at)
           rows(o) == [i \in DOMAIN ledger[o] |->
                         IF taken(ledger[o][i]) THEN [ledger[o][i] EXCEPT !.live = FALSE]
                         ELSE ledger[o][i]]
           new == [o \in Orders |-> IF LiveLine(t, o) THEN ReopenedLine(line[t][o]) ELSE line[t][o]]
<1>1. /\ ledger' = [o \in Orders |-> rows(o)]
      /\ line' = [line EXCEPT ![t] = new] /\ lastTrip' = lastTrip
  BY DEF RollbackTrip
<1>2. t \in Trips /\ lastTrip' \in 0 .. MaxTrips
  BY <1>1, BoundsAssumption DEF RoadBooked, Codes, Trips
<1>3. \A r : taken(r) => r.trip = t
  BY DEF Reverses
<1> HIDE DEF taken
<1>4. ASSUME NEW o \in Orders
      PROVE  /\ InOrder(rows(o))
             /\ \A K, c : c # t /\ BookedFor(ledger[o], K, c) => BookedFor(rows(o), K, c)
  <2> DEFINE s == ledger[o]
             z == rows(o)
  <2>1. PICK T : s \in Seq(T)
    BY DEF RoadBooked, InOrder
  <2> DEFINE U == T \cup {z[i] : i \in DOMAIN s}
  <2>2. DOMAIN s = 1 .. Len(s) /\ Len(s) \in Nat
    BY <2>1, LenProperties
  <2>3. \A i \in DOMAIN s : RowColumns(s[i])
    BY DEF RoadBooked, InOrder
  <2>4. DOMAIN z = DOMAIN s
    OBVIOUS
  <2>5. ASSUME NEW i \in DOMAIN s
        PROVE  /\ RowColumns(z[i]) /\ z[i].kind = s[i].kind /\ z[i].trip = s[i].trip
               /\ s[i].trip # t => z[i].live = s[i].live
    BY <1>3, <2>3, <2>5 DEF RowColumns
  <2> HIDE DEF z, s
  <2>6. \A i \in 1 .. Len(s) : z[i] \in U
    BY <2>2
  <2>7. z \in [1 .. Len(s) -> U]
    <3>1. z = [i \in DOMAIN z |-> z[i]]
      BY DEF z
    <3> QED
      BY <2>2, <2>4, <2>6, <3>1
  <2> HIDE DEF U
  <2>8. z \in Seq(U)
    BY <2>2, <2>7, SeqDef
  <2>9. InOrder(z)
    BY <2>4, <2>5, <2>8 DEF InOrder
  <2>10. \A K, c : c # t /\ BookedFor(s, K, c) => BookedFor(z, K, c)
    BY <2>4, <2>5 DEF BookedFor
  <2> QED
    BY <2>9, <2>10 DEF s, z
<1> HIDE DEF rows
<1>5. DOMAIN ledger' = Orders /\ \A o \in Orders : ledger'[o] = rows(o)
  BY <1>1
<1>6. \A o \in Orders : InOrder(ledger'[o])
  BY <1>4, <1>5
<1>7. \A o \in Orders : HasColumns(line[t][o])
  BY <1>2 DEF RoadBooked
<1>8. DOMAIN new = Orders /\ \A o \in Orders : HasColumns(new[o]) /\ new[o].status # "IN_TRANSIT"
  BY <1>7 DEF LiveLine, ReopenedLine, HasColumns
<1> HIDE DEF new
<1>9. DOMAIN line' = Trips /\ \A c \in Trips : line'[c] = IF c = t THEN new ELSE line[c]
  BY <1>1 DEF RoadBooked
<1>10. \A c \in Trips : DOMAIN line'[c] = Orders
  BY <1>8, <1>9 DEF RoadBooked
<1>11. ASSUME NEW c \in Trips, NEW o \in Orders
       PROVE  HasColumns(line'[c][o]) /\ Covered(line'[c][o], ledger'[o], c)
  <2>1. CASE c = t
    BY <1>8, <1>9, <2>1 DEF Covered
  <2>2. CASE c # t
    <3>1. HasColumns(line[c][o]) /\ Covered(line[c][o], ledger[o], c) /\ line'[c][o] = line[c][o]
      BY <1>9, <2>2 DEF RoadBooked
    <3>2. \A K : BookedFor(ledger[o], K, c) => BookedFor(ledger'[o], K, c)
      BY <1>4, <1>5, <2>2
    <3> QED
      BY <3>1, <3>2 DEF Covered
  <2> QED
    BY <2>1, <2>2
<1> QED
  BY <1>2, <1>5, <1>6, <1>9, <1>10, <1>11 DEF RoadBooked

LEMMA RoadBookedInit ==
  ASSUME Init
  PROVE  RoadBooked
<1>1. \A o \in Orders : InOrder(ledger[o])
  <2>1. \A o \in Orders : ledger[o] = << >>
    BY DEF Init
  <2>2. << >> \in Seq(Nat) /\ DOMAIN << >> = {}
    OBVIOUS
  <2> QED
    BY <2>1, <2>2 DEF InOrder
<1>2. /\ lastTrip \in 0 .. MaxTrips
      /\ DOMAIN ledger = Orders /\ DOMAIN line = Trips
      /\ \A t \in Trips : DOMAIN line[t] = Orders
      /\ \A t \in Trips, o \in Orders : HasColumns(line[t][o]) /\ line[t][o].status = "NONE"
  BY BoundsAssumption DEF Init, NoLine, HasColumns
<1> QED
  BY <1>1, <1>2 DEF RoadBooked, Covered

LEMMA RoadBookedMeans ==
  ASSUME RoadBooked
  PROVE  RoadIsInvoiced
BY DEF RoadBooked, RoadIsInvoiced, Covered, Carried, BookedFor, RowsOn, Rows

(* Whatever the daily handlers accept, however trips are loaded on the      *)
(* road, redirected and reopened (rollbackTrip), no line is shown on the    *)
(* road without an invoice of its trip: for any orders, hubs and            *)
(* quantities.                                                              *)
THEOREM ReopenedTripsStayInvoiced == ReopeningSpec => []RoadIsInvoiced
<1>1. CorrectionsInit => RoadBooked
  BY RoadBookedInit DEF CorrectionsInit
<1>2. RoadBooked /\ [Daily \/ Loading \/ Rollback]_everything => RoadBooked'
  <2> SUFFICES ASSUME RoadBooked, [Daily \/ Loading \/ Rollback]_everything
               PROVE  RoadBooked'
    OBVIOUS
  <2>1. CASE Daily
    BY <2>1, DailyBooked
  <2>2. CASE Loading
    BY <2>2, LoadingBooked
  <2>3. CASE Rollback
    BY <2>3, RollbackTripBooked DEF Rollback
  <2>4. CASE UNCHANGED everything
    BY <2>4 DEF everything, RoadBooked
  <2> QED
    BY <2>1, <2>2, <2>3, <2>4
<1> QED
  BY <1>1, <1>2, RoadBookedMeans, PTL DEF ReopeningSpec

(* The same of the specification the run explores, in its worlds of loading *)
(* and of reopening.                                                        *)
THEOREM ReopenedRoadStaysInvoiced == OnTheRoadSpec => []RoadStaysInvoiced
<1> DEFINE Inv == work # "corrections" => RoadBooked
<1>1. OnTheRoadInit => Inv
  BY RoadBookedInit DEF OnTheRoadInit, CorrectionsInit
<1>2. Inv /\ [OnTheRoadWork /\ UNCHANGED work]_<<everything, work>> => Inv'
  <2> SUFFICES ASSUME Inv, [OnTheRoadWork /\ UNCHANGED work]_<<everything, work>>,
                      work' # "corrections"
               PROVE  RoadBooked'
    OBVIOUS
  <2>1. RoadBooked /\ work # "corrections"
    OBVIOUS
  <2>2. CASE Routine \/ HubDaily
    BY <2>1, <2>2, RoutineOfHubs, DailyBooked DEF Routine, Daily, HubDaily
  <2>3. CASE Loading
    BY <2>1, <2>3, LoadingBooked
  <2>4. CASE Rollback
    BY <2>1, <2>4, RollbackTripBooked DEF Rollback
  <2>5. CASE UNCHANGED everything
    BY <2>1, <2>5 DEF everything, RoadBooked
  <2> QED
    BY <2>1, <2>2, <2>3, <2>4, <2>5 DEF OnTheRoadWork
<1>3. Inv => RoadStaysInvoiced
  BY RoadBookedMeans DEF RoadStaysInvoiced
<1> QED
  BY <1>1, <1>2, <1>3, PTL DEF OnTheRoadSpec

-----------------------------------------------------------------------------
(* The screens.  What the tables say besides, whatever the handlers did.    *)

(* A line of a dispatch has an allocated code and a stop at its hub; one    *)
(* that was shipped has left.                                               *)
LinesOK ==
  \A t \in Trips, o \in Orders :
    /\ line[t][o].kind \in Dispatch =>
         /\ t <= lastTrip /\ line[t][o].hub \in Hubs /\ stop[t][line[t][o].hub] # "NONE"
         /\ line[t][o].status = "PENDING" => line[t][o].qty > 0
    /\ ShippedOn(ledger[o], t) =>
         line[t][o].kind \in Dispatch /\ line[t][o].status \in {"IN_TRANSIT", "COMPLETED"}

(* An origin stop is of the only hub that plans dispatches on its trip, and *)
(* is processed once the trip was shipped.                                  *)
OriginsOK ==
  \A t \in Trips, h \in Hubs : <<t, h>> \in origins =>
    /\ t <= lastTrip /\ stop[t][h] # "NONE"
    /\ \A o \in Orders : PendingOut(t, o) => line[t][o].hub = h
    /\ stop[t][h] = "COMPLETED" \/ \A o \in Orders : ~ShippedOn(ledger[o], t)

-----------------------------------------------------------------------------
(* The screens read tables that change by routine steps. *)

LEMMA BoardStep == [BoardNext]_board => [RoutineNext]_vars
<1> SUFFICES ASSUME [BoardNext]_board PROVE [RoutineNext]_vars
  OBVIOUS
<1>1. CASE UNCHANGED board
  BY <1>1 DEF board, vars
<1>2. CASE BoardNext
  BY <1>2 DEF BoardNext, RoutineNext
<1> QED
  BY <1>1, <1>2

(* Writing order.currentHubId and the type of a stop beside the handlers    *)
(* leaves them routine: what is proved of routine use holds of the screens' *)
(* tables.                                                                  *)
THEOREM BoardIsRoutine == BoardSpec => RoutineSpec
<1>1. BoardInit => Init
  BY DEF BoardInit, CorrectionsInit
<1> QED
  BY <1>1, BoardStep, PTL DEF BoardSpec, RoutineSpec

-----------------------------------------------------------------------------
(* The stored tab. *)

(* What a hub has in stock is in its ledger, and no draft is. *)
LEMMA StockIsBooked ==
  ASSUME TypeOK, CountersMatchLedger, NEW o \in Orders, NEW h \in Hubs
  PROVE  /\ BookedAt(o, Receipt, h) \in Nat /\ BookedAt(o, Dispatch, h) \in Nat /\ HubStock(o, h) \in Int
         /\ HubStock(o, h) = BookedAt(o, Receipt, h) - BookedAt(o, Dispatch, h)
         /\ BookedAt(o, Receipt, h) > 0 => HasLedgerAt(o, h)
         /\ IsLive(o) /\ BookedAt(o, Receipt, h) > 0 => ~IsDraft(o)
<1>1. BookedAt(o, Receipt, h) \in Nat /\ BookedAt(o, Dispatch, h) \in Nat
  BY BookedNat
<1>2. RowsAt(o, Receipt, h) = {} => BookedAt(o, Receipt, h) = 0
  BY QtyEmpty DEF BookedAt
<1>3. RowsAt(o, Receipt, h) \subseteq RowsAt(o, Kinds, h) /\ RowsAt(o, Kinds, h) \subseteq Rows(o, Kinds)
  BY DEF RowsAt, Rows, Kinds
<1>4. IsLive(o) /\ IsDraft(o) => Rows(o, Kinds) = {}
  BY DEF CountersMatchLedger
<1> QED
  BY <1>1, <1>2, <1>3, <1>4 DEF HubStock, HasLedgerAt

LEMMA StatusOfStored ==
  ASSUME TypeOK, CountersMatchLedger, NEW o \in Orders, NEW h \in Hubs, IsLive(o)
  PROVE  /\ HubStock(o, h) > 0 => HubStatus(o, h) = "INBOUND" /\ InScope(o, h)
         /\ HubStatus(o, h) \in StoredStatuses => HubStock(o, h) > 0
<1>1. ASSUME HubStock(o, h) > 0
      PROVE  HubStatus(o, h) = "INBOUND" /\ InScope(o, h)
  <2>1. HasLedgerAt(o, h) /\ ~IsDraft(o)
    BY <1>1, StockIsBooked
  <2> QED
    BY <1>1, <2>1 DEF HubStatus, LocalDraft, InScope
<1>2. HubStatus(o, h) \in StoredStatuses => HubStock(o, h) > 0
  BY DEF HubStatus, StoredStatuses
<1> QED
  BY <1>1, <1>2

LEMMA TabIsTrue == TypeOK /\ CountersMatchLedger => StoredTabIsStock
<1> SUFFICES ASSUME TypeOK, CountersMatchLedger, NEW h \in Hubs
             PROVE  LET here == {o \in Orders : IsLive(o) /\ HubStock(o, h) > 0} IN
                    /\ StoredTab(h) = here
                    /\ KpiStored(h) = Cardinality(here)
                    /\ \A o \in here : GroupRemaining(o, h) = HubStock(o, h)
  BY DEF StoredTabIsStock
<1> DEFINE here == {o \in Orders : IsLive(o) /\ HubStock(o, h) > 0}
<1>1. InTab(h, StoredStatuses) = here
  BY StatusOfStored DEF InTab, Listed, StoredStatuses
<1>2. StoredTab(h) = here
  BY <1>1 DEF StoredTab
<1>3. ASSUME NEW o \in here
      PROVE  GroupRemaining(o, h) = HubStock(o, h)
  <2>1. HubStock(o, h) \in Int /\ HubStock(o, h) > 0 /\ HubStatus(o, h) \notin WaitingStatuses
    BY <1>3, StockIsBooked, StatusOfStored DEF WaitingStatuses, DraftLike
  <2>2. GroupTotal(o, h) >= HubStock(o, h) /\ GroupTotal(o, h) \in Int
    BY <2>1, OrderFacts DEF GroupTotal, Maximum
  <2> QED
    BY <2>1, <2>2 DEF GroupRemaining
<1> QED
  BY <1>1, <1>2, <1>3 DEF KpiStored

(* The stored tab of a hub lists exactly the orders its invoices say it     *)
(* holds, its KPI card counts them, and the grouped row shows all of their  *)
(* packages: hubStatusSql asks for a draft first, and a draft has no        *)
(* invoice (CountersMatchLedger).                                           *)
THEOREM StoredTabTellsTruth == BoardSpec => []StoredTabIsStock
BY BoardIsRoutine, RoutineSound, SoundMeans, TabIsTrue, PTL

-----------------------------------------------------------------------------
(* What a saved note shows. *)

(* The packages of a note are part of what the hub's notes reserve. *)
LEMMA ReservedParts ==
  ASSUME TypeOK, NEW o \in Orders, NEW h \in Hubs, NEW t \in Trips, PendingOut(t, o), line[t][o].hub = h
  PROVE  /\ Reserved(o, h, NoTrip) = Reserved(o, h, t) + line[t][o].qty
         /\ Reserved(o, h, t) \in Nat /\ line[t][o].qty \in Nat
<1> DEFINE rows == [u \in Trips |-> line[u][o]]
           I == ReservingTrips(o, h, t)
<1>1. t # NoTrip /\ NoTrip \notin Trips
  BY BoundsAssumption DEF Trips, NoTrip
<1>2. ReservingTrips(o, h, NoTrip) = I \cup {t} /\ t \notin I /\ I \subseteq Trips
  BY <1>1 DEF ReservingTrips
<1>3. IsFiniteSet(I) /\ \A u \in I : rows[u].qty \in Nat
  BY <1>2, TripSumNat
<1>4. rows[t].qty = line[t][o].qty /\ line[t][o].qty \in Nat
  BY DEF TypeOK, LineRecord
<1>5. Reserved(o, h, t) = QtyOf(rows, I) /\ Reserved(o, h, NoTrip) = QtyOf(rows, I \cup {t})
  BY <1>2 DEF Reserved
<1> HIDE DEF rows, I
<1>6. QtyOf(rows, I \cup {t}) = QtyOf(rows, I) + rows[t].qty
  BY <1>2, <1>3, <1>4, QtyAdd
<1> QED
  BY <1>4, <1>5, <1>6, ReservedNat

(* What the note shows is what its confirmation grants.                     *)
LEMMA NoteIsTrue ==
  TypeOK /\ CountersMatchLedger /\ StockCoversReservations /\ LinesOK => NoteShowsAvailable
<1> SUFFICES ASSUME TypeOK, CountersMatchLedger, StockCoversReservations, LinesOK,
                    NEW h \in Hubs, NEW t \in Trips, NEW o \in Orders, PendingOut(t, o), line[t][o].hub = h
             PROVE  ShownAvailable(o, h, t) = Available(o, h, t)
  BY DEF NoteShowsAvailable, SavedNotes, LiveLines
<1> DEFINE R == BookedAt(o, Receipt, h)
           D == BookedAt(o, Dispatch, h)
           q == line[t][o].qty
           other == Reserved(o, h, t)
<1>1. q > 0 /\ Reserved(o, h, NoTrip) = other + q /\ other \in Nat /\ q \in Nat
  BY ReservedParts DEF LinesOK, PendingOut
<1>2. D + (other + q) <= R
  BY <1>1 DEF StockCoversReservations
<1>3. R \in Nat /\ D \in Nat /\ HubStock(o, h) = R - D /\ (R > 0 => HasLedgerAt(o, h))
  BY StockIsBooked
<1>4. HasLedgerAt(o, h)
  BY <1>1, <1>2, <1>3
<1>5. Available(o, h, t) = Monus(R, D + other)
  BY <1>4 DEF Available, StockIn, StockOut
<1>6. ShownAvailable(o, h, t) = Monus(R - D, other + q) + q
  BY <1>1, <1>3 DEF ShownAvailable, Effective
<1> HIDE DEF R, D, q, other
<1> QED
  BY <1>1, <1>2, <1>3, <1>5, <1>6 DEF Monus

-----------------------------------------------------------------------------
(* Handlers that load nothing leave the loaded lines as they are.           *)

Left == {"IN_TRANSIT", "COMPLETED"}
KeptLine(l, m) ==
  /\ m.kind \in Dispatch =>
       /\ l.kind \in Dispatch /\ m.hub = l.hub /\ m.status \in {l.status, "COMPLETED"}
       /\ m.qty = l.qty \/ m.qty > 0
  /\ l.kind \in Dispatch /\ l.status \in Left => m.kind \in Dispatch /\ m.status \in Left

LEMMA KeptLineCases ==
  ASSUME NEW l \in LineRecord, NEW m, NEW q \in Nat, q > 0,
         \/ m = l
         \/ m = DeletedLine /\ ~(l.kind \in Dispatch /\ l.status \in Left)
         \/ m = [l EXCEPT !.qty = q]
         \/ m = [l EXCEPT !.qty = q, !.status = "COMPLETED"]
         \/ m.kind = "INBOUND" /\ ~(l.kind \in Dispatch /\ l.status \in Left)
  PROVE  KeptLine(l, m)
<1>1. "INBOUND" \notin Dispatch /\ DeletedLine.kind = "INBOUND" /\ "COMPLETED" \in Left
  BY DEF Dispatch, DeletedLine, NoLine, Left
<1>2. LET n == [l EXCEPT !.qty = q] IN n.kind = l.kind /\ n.hub = l.hub /\ n.status = l.status /\ n.qty = q
  BY DEF LineRecord
<1>3. LET n == [l EXCEPT !.qty = q, !.status = "COMPLETED"]
      IN  n.kind = l.kind /\ n.hub = l.hub /\ n.status = "COMPLETED" /\ n.qty = q
  BY DEF LineRecord
<1> QED
  BY <1>1, <1>2, <1>3 DEF KeptLine

(* The sweep that completes the lines of a processed trip keeps them.       *)
LEMMA KeptBySweep ==
  ASSUME NEW l, NEW m \in LineRecord, KeptLine(l, m), NEW done \in BOOLEAN
  PROVE  KeptLine(l, Sweep(m, done))
<1>1. CASE Sweep(m, done) = m
  BY <1>1
<1>2. CASE Sweep(m, done) = [m EXCEPT !.status = "COMPLETED"]
  <2>1. LET n == [m EXCEPT !.status = "COMPLETED"]
        IN  n.kind = m.kind /\ n.hub = m.hub /\ n.status = "COMPLETED" /\ n.qty = m.qty
    BY DEF LineRecord
  <2> QED
    BY <1>2, <2>1 DEF KeptLine, Left
<1> QED
  BY <1>1, <1>2 DEF Sweep

LEMMA BatchLines ==
  ASSUME TypeOK, LinesOK, NEW h \in Hubs, NEW got \in Cargo, NEW drafts \in SUBSET Orders,
         BatchCreateInbound(h, got, drafts), NEW c \in Trips, NEW o \in Orders
  PROVE  KeptLine(line[c][o], line'[c][o])
<1>1. lastTrip + 1 \in Trips /\ lastTrip \in Nat
  BY BoundsAssumption DEF BatchCreateInbound, TypeOK, Trips
<1>2. \/ line'[c][o] = line[c][o]
      \/ c = lastTrip + 1 /\ line'[c][o].kind = "INBOUND"
  BY <1>1 DEF BatchCreateInbound, TypeOK, Line
<1>3. c = lastTrip + 1 => line[c][o].kind \notin Dispatch
  BY <1>1 DEF LinesOK
<1> QED
  BY <1>2, <1>3 DEF KeptLine, Dispatch

LEMMA ConfirmInboundLines ==
  ASSUME TypeOK, NEW h \in Hubs, NEW admin \in BOOLEAN, NEW t \in Codes \cup {NoTrip},
         NEW got \in Cargo, NEW keep \in BOOLEAN, ConfirmInbound(h, admin, t, got, keep),
         NEW c \in Trips, NEW o \in Orders
  PROVE  KeptLine(line[c][o], line'[c][o])
<1> DEFINE old == line[c][o]
           S == DOMAIN got
           gone == Removed(t, h, S, keep)
           on(e) == {p \in S : TripOf(p, h, admin, t) = e}
           processed == {e \in Trips : on(e) # {}}
           before == IF o \in on(c) THEN ReceivedLine(c, o, h, admin, t, got[o], keep)
                     ELSE IF c = t /\ o \in gone THEN DeletedLine ELSE line[c][o]
           done == c \in processed /\ ~keep /\ ~AnyPending(ReceivedStops(c, h, keep))
<1>1. line'[c][o] = Sweep(before, done) /\ done \in BOOLEAN
  BY DEF ConfirmInbound
<1>2. old \in LineRecord /\ \A p \in S : got[p] \in Nat /\ got[p] > 0
  BY CargoType DEF TypeOK
<1>3. before \in LineRecord
  BY <1>2, ReceivedLineType, LineType
<1>4. ASSUME o \in on(c)
      PROVE  KeptLine(old, before)
  <2> DEFINE q == got[o]
  <2>1. q \in Nat /\ q > 0 /\ before = ReceivedLine(c, o, h, admin, t, q, keep)
    BY <1>2, <1>4
  <2>2. ASSUME ~LiveLine(c, o), before = Line(IF keep THEN "PENDING" ELSE "COMPLETED", "INBOUND", h, q)
        PROVE  before.kind = "INBOUND" /\ ~(old.kind \in Dispatch /\ old.status \in Left)
    BY <2>2 DEF LiveLine, Left, Line
  <2>3. \/ before = old
        \/ before = [old EXCEPT !.qty = q]
        \/ before = [old EXCEPT !.qty = q, !.status = "COMPLETED"]
        \/ before = [old EXCEPT !.qty = q, !.status = old.status]
        \/ ~LiveLine(c, o) /\ before = Line(IF keep THEN "PENDING" ELSE "COMPLETED", "INBOUND", h, q)
    BY <2>1 DEF ReceivedLine
  <2>4. [old EXCEPT !.qty = q, !.status = old.status] = [old EXCEPT !.qty = q]
    BY <1>2 DEF LineRecord
  <2> HIDE DEF before, old, q
  <2> QED
    BY <1>2, <2>1, <2>2, <2>3, <2>4, KeptLineCases
<1>5. ASSUME o \notin on(c), c = t, o \in gone
      PROVE  KeptLine(old, before)
  <2>1. before = DeletedLine /\ old.kind \notin Dispatch
    BY <1>5 DEF Removed, Dispatch
  <2>2. 1 \in Nat /\ 1 > 0
    OBVIOUS
  <2> HIDE DEF before, old
  <2> QED
    BY <1>2, <2>1, <2>2, KeptLineCases
<1>6. ASSUME o \notin on(c), ~(c = t /\ o \in gone)
      PROVE  KeptLine(old, before)
  <2>1. before = old
    BY <1>6
  <2> HIDE DEF before, old
  <2> QED
    BY <2>1 DEF KeptLine
<1>7. KeptLine(old, before)
  BY <1>4, <1>5, <1>6
<1> HIDE DEF before, done
<1> QED
  BY <1>1, <1>3, <1>7, KeptBySweep

LEMMA SaveInboundLines ==
  ASSUME TypeOK, NEW h \in Hubs, NEW admin \in BOOLEAN, NEW t \in Codes, NEW got \in Cargo,
         SaveInboundDraft(h, admin, t, got), NEW c \in Trips, NEW o \in Orders
  PROVE  KeptLine(line[c][o], line'[c][o])
<1> DEFINE old == line[c][o]
<1>1. old \in LineRecord /\ t \in Trips /\ \A p \in DOMAIN got : got[p] \in Nat /\ got[p] > 0
  BY CargoType, CodesAreTrips DEF TypeOK
<1>2. \/ line'[c][o] = old
      \/ line'[c][o] = DeletedLine /\ old.kind = "INBOUND"
      \/ o \in DOMAIN got /\ line'[c][o] = [old EXCEPT !.qty = got[o]]
      \/ line'[c][o] = Line("PENDING", "INBOUND", h, got[o]) /\ ~LiveLine(c, o)
  BY <1>1 DEF SaveInboundDraft, TypeOK, Removed
<1>3. Line("PENDING", "INBOUND", h, got[o]).kind = "INBOUND"
  BY DEF Line
<1>4. /\ ~LiveLine(c, o) => old.status \notin Left
      /\ "INBOUND" \notin Dispatch
  BY DEF LiveLine, Left, Dispatch
<1> DEFINE new == line'[c][o]
<1> HIDE DEF old, new
<1>5. ASSUME o \in DOMAIN got, new = [old EXCEPT !.qty = got[o]]
      PROVE  KeptLine(old, new)
  BY <1>1, <1>5, KeptLineCases
<1>6. ASSUME ~(o \in DOMAIN got /\ new = [old EXCEPT !.qty = got[o]])
      PROVE  KeptLine(old, new)
  <2>1. 1 \in Nat /\ 1 > 0
    OBVIOUS
  <2>2. \/ new = old
        \/ new = DeletedLine /\ old.kind \notin Dispatch
        \/ new.kind = "INBOUND" /\ old.status \notin Left
    BY <1>2, <1>3, <1>4, <1>6 DEF new
  <2> QED
    BY <1>1, <2>1, <2>2, KeptLineCases
<1> QED
  BY <1>5, <1>6 DEF old, new

LEMMA CancelLines ==
  ASSUME TypeOK, NEW h \in Hubs, NEW t \in Codes,
         CancelOutboundDraft(h, t) \/ CancelInboundDraft(h, t) \/ UpdateTransitStep(h, t),
         NEW c \in Trips, NEW o \in Orders
  PROVE  KeptLine(line[c][o], line'[c][o])
<1>1. line'[c][o] = line[c][o] \/ (line'[c][o] = DeletedLine /\ line[c][o].status = "PENDING")
  BY CodesAreTrips DEF CancelOutboundDraft, CancelInboundDraft, UpdateTransitStep, TypeOK, OutboundDraft,
                       LiveLines, PendingOut
<1>2. line[c][o] \in LineRecord /\ 1 \in Nat /\ 1 > 0
  BY DEF TypeOK
<1> QED
  BY <1>1, <1>2, KeptLineCases DEF Left

(* A receipt, and the correction of one, ships nothing. *)
LEMMA QuietLedger ==
  ASSUME TypeOK, NEW t \in Trips, NEW o \in Orders,
         \/ ledger'[o] = ledger[o]
         \/ \E h \in Hubs, c \in Nat, q \in Nat : ledger'[o] = Append(ledger[o], Row("INBOUND", h, c, q))
         \/ \E h \in Hubs, admin \in BOOLEAN, u \in Codes \cup {NoTrip}, q \in Nat :
              ledger'[o] = ReceivedLedger(o, h, admin, u, q)
  PROVE  ShippedOn(ledger'[o], t) <=> ShippedOn(ledger[o], t)
BY ReceiptShipsNothing

(* The handlers that load nothing: the lines of dispatches stay, and no     *)
(* dispatch is invoiced.                                                    *)
Quiet ==
  \A t \in Trips, o \in Orders :
    KeptLine(line[t][o], line'[t][o]) /\ (ShippedOn(ledger'[o], t) <=> ShippedOn(ledger[o], t))

(* Order entry touches no line. *)
LEMMA EntryQuiet ==
  ASSUME TypeOK, NEW n \in Orders, NEW q \in 1 .. MaxQty,
         \/ \E h \in Hubs \cup {NoHub} : CreateOrder(n, h, q)
         \/ \E h \in Hubs, d \in BOOLEAN : QuickCreateInbound(n, h, q, d)
  PROVE  Quiet
<1>1. line' = line /\ q \in Nat /\ NoTrip \in Nat
  BY DEF CreateOrder, QuickCreateInbound, NoTrip
<1>2. ASSUME NEW o \in Orders
      PROVE  \/ ledger'[o] = ledger[o]
             \/ \E h \in Hubs : ledger'[o] = Append(ledger[o], Row("INBOUND", h, NoTrip, q))
  BY DEF CreateOrder, QuickCreateInbound, TypeOK
<1>3. \A t \in Trips, o \in Orders : ShippedOn(ledger'[o], t) <=> ShippedOn(ledger[o], t)
  BY <1>1, <1>2, QuietLedger
<1> QED
  BY <1>1, <1>3 DEF Quiet, KeptLine

LEMMA BatchQuiet ==
  ASSUME TypeOK, LinesOK, NEW h \in Hubs, NEW got \in Cargo, NEW drafts \in SUBSET Orders,
         BatchCreateInbound(h, got, drafts)
  PROVE  Quiet
<1>1. ASSUME NEW o \in Orders
      PROVE  \/ ledger'[o] = ledger[o]
             \/ \E c \in Nat, q \in Nat : ledger'[o] = Append(ledger[o], Row("INBOUND", h, c, q))
  <2>1. lastTrip + 1 \in Nat /\ \A p \in DOMAIN got : got[p] \in Nat
    BY CargoType DEF TypeOK
  <2> QED
    BY <2>1 DEF BatchCreateInbound
<1>2. \A t \in Trips, o \in Orders : ShippedOn(ledger'[o], t) <=> ShippedOn(ledger[o], t)
  BY <1>1, QuietLedger
<1> QED
  BY <1>2, BatchLines DEF Quiet

LEMMA ConfirmInboundQuiet ==
  ASSUME TypeOK, NEW h \in Hubs, NEW admin \in BOOLEAN, NEW t \in Codes \cup {NoTrip},
         NEW got \in Cargo, NEW keep \in BOOLEAN, ConfirmInbound(h, admin, t, got, keep)
  PROVE  Quiet
<1>1. ASSUME NEW o \in Orders
      PROVE  \/ ledger'[o] = ledger[o]
             \/ \E q \in Nat : ledger'[o] = ReceivedLedger(o, h, admin, t, q)
  BY CargoType DEF ConfirmInbound
<1>2. \A c \in Trips, o \in Orders : ShippedOn(ledger'[o], c) <=> ShippedOn(ledger[o], c)
  BY <1>1, QuietLedger
<1> QED
  BY <1>2, ConfirmInboundLines DEF Quiet

LEMMA NotesQuiet ==
  ASSUME TypeOK, NEW h \in Hubs, NEW t \in Codes,
         \/ \E admin \in BOOLEAN, got \in Cargo : SaveInboundDraft(h, admin, t, got)
         \/ CancelOutboundDraft(h, t) \/ CancelInboundDraft(h, t) \/ UpdateTransitStep(h, t)
  PROVE  Quiet
<1>1. ledger' = ledger
  BY DEF SaveInboundDraft, CancelOutboundDraft, CancelInboundDraft, UpdateTransitStep
<1>2. \A c \in Trips, o \in Orders : KeptLine(line[c][o], line'[c][o])
  BY SaveInboundLines, CancelLines
<1> QED
  BY <1>1, <1>2 DEF Quiet

-----------------------------------------------------------------------------
(* No stop row is ever taken out of the table, and codes are not reused. *)

LEMMA StopsStay ==
  ASSUME TypeOK, Next, NEW t \in Trips, NEW h \in Hubs, stop[t][h] # "NONE"
  PROVE  stop'[t][h] # "NONE"
<1>1. \A H : \A st \in {"PENDING", "COMPLETED"} : Upsert(stop[t], H, st)[h] # "NONE"
  BY DEF Upsert
<1>2. \A H, G : Upsert(Upsert(stop[t], H, "COMPLETED"), G, "PENDING")[h] # "NONE"
  BY DEF Upsert
<1>3. \A H : DropPending(stop[t], H)[h] # "NONE"
  BY DEF DropPending
<1>4. stop \in [Trips -> [Hubs -> {"NONE", "DELETED", "PENDING", "COMPLETED"}]]
  BY DEF TypeOK
<1>5. ASSUME NEW o \in Orders, NEW g \in Hubs \cup {NoHub}, NEW q \in 1 .. MaxQty, CreateOrder(o, g, q)
      PROVE  stop' = stop
  BY <1>5 DEF CreateOrder
<1>6. ASSUME NEW o \in Orders, NEW g \in Hubs, NEW q \in 1 .. MaxQty, NEW d \in BOOLEAN,
             QuickCreateInbound(o, g, q, d)
      PROVE  stop' = stop
  BY <1>6 DEF QuickCreateInbound
<1>7. ASSUME NEW g \in Hubs, NEW got \in Cargo, NEW drafts \in SUBSET Orders, BatchCreateInbound(g, got, drafts)
      PROVE  stop'[t][h] # "NONE"
  BY <1>1, <1>4, <1>7 DEF BatchCreateInbound
<1>8. ASSUME NEW g \in Hubs, NEW admin \in BOOLEAN, NEW c \in Codes \cup {NoTrip}, NEW got \in Cargo,
             NEW keep \in BOOLEAN, ConfirmInbound(g, admin, c, got, keep)
      PROVE  stop'[t][h] # "NONE"
  BY <1>1, <1>4, <1>8 DEF ConfirmInbound, ReceivedStops
<1>9. ASSUME NEW g \in Hubs, NEW admin \in BOOLEAN, NEW c \in Codes, NEW got \in Cargo,
             SaveInboundDraft(g, admin, c, got)
      PROVE  stop'[t][h] # "NONE"
  BY <1>1, <1>4, <1>9 DEF SaveInboundDraft
<1>10. ASSUME NEW g \in Hubs, NEW load \in Cargo, NEW to \in Hubs \cup {NoHub}, NEW d \in Codes \cup {NoTrip},
              ConfirmOutbound(g, load, to, d)
       PROVE  stop'[t][h] # "NONE"
  BY <1>2, <1>4, <1>10 DEF ConfirmOutbound
<1>11. ASSUME NEW g \in Hubs, NEW load \in Cargo, NEW to \in Hubs \cup {NoHub}, NEW d \in Codes \cup {NoTrip},
              SaveOutboundDraft(g, load, to, d)
       PROVE  stop'[t][h] # "NONE"
  BY <1>1, <1>4, <1>11 DEF SaveOutboundDraft
<1>12. ASSUME NEW g \in Hubs \cup {NoHub}, NEW c \in Codes,
              CancelOutboundDraft(g, c) \/ CancelInboundDraft(g, c) \/ UpdateTransitStep(g, c)
       PROVE  stop'[t][h] # "NONE"
  BY <1>3, <1>4, <1>12 DEF CancelOutboundDraft, CancelInboundDraft, UpdateTransitStep
<1>13. ASSUME NEW load \in Cargo, NEW to \in Hubs \cup {NoHub}, NEW d \in Codes \cup {NoTrip},
              NEW at \in [DOMAIN load -> Hubs], NEW first \in DOMAIN load,
              AdminOutbound(at, first, load, to, d)
       PROVE  stop'[t][h] # "NONE"
  <2>1. CASE AdminConfirmOutbound(at, first, load, to, d)
    BY <1>2, <1>4, <2>1 DEF AdminConfirmOutbound
  <2>2. CASE AdminSaveOutboundDraft(at, first, load, to, d)
    BY <1>1, <1>4, <2>2 DEF AdminSaveOutboundDraft
  <2> QED
    BY <1>13, <2>1, <2>2 DEF AdminOutbound
<1>14. stop' = stop => stop'[t][h] # "NONE"
  OBVIOUS
<1>15. CASE HubNext
  BY <1>5, <1>6, <1>7, <1>8, <1>9, <1>10, <1>11, <1>12, <1>14, <1>15, Zenon DEF HubNext
<1> QED
  BY <1>13, <1>15, Zenon DEF Next

LEMMA CodesGrow ==
  ASSUME TypeOK, Next
  PROVE  lastTrip <= lastTrip'
<1>1. lastTrip \in Nat
  BY DEF TypeOK
<1>2. ASSUME NEW h \in Hubs, NEW got \in Cargo, NEW drafts \in SUBSET Orders, BatchCreateInbound(h, got, drafts)
      PROVE  lastTrip <= lastTrip'
  BY <1>1, <1>2 DEF BatchCreateInbound
<1>3. ASSUME NEW h \in Hubs, NEW load \in Cargo, NEW to \in Hubs \cup {NoHub}, NEW d \in Codes \cup {NoTrip},
             ConfirmOutbound(h, load, to, d) \/ SaveOutboundDraft(h, load, to, d)
      PROVE  lastTrip <= lastTrip'
  BY <1>1, <1>3 DEF ConfirmOutbound, SaveOutboundDraft, TripFor
<1>4. \A o, h, q : CreateOrder(o, h, q) => lastTrip' = lastTrip
  BY DEF CreateOrder
<1>5. \A o, h, q, d : QuickCreateInbound(o, h, q, d) => lastTrip' = lastTrip
  BY DEF QuickCreateInbound
<1>6. \A h, admin, t, got, keep : ConfirmInbound(h, admin, t, got, keep) => lastTrip' = lastTrip
  BY DEF ConfirmInbound
<1>7. \A h, admin, t, got : SaveInboundDraft(h, admin, t, got) => lastTrip' = lastTrip
  BY DEF SaveInboundDraft
<1>8. \A h, t : CancelOutboundDraft(h, t) \/ CancelInboundDraft(h, t) \/ UpdateTransitStep(h, t) => lastTrip' = lastTrip
  BY DEF CancelOutboundDraft, CancelInboundDraft, UpdateTransitStep
<1>9. lastTrip' = lastTrip => lastTrip <= lastTrip'
  BY <1>1
<1>10. ASSUME NEW load \in Cargo, NEW to \in Hubs \cup {NoHub}, NEW d \in Codes \cup {NoTrip},
              NEW at \in [DOMAIN load -> Hubs], NEW first \in DOMAIN load,
              AdminOutbound(at, first, load, to, d)
       PROVE  lastTrip <= lastTrip'
  BY <1>1, <1>10 DEF AdminOutbound, AdminConfirmOutbound, AdminSaveOutboundDraft, TripFor
<1>11. CASE HubNext
  BY <1>2, <1>3, <1>4, <1>5, <1>6, <1>7, <1>8, <1>9, <1>11, Zenon DEF HubNext
<1> QED
  BY <1>10, <1>11, Zenon DEF Next

-----------------------------------------------------------------------------
(* What saving and confirming a note write. *)

LEMMA LoadFacts ==
  ASSUME TypeOK, AllClean, NEW h \in Hubs, NEW load \in Cargo, NEW to \in Hubs \cup {NoHub},
         NEW d \in Codes \cup {NoTrip}, NEW st \in {"PENDING", "IN_TRANSIT"},
         \/ st = "PENDING" /\ SaveOutboundDraft(h, load, to, d)
         \/ st = "IN_TRANSIT" /\ ConfirmOutbound(h, load, to, d),
         NEW n, n = TripFor(d)
  PROVE  /\ n \in Trips /\ n <= lastTrip' /\ stop'[n][h] # "NONE"
         /\ st = "IN_TRANSIT" => stop'[n][h] = "COMPLETED"
         /\ \A t \in Trips, o \in Orders : t # n =>
              line'[t][o] = line[t][o] /\ (ShippedOn(ledger'[o], t) <=> ShippedOn(ledger[o], t))
         /\ \A o \in Orders :
              /\ ~ShippedOn(ledger[o], n)
              /\ ShippedOn(ledger'[o], n) <=> st = "IN_TRANSIT" /\ o \in DOMAIN load
         /\ \A o \in DOMAIN load :
              /\ line'[n][o] = Line(st, OutKind(to), h, load[o])
              /\ line'[n][o].status = st /\ line'[n][o].kind \in Dispatch
              /\ line'[n][o].hub = h /\ line'[n][o].qty = load[o] /\ load[o] \in Nat /\ load[o] > 0
         /\ \A o \in Orders : o \notin DOMAIN load =>
              /\ line'[n][o].status \in {"NONE", "DELETED"}
              /\ line'[n][o].kind \in Dispatch => line'[n][o] = line[n][o]
<1> DEFINE S == DOMAIN load
           r(o) == Row(OutKind(to), h, n, load[o])
<1>1. n \in Trips /\ n \in Nat
  BY TripForType DEF ConfirmOutbound, SaveOutboundDraft
<1>2. \A p \in Orders : ~ShippedOn(ledger[p], n)
  BY NoteUnshipped DEF ConfirmOutbound, SaveOutboundDraft
<1>3. n <= lastTrip'
  <2>1. lastTrip' = IF d = NoTrip THEN TripFor(d) ELSE lastTrip
    BY DEF ConfirmOutbound, SaveOutboundDraft
  <2>2. d # NoTrip => TripFor(d) = d /\ d <= lastTrip
    BY CodesAreTrips DEF TripFor, Codes
  <2> QED
    BY <1>1, <2>1, <2>2
<1>4. /\ stop'[n][h] # "NONE"
      /\ st = "IN_TRANSIT" => stop'[n][h] = "COMPLETED"
  BY <1>1 DEF ConfirmOutbound, SaveOutboundDraft, TypeOK, Upsert
<1>5. line' = [line EXCEPT ![n] = Planned(n, h, load, to, st)]
  BY DEF ConfirmOutbound, SaveOutboundDraft
<1>6. \A o \in Orders : ledger'[o] = IF st = "IN_TRANSIT" /\ o \in S THEN Append(ledger[o], r(o)) ELSE ledger[o]
  BY DEF ConfirmOutbound, SaveOutboundDraft
<1>7. \A o \in S : r(o) \in RowRecord /\ r(o).live /\ r(o).kind \in Dispatch /\ r(o).trip = n
  BY <1>1, CargoType DEF Row, RowRecord, Kinds, Dispatch, OutKind
<1>8. \A o \in S : o \in Orders /\ load[o] \in Nat /\ load[o] > 0
  BY CargoType
<1> HIDE DEF r
<1>9. ASSUME NEW t \in Trips, NEW o \in Orders
      PROVE  ShippedOn(ledger'[o], t) <=> ShippedOn(ledger[o], t) \/ (t = n /\ st = "IN_TRANSIT" /\ o \in S)
  <2>1. CASE st = "IN_TRANSIT" /\ o \in S
    <3>1. ledger[o] \in Seq(RowRecord)
      BY OrderFacts
    <3>2. ShippedOn(Append(ledger[o], r(o)), t) <=> ShippedOn(ledger[o], t) \/ n = t
      BY <1>7, <2>1, <3>1, ShippedAppend
    <3> QED
      BY <1>6, <2>1, <3>2
  <2>2. CASE ~(st = "IN_TRANSIT" /\ o \in S)
    BY <1>6, <2>2
  <2> QED
    BY <2>1, <2>2
<1>10. ASSUME NEW t \in Trips, NEW o \in Orders, t # n
       PROVE  line'[t][o] = line[t][o]
  BY <1>5, <1>10 DEF TypeOK
<1>11. ASSUME NEW o \in Orders
       PROVE  line'[n][o] = IF o \in S THEN Line(st, OutKind(to), h, load[o])
                            ELSE IF LiveLine(n, o) THEN DeletedLine ELSE line[n][o]
  BY <1>1, <1>5 DEF TypeOK, Planned
<1>12. ASSUME NEW o \in S
       PROVE  /\ line'[n][o] = Line(st, OutKind(to), h, load[o])
              /\ line'[n][o].status = st /\ line'[n][o].kind \in Dispatch
              /\ line'[n][o].hub = h /\ line'[n][o].qty = load[o] /\ load[o] \in Nat /\ load[o] > 0
  BY <1>8, <1>11 DEF Line, OutKind, Dispatch
<1>13. ASSUME NEW o \in Orders, o \notin S
       PROVE  /\ line'[n][o].status \in {"NONE", "DELETED"}
              /\ line'[n][o].kind \in Dispatch => line'[n][o] = line[n][o]
  BY <1>11, <1>13 DEF LiveLine, DeletedLine, NoLine, Dispatch
<1> QED
  BY <1>1, <1>2, <1>3, <1>4, <1>9, <1>10, <1>12, <1>13

-----------------------------------------------------------------------------
(* Lines and their stops. *)

LEMMA QuietLinesOK ==
  ASSUME TypeOK, LinesOK, Next, Quiet
  PROVE  LinesOK'
<1> SUFFICES ASSUME NEW t \in Trips, NEW o \in Orders
             PROVE  /\ line'[t][o].kind \in Dispatch =>
                         /\ t <= lastTrip' /\ line'[t][o].hub \in Hubs /\ stop'[t][line'[t][o].hub] # "NONE"
                         /\ line'[t][o].status = "PENDING" => line'[t][o].qty > 0
                    /\ ShippedOn(ledger'[o], t) =>
                         line'[t][o].kind \in Dispatch /\ line'[t][o].status \in {"IN_TRANSIT", "COMPLETED"}
  BY DEF LinesOK
<1>1. KeptLine(line[t][o], line'[t][o]) /\ (ShippedOn(ledger'[o], t) <=> ShippedOn(ledger[o], t))
  BY DEF Quiet
<1>2. CASE line'[t][o].kind \in Dispatch
  <2>1. /\ line[t][o].kind \in Dispatch /\ line'[t][o].hub = line[t][o].hub
        /\ line'[t][o].status \in {line[t][o].status, "COMPLETED"}
        /\ line'[t][o].qty = line[t][o].qty \/ line'[t][o].qty > 0
    BY <1>1, <1>2 DEF KeptLine
  <2>2. /\ t <= lastTrip /\ line[t][o].hub \in Hubs /\ stop[t][line[t][o].hub] # "NONE"
        /\ line[t][o].status = "PENDING" => line[t][o].qty > 0
    BY <2>1 DEF LinesOK
  <2>3. t <= lastTrip'
    <3>1. t \in Nat /\ lastTrip \in Nat
      BY BoundsAssumption DEF TypeOK, Trips
    <3>2. lastTrip' \in Int /\ lastTrip <= lastTrip'
      BY TypeStep, CodesGrow DEF TypeOK
    <3> QED
      BY <2>2, <3>1, <3>2
  <2>4. stop'[t][line'[t][o].hub] # "NONE"
    BY <2>1, <2>2, StopsStay
  <2> QED
    BY <1>1, <2>1, <2>2, <2>3, <2>4 DEF LinesOK, KeptLine, Left
<1>3. CASE line'[t][o].kind \notin Dispatch
  BY <1>1, <1>3 DEF LinesOK, KeptLine, Left
<1> QED
  BY <1>2, <1>3

LEMMA LoadLinesOK ==
  ASSUME TypeOK, AllClean, LinesOK, Next, NEW h \in Hubs, NEW load \in Cargo, NEW to \in Hubs \cup {NoHub},
         NEW d \in Codes \cup {NoTrip},
         SaveOutboundDraft(h, load, to, d) \/ ConfirmOutbound(h, load, to, d)
  PROVE  LinesOK'
<1>1. PICK st \in {"PENDING", "IN_TRANSIT"} :
        \/ st = "PENDING" /\ SaveOutboundDraft(h, load, to, d)
        \/ st = "IN_TRANSIT" /\ ConfirmOutbound(h, load, to, d)
  OBVIOUS
<1>2. PICK n : n = TripFor(d)
  OBVIOUS
<1> SUFFICES ASSUME NEW t \in Trips, NEW o \in Orders
             PROVE  /\ line'[t][o].kind \in Dispatch =>
                         /\ t <= lastTrip' /\ line'[t][o].hub \in Hubs /\ stop'[t][line'[t][o].hub] # "NONE"
                         /\ line'[t][o].status = "PENDING" => line'[t][o].qty > 0
                    /\ ShippedOn(ledger'[o], t) =>
                         line'[t][o].kind \in Dispatch /\ line'[t][o].status \in {"IN_TRANSIT", "COMPLETED"}
  BY DEF LinesOK
<1>3. line'[t][o] = line[t][o] /\ line[t][o].kind \in Dispatch =>
        t <= lastTrip' /\ line'[t][o].hub \in Hubs /\ stop'[t][line'[t][o].hub] # "NONE"
  <2>1. t \in Nat /\ lastTrip \in Nat
    BY BoundsAssumption DEF TypeOK, Trips
  <2>2. lastTrip' \in Int /\ lastTrip <= lastTrip'
    BY TypeStep, CodesGrow DEF TypeOK
  <2> QED
    BY <2>1, <2>2, StopsStay DEF LinesOK
<1>4. CASE t # n
  <2>1. line'[t][o] = line[t][o] /\ (ShippedOn(ledger'[o], t) <=> ShippedOn(ledger[o], t))
    BY <1>1, <1>2, <1>4, LoadFacts
  <2> QED
    BY <1>3, <2>1 DEF LinesOK
<1>5. CASE t = n /\ o \in DOMAIN load
  <2>1. /\ line'[n][o].status = st /\ line'[n][o].kind \in Dispatch
        /\ line'[n][o].hub = h /\ line'[n][o].qty = load[o] /\ load[o] > 0
        /\ n <= lastTrip' /\ stop'[n][h] # "NONE"
        /\ ShippedOn(ledger'[o], n) => st = "IN_TRANSIT"
    BY <1>1, <1>2, <1>5, LoadFacts
  <2> QED
    BY <1>5, <2>1
<1>6. CASE t = n /\ o \notin DOMAIN load
  <2>1. /\ line'[n][o].status \in {"NONE", "DELETED"}
        /\ line'[n][o].kind \in Dispatch => line'[n][o] = line[n][o]
        /\ ~ShippedOn(ledger'[o], n)
    BY <1>1, <1>2, <1>6, LoadFacts
  <2> QED
    BY <1>3, <1>6, <2>1
<1> QED
  BY <1>4, <1>5, <1>6

(* The two handlers that load a trip: the plan of a note, and its dispatch. *)
Loads(h, load, to, d) == SaveOutboundDraft(h, load, to, d) \/ ConfirmOutbound(h, load, to, d)

LEMMA QuietOrLoads ==
  ASSUME TypeOK, LinesOK, RoutineNext
  PROVE  \/ Quiet
         \/ \E h \in Hubs, load \in Cargo, to \in Hubs \cup {NoHub}, d \in Codes \cup {NoTrip} : Loads(h, load, to, d)
BY EntryQuiet, BatchQuiet, ConfirmInboundQuiet, NotesQuiet, Zenon DEF RoutineNext, Loads

LEMMA LinesStep == TypeOK /\ AllClean /\ LinesOK /\ [RoutineNext]_vars => LinesOK'
<1> SUFFICES ASSUME TypeOK, AllClean, LinesOK, [RoutineNext]_vars PROVE LinesOK'
  OBVIOUS
<1>1. CASE UNCHANGED vars
  BY <1>1 DEF vars, LinesOK
<1>2. CASE RoutineNext
  <2>1. Next
    BY <1>2, RoutineAllowed
  <2> QED
    BY <1>2, <2>1, QuietOrLoads, QuietLinesOK, LoadLinesOK DEF Loads
<1> QED
  BY <1>1, <1>2

LEMMA InitLines == Init => LinesOK
BY DEF Init, LinesOK, NoLine, ShippedOn, Dispatch

LEMMA AlwaysLines == RoutineSpec => [](TypeOK /\ AllClean /\ LinesOK)
<1>1. RoutineSpec => Spec
  BY RoutineAllowed, PTL DEF RoutineSpec, Spec
<1> QED
  BY <1>1, AlwaysClean, InitLines, LinesStep, PTL DEF RoutineSpec

(* What a saved note shows as available is what its confirmation grants:    *)
(* its own packages are given back to the stock that its reservation        *)
(* reduced (getTripManifest), and the hub that plans them holds them        *)
(* (StockCoversReservations), so no Math.max hides a difference.            *)
THEOREM NoteTellsTruth == BoardSpec => []NoteShowsAvailable
<1>1. RoutineSpec => []CountersMatchLedger
  BY CountersNeverDrift
<1>2. RoutineSpec => []StockCoversReservations
  BY NotesStayCovered
<1> QED
  BY <1>1, <1>2, BoardIsRoutine, AlwaysLines, NoteIsTrue, PTL

-----------------------------------------------------------------------------
(* Origin stops. *)

LEMMA QuietOrigins ==
  ASSUME TypeOK, LinesOK, OriginsOK, Next, Quiet, origins' = origins \cup FirstLoaded
  PROVE  OriginsOK'
<1> SUFFICES ASSUME NEW t \in Trips, NEW h \in Hubs, <<t, h>> \in origins'
             PROVE  /\ t <= lastTrip' /\ stop'[t][h] # "NONE"
                    /\ \A o \in Orders : line'[t][o].status = "PENDING" /\ line'[t][o].kind \in Dispatch =>
                         line'[t][o].hub = h
                    /\ stop'[t][h] = "COMPLETED" \/ \A o \in Orders : ~ShippedOn(ledger'[o], t)
  BY DEF OriginsOK, PendingOut
<1>1. \A o \in Orders : KeptLine(line[t][o], line'[t][o]) /\ (ShippedOn(ledger'[o], t) <=> ShippedOn(ledger[o], t))
  BY DEF Quiet
<1>2. <<t, h>> \notin FirstLoaded
  <2>1. SUFFICES ASSUME stop[t][h] = "NONE", LoadedAt(t, h)
                 PROVE  FALSE
    BY DEF FirstLoaded
  <2>2. PICK o \in Orders : line'[t][o].kind \in Dispatch /\ line'[t][o].hub = h
    BY <2>1 DEF LoadedAt
  <2>3. line[t][o].kind \in Dispatch /\ line[t][o].hub = h
    BY <1>1, <2>2 DEF KeptLine
  <2> QED
    BY <2>1, <2>3 DEF LinesOK
<1>3. /\ t <= lastTrip /\ stop[t][h] # "NONE"
      /\ \A o \in Orders : PendingOut(t, o) => line[t][o].hub = h
      /\ stop[t][h] = "COMPLETED" \/ \A o \in Orders : ~ShippedOn(ledger[o], t)
  BY <1>2 DEF OriginsOK
<1>4. t <= lastTrip'
  <2>1. t \in Nat /\ lastTrip \in Nat
    BY BoundsAssumption DEF TypeOK, Trips
  <2>2. lastTrip' \in Int /\ lastTrip <= lastTrip'
    BY TypeStep, CodesGrow DEF TypeOK
  <2> QED
    BY <1>3, <2>1, <2>2
<1>5. ASSUME NEW o \in Orders, line'[t][o].status = "PENDING", line'[t][o].kind \in Dispatch
      PROVE  line'[t][o].hub = h
  BY <1>1, <1>3, <1>5 DEF KeptLine, PendingOut
<1> QED
  BY <1>1, <1>3, <1>4, <1>5, StopsStay, StopStep

LEMMA LoadOrigins ==
  ASSUME TypeOK, AllClean, OriginsOK, Next, origins' = origins \cup FirstLoaded,
         NEW h \in Hubs, NEW load \in Cargo, NEW to \in Hubs \cup {NoHub}, NEW d \in Codes \cup {NoTrip},
         Loads(h, load, to, d)
  PROVE  OriginsOK'
<1>1. PICK st \in {"PENDING", "IN_TRANSIT"} :
        \/ st = "PENDING" /\ SaveOutboundDraft(h, load, to, d)
        \/ st = "IN_TRANSIT" /\ ConfirmOutbound(h, load, to, d)
  BY DEF Loads
<1>2. PICK n : n = TripFor(d)
  OBVIOUS
<1>3. /\ n \in Trips /\ n <= lastTrip' /\ stop'[n][h] # "NONE"
      /\ st = "IN_TRANSIT" => stop'[n][h] = "COMPLETED"
  BY <1>1, <1>2, LoadFacts
<1>4. \A t \in Trips, o \in Orders : t # n =>
        line'[t][o] = line[t][o] /\ (ShippedOn(ledger'[o], t) <=> ShippedOn(ledger[o], t))
  BY <1>1, <1>2, LoadFacts
<1>5. \A o \in Orders : ShippedOn(ledger'[o], n) => st = "IN_TRANSIT"
  BY <1>1, <1>2, LoadFacts
<1>6. ASSUME NEW o \in Orders
      PROVE  /\ line'[n][o].status = "PENDING" => line'[n][o].hub = h
             /\ line'[n][o].kind \in Dispatch => line'[n][o].hub = h \/ line'[n][o] = line[n][o]
  <2>1. CASE o \in DOMAIN load
    BY <1>1, <1>2, <2>1, LoadFacts
  <2>2. CASE o \notin DOMAIN load
    <3>1. /\ line'[n][o].status \in {"NONE", "DELETED"}
          /\ line'[n][o].kind \in Dispatch => line'[n][o] = line[n][o]
      BY <1>1, <1>2, <2>2, LoadFacts
    <3> QED
      BY <3>1
  <2> QED
    BY <2>1, <2>2
<1> SUFFICES ASSUME NEW t \in Trips, NEW g \in Hubs, <<t, g>> \in origins'
             PROVE  /\ t <= lastTrip' /\ stop'[t][g] # "NONE"
                    /\ \A o \in Orders : line'[t][o].status = "PENDING" /\ line'[t][o].kind \in Dispatch =>
                         line'[t][o].hub = g
                    /\ stop'[t][g] = "COMPLETED" \/ \A o \in Orders : ~ShippedOn(ledger'[o], t)
  BY DEF OriginsOK, PendingOut
(* Only the hub of the note can have an origin stop on its trip. *)
<1>7. CASE t = n
  <2>1. g = h
    <3>1. CASE <<n, g>> \in origins
      <4>1. n <= lastTrip /\ \A o \in Orders : PendingOut(n, o) => line[n][o].hub = g
        BY <1>3, <3>1 DEF OriginsOK
      <4>2. d # NoTrip /\ n = d
        BY <1>2, <4>1 DEF TripFor, TypeOK
      <4>3. OutboundDraft(d, h)
        BY <4>2 DEF Loads, SaveOutboundDraft, ConfirmOutbound
      <4>4. PICK o \in Orders : PendingOut(n, o) /\ line[n][o].hub = h
        BY <4>2, <4>3, HubsAssumption DEF OutboundDraft, LiveLines
      <4> QED
        BY <4>1, <4>4
    <3>2. CASE <<n, g>> \in FirstLoaded
      <4>1. LoadedAt(n, g)
        BY <3>2 DEF FirstLoaded
      <4>2. PICK o \in Orders : line'[n][o] # line[n][o] /\ line'[n][o].kind \in Dispatch /\ line'[n][o].hub = g
        BY <4>1 DEF LoadedAt
      <4> QED
        BY <1>6, <4>2
    <3> QED
      BY <1>7, <3>1, <3>2
  <2> QED
    BY <1>3, <1>5, <1>6, <1>7, <2>1
<1>8. CASE t # n
  <2>1. \A o \in Orders : line'[t][o] = line[t][o] /\ (ShippedOn(ledger'[o], t) <=> ShippedOn(ledger[o], t))
    BY <1>4, <1>8
  <2>2. <<t, g>> \in origins
    BY <2>1 DEF FirstLoaded, LoadedAt
  <2>3. /\ t <= lastTrip /\ stop[t][g] # "NONE"
        /\ \A o \in Orders : PendingOut(t, o) => line[t][o].hub = g
        /\ stop[t][g] = "COMPLETED" \/ \A o \in Orders : ~ShippedOn(ledger[o], t)
    BY <2>2 DEF OriginsOK
  <2>4. t <= lastTrip'
    <3>1. t \in Nat /\ lastTrip \in Nat
      BY BoundsAssumption DEF TypeOK, Trips
    <3>2. lastTrip' \in Int /\ lastTrip <= lastTrip'
      BY TypeStep, CodesGrow DEF TypeOK
    <3> QED
      BY <2>3, <3>1, <3>2
  <2> QED
    BY <2>1, <2>3, <2>4, StopsStay, StopStep DEF PendingOut
<1> QED
  BY <1>7, <1>8

LEMMA OriginsStep == TypeOK /\ AllClean /\ LinesOK /\ OriginsOK /\ [BoardNext]_board => OriginsOK'
<1> SUFFICES ASSUME TypeOK, AllClean, LinesOK, OriginsOK, [BoardNext]_board PROVE OriginsOK'
  OBVIOUS
<1>1. CASE UNCHANGED board
  BY <1>1 DEF board, OriginsOK, PendingOut
<1>2. CASE BoardNext
  <2>1. RoutineNext /\ origins' = origins \cup FirstLoaded
    BY <1>2 DEF BoardNext, RoutineNext
  <2>2. Next
    BY <2>1, RoutineAllowed
  <2> QED
    BY <2>1, <2>2, QuietOrLoads, QuietOrigins, LoadOrigins
<1> QED
  BY <1>1, <1>2

-----------------------------------------------------------------------------
(* The vehicle an order was loaded on last. *)

OnTrip(s, K, t) == {i \in DOMAIN s : s[i].live /\ s[i].kind \in K /\ s[i].trip = t}
SumOn(s, K, t) == QtyOf(s, OnTrip(s, K, t))
Coming(s, t) == Monus(SumOn(s, {"TRANSFER"}, t), SumOn(s, Receipt, t))
LastOn(s, t) ==
  \E i \in OnTrip(s, {"TRANSFER"}, t) : \A j \in DOMAIN s : s[j].live /\ s[j].kind = "TRANSFER" => j <= i

(* An order some of whose packages are still on the vehicle they were       *)
(* loaded on last rides that vehicle.                                       *)
Rides(ord, s) == ord.live => \A t \in Trips : Coming(s, t) > 0 /\ LastOn(s, t) => ord.trip = t
AllRide == \A o \in Orders : Rides(order[o], ledger[o])

LEMMA RoadQueries ==
  ASSUME NEW o \in Orders, NEW t
  PROVE  /\ \A K : BookedOn(o, K, t) = SumOn(ledger[o], K, t)
         /\ InTransit(o, t) = Coming(ledger[o], t)
         /\ LastVehicle(o, t) <=> LastOn(ledger[o], t)
<1>1. \A K : RowsOn(o, K, t) = OnTrip(ledger[o], K, t)
  BY DEF RowsOn, Rows, OnTrip
<1>2. \A K : BookedOn(o, K, t) = SumOn(ledger[o], K, t)
  BY <1>1 DEF BookedOn, SumOn
<1>3. LastVehicle(o, t) <=> LastOn(ledger[o], t)
  BY <1>1 DEF LastVehicle, LastOn, Rows
<1> QED
  BY <1>2, <1>3 DEF InTransit, Coming

LEMMA OnTripFinite ==
  ASSUME NEW s \in Seq(RowRecord), NEW K, NEW t
  PROVE  /\ IsFiniteSet(OnTrip(s, K, t))
         /\ \A i \in OnTrip(s, K, t) : s[i].qty \in Nat
         /\ SumOn(s, K, t) \in Nat
<1>1. DOMAIN s = 1 .. Len(s) /\ Len(s) \in Nat
  BY LenProperties
<1>2. IsFiniteSet(OnTrip(s, K, t))
  <2>1. \A n \in Nat : IsFiniteSet(1 .. n)
    BY FS_Interval
  <2>2. IsFiniteSet(DOMAIN s)
    BY <1>1, <2>1
  <2> QED
    BY <2>2, FS_Subset DEF OnTrip
<1>3. \A i \in OnTrip(s, K, t) : s[i] \in RowRecord
  BY <1>1, ElementOfSeq DEF OnTrip
<1>4. \A i \in OnTrip(s, K, t) : s[i].qty \in Nat
  BY <1>3 DEF RowRecord
<1> QED
  BY <1>2, <1>4, QtyFinite DEF SumOn

LEMMA SumOnAppend ==
  ASSUME NEW s \in Seq(RowRecord), NEW r \in RowRecord, r.live, NEW K, NEW t
  PROVE  SumOn(Append(s, r), K, t) = SumOn(s, K, t) + (IF r.kind \in K /\ r.trip = t THEN r.qty ELSE 0)
<1> DEFINE n == Len(s) + 1
           z == Append(s, r)
           I == OnTrip(s, K, t)
<1>1. DOMAIN s = 1 .. Len(s) /\ Len(s) \in Nat
  BY LenProperties
<1>2. /\ z \in Seq(RowRecord) /\ Len(z) = Len(s) + 1
      /\ \A i \in 1 .. Len(s) : z[i] = s[i]
      /\ z[n] = r
  BY AppendProperties
<1>3. DOMAIN z = 1 .. Len(z)
  BY <1>2, LenProperties
<1>4. n \notin I /\ I \subseteq 1 .. Len(s)
  BY <1>1 DEF OnTrip
<1> HIDE DEF z
<1>5. OnTrip(z, K, t) = IF r.kind \in K /\ r.trip = t THEN I \cup {n} ELSE I
  BY <1>1, <1>2, <1>3 DEF OnTrip
<1>6. QtyOf(z, I) = QtyOf(s, I)
  BY <1>2, <1>4, QtySame
<1>7. r.qty \in Nat
  BY DEF RowRecord
<1>8. IsFiniteSet(I) /\ SumOn(s, K, t) \in Nat /\ \A i \in I : z[i].qty \in Nat
  BY <1>2, <1>4, OnTripFinite
<1>9. QtyOf(z, I \cup {n}) = QtyOf(z, I) + r.qty
  BY <1>2, <1>4, <1>7, <1>8, QtyAdd
<1>10. SumOn(s, K, t) = QtyOf(s, I) /\ SumOn(z, K, t) = QtyOf(z, OnTrip(z, K, t))
  BY DEF SumOn
<1> HIDE DEF I, n
<1>11. CASE r.kind \in K /\ r.trip = t
  BY <1>5, <1>6, <1>9, <1>10, <1>11 DEF z
<1>12. CASE ~(r.kind \in K /\ r.trip = t)
  BY <1>5, <1>6, <1>8, <1>10, <1>12 DEF z
<1> QED
  BY <1>11, <1>12

(* Nothing comes where nothing was shipped. *)
LEMMA NothingComes ==
  ASSUME NEW s \in Seq(RowRecord), NEW t, ~ShippedOn(s, t)
  PROVE  Coming(s, t) = 0
<1>1. OnTrip(s, {"TRANSFER"}, t) = {}
  BY DEF OnTrip, ShippedOn, Dispatch
<1>2. SumOn(s, {"TRANSFER"}, t) = 0 /\ SumOn(s, Receipt, t) \in Nat
  BY <1>1, QtyEmpty, OnTripFinite DEF SumOn
<1> QED
  BY <1>2 DEF Coming, Monus

(* Which vehicle was the last after one more invoice. *)
LEMMA LastAppend ==
  ASSUME NEW s \in Seq(RowRecord), NEW r \in RowRecord, r.live, NEW t, LastOn(Append(s, r), t)
  PROVE  IF r.kind = "TRANSFER" THEN r.trip = t ELSE LastOn(s, t)
<1> DEFINE n == Len(s) + 1
           z == Append(s, r)
<1>1. DOMAIN s = 1 .. Len(s) /\ Len(s) \in Nat
  BY LenProperties
<1>2. /\ z \in Seq(RowRecord) /\ Len(z) = Len(s) + 1
      /\ \A i \in 1 .. Len(s) : z[i] = s[i]
      /\ z[n] = r
  BY AppendProperties
<1>3. DOMAIN z = 1 .. n
  BY <1>2, LenProperties
<1>4. LastOn(z, t)
  OBVIOUS
<1> HIDE DEF z
<1>5. PICK i \in DOMAIN z : /\ z[i].live /\ z[i].kind = "TRANSFER" /\ z[i].trip = t
                            /\ \A j \in DOMAIN z : z[j].live /\ z[j].kind = "TRANSFER" => j <= i
  BY <1>4 DEF LastOn, OnTrip
<1>6. CASE r.kind = "TRANSFER"
  <2>1. n <= i
    BY <1>1, <1>2, <1>3, <1>5, <1>6
  <2>2. i = n
    BY <1>1, <1>3, <1>5, <2>1
  <2> QED
    BY <1>2, <1>5, <1>6, <2>2
<1>7. CASE r.kind # "TRANSFER"
  <2>1. i # n
    BY <1>2, <1>5, <1>7
  <2>2. i \in DOMAIN s /\ s[i] = z[i]
    BY <1>1, <1>2, <1>3, <1>5, <2>1
  <2>3. \A j \in DOMAIN s : s[j].live /\ s[j].kind = "TRANSFER" => j <= i
    BY <1>1, <1>2, <1>3, <1>5
  <2> QED
    BY <1>5, <1>7, <2>2, <2>3 DEF LastOn, OnTrip
<1> QED
  BY <1>6, <1>7

(* An invoice that is not a transfer brings nothing more onto the road, and *)
(* a receipt of all that was coming leaves nothing there.                   *)
LEMMA ComingAppend ==
  ASSUME NEW s \in Seq(RowRecord), NEW r \in RowRecord, r.live, r.kind # "TRANSFER", NEW t
  PROVE  /\ Coming(s, t) \in Nat /\ Coming(Append(s, r), t) \in Nat
         /\ Coming(Append(s, r), t) <= Coming(s, t)
         /\ r.kind = "INBOUND" /\ r.trip = t /\ Coming(s, t) <= r.qty => Coming(Append(s, r), t) = 0
<1> DEFINE a == SumOn(s, {"TRANSFER"}, t)
           b == SumOn(s, Receipt, t)
           x == IF r.kind = "INBOUND" /\ r.trip = t THEN r.qty ELSE 0
<1>1. a \in Nat /\ b \in Nat /\ r.qty \in Nat
  BY OnTripFinite DEF RowRecord
<1>2. SumOn(Append(s, r), {"TRANSFER"}, t) = a
  BY <1>1, SumOnAppend
<1>3. SumOn(Append(s, r), Receipt, t) = b + x
  BY SumOnAppend DEF Receipt
<1>4. Coming(s, t) = Monus(a, b) /\ Coming(Append(s, r), t) = Monus(a, b + x)
  BY <1>2, <1>3 DEF Coming
<1> HIDE DEF a, b
<1> QED
  BY <1>1, <1>4 DEF Monus

(* What may happen to an order without taking it off its last vehicle.      *)
LEMMA RideKept ==
  ASSUME TypeOK, NEW o \in Orders, Clean(order[o], ledger[o], lastTrip, Nat), Rides(order[o], ledger[o]),
         NEW new, NEW z,
         \/ z = ledger[o]
         \/ \E r \in RowRecord : r.live /\ r.kind # "TRANSFER" /\ z = Append(ledger[o], r),
         ~Unstocked(order[o]) => new.trip = order[o].trip \/ ~new.live \/ Coming(z, order[o].trip) = 0
  PROVE  Rides(new, z)
<1> DEFINE s == ledger[o]
<1>1. s \in Seq(RowRecord)
  BY OrderFacts
<1> SUFFICES ASSUME new.live, NEW t \in Trips, Coming(z, t) > 0, LastOn(z, t)
             PROVE  new.trip = t
  BY DEF Rides
<1>2. Coming(s, t) > 0 /\ LastOn(s, t)
  <2>1. CASE z = s
    BY <2>1
  <2>2. CASE \E r \in RowRecord : r.live /\ r.kind # "TRANSFER" /\ z = Append(s, r)
    <3>1. PICK r \in RowRecord : r.live /\ r.kind # "TRANSFER" /\ z = Append(s, r)
      BY <2>2
    <3>2. LastOn(s, t)
      BY <1>1, <3>1, LastAppend
    <3>3. Coming(s, t) \in Nat /\ Coming(z, t) \in Nat /\ Coming(z, t) <= Coming(s, t)
      BY <1>1, <3>1, ComingAppend
    <3> QED
      BY <3>2, <3>3
  <2> QED
    BY <2>1, <2>2
<1>3. ~Unstocked(order[o])
  BY <1>2 DEF Clean, LastOn, OnTrip
<1>4. order[o].trip = t
  BY <1>2, <1>3 DEF Unstocked, Rides
<1> QED
  BY <1>3, <1>4

(* Orders that are no rows yet, or drafts, have no invoice. *)
LEMMA Newcomers ==
  ASSUME TypeOK, NEW o \in Orders, Clean(order[o], ledger[o], lastTrip, Nat)
  PROVE  /\ IsUnborn(o) \/ IsDraft(o) => Unstocked(order[o])
         /\ \A h \in Hubs, q \in Nat, d \in BOOLEAN : ~IsUnborn(o) => Intake(o, h, q, d).trip = order[o].trip
         /\ \A h \in Hubs, q \in Nat, admin \in BOOLEAN :
              ~IsUnborn(o) => DraftedOrder(o, h, admin, q).trip = order[o].trip
<1>1. order[o] \in OrderRecord
  BY OrderFacts
<1>2. IsUnborn(o) \/ IsDraft(o) => Unstocked(order[o])
  BY DEF IsUnborn, IsDraft, Unstocked, Clean
<1>3. \A h \in Hubs, q \in Nat, d \in BOOLEAN : ~IsUnborn(o) => Intake(o, h, q, d).trip = order[o].trip
  BY <1>1 DEF Intake, OrderRecord
<1>4. \A h \in Hubs, q \in Nat, admin \in BOOLEAN :
        ~IsUnborn(o) => DraftedOrder(o, h, admin, q).trip = order[o].trip
  BY <1>1 DEF DraftedOrder, OrderRecord
<1> QED
  BY <1>2, <1>3, <1>4

LEMMA ReceiptRow ==
  ASSUME NEW h \in Hubs, NEW c \in Nat, NEW q \in Nat
  PROVE  LET r == Row("INBOUND", h, c, q)
         IN  r \in RowRecord /\ r.live /\ r.kind = "INBOUND" /\ r.trip = c /\ r.qty = q /\ r.kind # "TRANSFER"
BY DEF Row, RowRecord, Kinds, Receipt

LEMMA EntryRides ==
  ASSUME TypeOK, AllClean, AllRide, NEW n \in Orders, NEW q \in 1 .. MaxQty,
         \/ \E h \in Hubs \cup {NoHub} : CreateOrder(n, h, q)
         \/ \E h \in Hubs, d \in BOOLEAN : QuickCreateInbound(n, h, q, d)
  PROVE  AllRide'
<1> SUFFICES ASSUME NEW o \in Orders
             PROVE  Rides(order'[o], ledger'[o])
  BY DEF AllRide
<1>1. Clean(order[o], ledger[o], lastTrip, Nat) /\ Rides(order[o], ledger[o])
  BY DEF AllClean, CleanFor, AllRide
<1>2. \/ ledger'[o] = ledger[o]
      \/ \E r \in RowRecord : r.live /\ r.kind # "TRANSFER" /\ ledger'[o] = Append(ledger[o], r)
  <2>1. \/ ledger'[o] = ledger[o]
        \/ \E h \in Hubs : ledger'[o] = Append(ledger[o], Row("INBOUND", h, NoTrip, q))
    BY DEF CreateOrder, QuickCreateInbound, TypeOK
  <2>2. NoTrip \in Nat /\ q \in Nat
    BY DEF NoTrip
  <2> QED
    BY <2>1, <2>2, ReceiptRow
<1>3. ~Unstocked(order[o]) => order'[o].trip = order[o].trip
  <2>1. ~Unstocked(order[o]) => ~IsUnborn(o)
    BY <1>1, Newcomers
  <2>2. \/ order'[o] = order[o]
        \/ IsUnborn(o)
        \/ \E h \in Hubs, d \in BOOLEAN : order'[o] = Intake(o, h, q, d)
    BY DEF CreateOrder, QuickCreateInbound, TypeOK
  <2> QED
    BY <1>1, <2>1, <2>2, Newcomers
<1> QED
  BY <1>1, <1>2, <1>3, RideKept

LEMMA BatchRides ==
  ASSUME TypeOK, AllClean, AllRide, NEW h \in Hubs, NEW got \in Cargo, NEW drafts \in SUBSET Orders,
         BatchCreateInbound(h, got, drafts)
  PROVE  AllRide'
<1> SUFFICES ASSUME NEW o \in Orders
             PROVE  Rides(order'[o], ledger'[o])
  BY DEF AllRide
<1>1. Clean(order[o], ledger[o], lastTrip, Nat) /\ Rides(order[o], ledger[o])
  BY DEF AllClean, CleanFor, AllRide
<1>2. lastTrip + 1 \in Nat /\ (o \in DOMAIN got => got[o] \in Nat)
  BY CargoType DEF TypeOK
<1>3. \/ ledger'[o] = ledger[o]
      \/ \E r \in RowRecord : r.live /\ r.kind # "TRANSFER" /\ ledger'[o] = Append(ledger[o], r)
  <2>1. \/ ledger'[o] = ledger[o]
        \/ o \in DOMAIN got /\ ledger'[o] = Append(ledger[o], Row("INBOUND", h, lastTrip + 1, got[o]))
    BY DEF BatchCreateInbound
  <2> QED
    BY <1>2, <2>1, ReceiptRow
<1>4. ~Unstocked(order[o]) => order'[o].trip = order[o].trip
  <2>1. ~Unstocked(order[o]) => ~IsUnborn(o)
    BY <1>1, Newcomers
  <2>2. \/ order'[o] = order[o]
        \/ /\ o \in DOMAIN got
           /\ order'[o] = Intake(o, h, got[o], TRUE) \/ order'[o] = Intake(o, h, got[o], FALSE)
    BY DEF BatchCreateInbound, Intake
  <2>3. ASSUME NEW d \in BOOLEAN, o \in DOMAIN got, ~Unstocked(order[o])
        PROVE  Intake(o, h, got[o], d).trip = order[o].trip
    BY <1>1, <1>2, <2>1, <2>3, Newcomers, Zenon
  <2> QED
    BY <2>1, <2>2, <2>3
<1> QED
  BY <1>1, <1>3, <1>4, RideKept

(* A line taken out of a receiving note was not shipped. *)
LEMMA RemovedRides ==
  ASSUME TypeOK, LinesOK, NEW o \in Orders, NEW h \in Hubs, NEW t \in Codes \cup {NoTrip}, NEW S, NEW keep \in BOOLEAN,
         o \in Removed(t, h, S, keep)
  PROVE  LET new == RemovedOrder(o, t)
         IN  new.trip = order[o].trip \/ ~new.live \/ Coming(ledger[o], order[o].trip) = 0
<1>1. order[o] \in OrderRecord /\ ledger[o] \in Seq(RowRecord)
  BY OrderFacts
<1>2. t \in Trips /\ line[t][o].kind = "INBOUND"
  BY CodesAreTrips DEF Removed
<1>3. ~ShippedOn(ledger[o], t)
  BY <1>2 DEF LinesOK, Dispatch
<1>4. Coming(ledger[o], t) = 0
  BY <1>1, <1>3, NothingComes
<1>5. \/ RemovedOrder(o, t) = order[o]
      \/ RemovedOrder(o, t) = [order[o] EXCEPT !.live = FALSE]
      \/ order[o].trip = t
  BY DEF RemovedOrder
<1>6. ~[order[o] EXCEPT !.live = FALSE].live
  BY <1>1 DEF OrderRecord
<1> QED
  BY <1>4, <1>5, <1>6

(* Receiving a vehicle takes the order off it only once it is empty.        *)
LEMMA ReceivedRides ==
  ASSUME TypeOK, NEW o \in Orders, Clean(order[o], ledger[o], lastTrip, Nat), Rides(order[o], ledger[o]),
         NEW h \in Hubs, NEW t \in Codes \cup {NoTrip}, NEW q \in Nat,
         NEW new, new = ReceivedOrder(o, h, FALSE, t, q),
         NEW z, z = ReceivedLedger(o, h, FALSE, t, q)
  PROVE  Rides(new, z)
<1>0. PICK c : c = TripOf(o, h, FALSE, t)
  OBVIOUS
<1> DEFINE r == Row("INBOUND", h, c, q)
           s == ledger[o]
<1>1. order[o] \in OrderRecord /\ s \in Seq(RowRecord) /\ order[o].trip \in Nat /\ FALSE \in BOOLEAN
  BY OrderFacts
<1>2. c \in Nat
  <2>1. c \in {order[o].trip, t}
    BY <1>0, Zenon DEF TripOf
  <2> QED
    BY <1>1, <2>1, CodesAreTrips DEF NoTrip
<1>3. r \in RowRecord /\ r.live /\ r.kind = "INBOUND" /\ r.trip = c /\ r.qty = q /\ r.kind # "TRANSFER"
  BY <1>2, ReceiptRow
<1>4. z = s \/ z = Append(s, r)
  BY <1>0 DEF ReceivedLedger
<1>5. ASSUME ~Unstocked(order[o])
      PROVE  new.trip = order[o].trip \/ Coming(z, order[o].trip) = 0
  <2>1. IsLive(o) /\ ~IsUnborn(o) /\ ~IsDraft(o)
    BY <1>5, Newcomers DEF Unstocked, IsLive
  <2>2. CASE Duplicate(o, c, h)
    BY <1>0, <2>1, <2>2 DEF ReceivedOrder, EditableDraft
  <2>3. CASE ~Duplicate(o, c, h)
    <3>1. new = ReceiveLocked(o, c, q)
      BY <1>0, <2>1, <2>3 DEF ReceivedOrder, EditableDraft
    <3>2. z = Append(s, r)
      BY <1>0, <2>3 DEF ReceivedLedger, Skipped
    <3>3. \/ new.trip = order[o].trip
          \/ order[o].trip = c /\ (SumOn(s, {"TRANSFER"}, c) = 0 \/ Coming(s, c) <= q)
      BY <1>1, <3>1, RoadQueries DEF ReceiveLocked, OrderRecord
    <3> HIDE DEF r, s
    <3>4. SumOn(s, {"TRANSFER"}, c) = 0 => Coming(s, c) <= q
      <4>1. SumOn(s, Receipt, c) \in Nat
        BY <1>1, OnTripFinite
      <4> QED
        BY <4>1 DEF Coming, Monus
    <3>5. Coming(s, c) <= q => Coming(z, c) = 0
      BY <1>1, <1>3, <3>2, ComingAppend
    <3> QED
      BY <3>3, <3>4, <3>5
  <2> QED
    BY <2>2, <2>3
<1> HIDE DEF r
<1> QED
  BY <1>3, <1>4, <1>5, RideKept

LEMMA BoardInboundRides ==
  ASSUME TypeOK, AllClean, LinesOK, AllRide, NEW h \in Hubs, NEW t \in Codes \cup {NoTrip}, NEW got \in Cargo,
         NEW keep \in BOOLEAN, ConfirmInbound(h, FALSE, t, got, keep)
  PROVE  AllRide'
<1> SUFFICES ASSUME NEW o \in Orders
             PROVE  Rides(order'[o], ledger'[o])
  BY DEF AllRide
<1>1. Clean(order[o], ledger[o], lastTrip, Nat) /\ Rides(order[o], ledger[o])
  BY DEF AllClean, CleanFor, AllRide
<1> DEFINE gone == Removed(t, h, DOMAIN got, keep)
<1>2. CASE o \in DOMAIN got
  <2>1. PICK q \in Nat : /\ order'[o] = ReceivedOrder(o, h, FALSE, t, q)
                         /\ ledger'[o] = ReceivedLedger(o, h, FALSE, t, q)
    BY <1>2, CargoType DEF ConfirmInbound
  <2> QED
    BY <1>1, <2>1, ReceivedRides
<1>3. CASE o \notin DOMAIN got
  <2>1. /\ ledger'[o] = ledger[o]
        /\ order'[o] = order[o] \/ (o \in gone /\ order'[o] = RemovedOrder(o, t))
    BY <1>3 DEF ConfirmInbound
  <2>2. order'[o].trip = order[o].trip \/ ~order'[o].live \/ Coming(ledger'[o], order[o].trip) = 0
    BY <2>1, RemovedRides
  <2> QED
    BY <1>1, <2>1, <2>2, RideKept
<1> QED
  BY <1>2, <1>3

LEMMA SaveInboundRides ==
  ASSUME TypeOK, AllClean, LinesOK, AllRide, NEW h \in Hubs, NEW t \in Codes, NEW got \in Cargo,
         SaveInboundDraft(h, FALSE, t, got)
  PROVE  AllRide'
<1> SUFFICES ASSUME NEW o \in Orders
             PROVE  Rides(order'[o], ledger'[o])
  BY DEF AllRide
<1>1. Clean(order[o], ledger[o], lastTrip, Nat) /\ Rides(order[o], ledger[o])
  BY DEF AllClean, CleanFor, AllRide
<1>2. /\ ledger'[o] = ledger[o]
      /\ \/ order'[o] = order[o]
         \/ o \in DOMAIN got /\ order'[o] = DraftedOrder(o, h, FALSE, got[o])
         \/ o \in Removed(t, h, DOMAIN got, FALSE) /\ order'[o] = RemovedOrder(o, t)
  BY DEF SaveInboundDraft
<1>3. CASE o \in DOMAIN got /\ order'[o] = DraftedOrder(o, h, FALSE, got[o])
  <2>1. got[o] \in Nat /\ FALSE \in BOOLEAN
    BY <1>3, CargoType
  <2>2. ASSUME NEW admin \in BOOLEAN, ~Unstocked(order[o])
        PROVE  DraftedOrder(o, h, admin, got[o]).trip = order[o].trip
    BY <1>1, <2>1, <2>2, Newcomers, Zenon
  <2>3. ~Unstocked(order[o]) => order'[o].trip = order[o].trip
    BY <1>3, <2>1, <2>2, Zenon
  <2> QED
    BY <1>1, <1>2, <2>3, RideKept
<1>4. CASE ~(o \in DOMAIN got /\ order'[o] = DraftedOrder(o, h, FALSE, got[o]))
  <2>1. order'[o].trip = order[o].trip \/ ~order'[o].live \/ Coming(ledger'[o], order[o].trip) = 0
    <3>1. t \in Codes \cup {NoTrip} /\ FALSE \in BOOLEAN
      OBVIOUS
    <3> QED
      BY <1>2, <1>4, <3>1, RemovedRides
  <2> QED
    BY <1>1, <1>2, <2>1, RideKept
<1> QED
  BY <1>3, <1>4

(* A transfer puts the order on the vehicle it loads; a delivery leaves it  *)
(* on the one it rides.                                                     *)
LEMMA BoardOutboundRides ==
  ASSUME TypeOK, AllClean, AllRide, NEW h \in Hubs, NEW load \in Cargo, NEW to \in Hubs \cup {NoHub},
         NEW d \in Codes \cup {NoTrip}, ConfirmOutbound(h, load, to, d)
  PROVE  AllRide'
<1> SUFFICES ASSUME NEW o \in Orders
             PROVE  Rides(order'[o], ledger'[o])
  BY DEF AllRide
<1>1. Clean(order[o], ledger[o], lastTrip, Nat) /\ Rides(order[o], ledger[o])
  BY DEF AllClean, CleanFor, AllRide
<1>2. PICK n : n = TripFor(d)
  OBVIOUS
<1>3. n \in Nat /\ order[o] \in OrderRecord /\ ledger[o] \in Seq(RowRecord)
  BY <1>2, TripForType, OrderFacts DEF ConfirmOutbound
<1>4. CASE o \notin DOMAIN load
  <2>1. order'[o] = order[o] /\ ledger'[o] = ledger[o]
    BY <1>4 DEF ConfirmOutbound
  <2> QED
    BY <1>1, <2>1
<1>5. CASE o \in DOMAIN load
  <2> DEFINE r == Row(OutKind(to), h, n, load[o])
  <2>1. order'[o] = DispatchedOrder(o, n, load[o], to) /\ ledger'[o] = Append(ledger[o], r)
    BY <1>2, <1>5 DEF ConfirmOutbound
  <2>2. load[o] \in Nat
    BY <1>5, CargoType
  <2>3. r \in RowRecord /\ r.live /\ r.kind = OutKind(to) /\ r.trip = n
    BY <1>3, <2>2 DEF Row, RowRecord, Kinds, Dispatch, OutKind
  <2>4. order'[o].trip = IF to = NoHub THEN order[o].trip ELSE n
    BY <1>3, <2>1 DEF DispatchedOrder, OrderRecord
  <2> HIDE DEF r
  <2>5. CASE to = NoHub
    <3>1. r.kind # "TRANSFER"
      BY <2>3, <2>5 DEF OutKind
    <3> QED
      BY <1>1, <2>1, <2>3, <2>4, <2>5, <3>1, RideKept
  <2>6. CASE to # NoHub
    <3>1. r.kind = "TRANSFER"
      BY <2>3, <2>6 DEF OutKind
    <3>2. \A t \in Trips : LastOn(Append(ledger[o], r), t) => t = n
      BY <1>3, <2>3, <3>1, LastAppend
    <3> QED
      BY <2>1, <2>4, <2>6, <3>2 DEF Rides
  <2> QED
    BY <2>5, <2>6
<1> QED
  BY <1>4, <1>5

LEMMA NotesRide ==
  ASSUME TypeOK, AllClean, AllRide,
         \/ \E h \in Hubs, load \in Cargo, to \in Hubs \cup {NoHub}, d \in Codes \cup {NoTrip} :
              SaveOutboundDraft(h, load, to, d)
         \/ \E h \in Hubs, t \in Codes :
              CancelOutboundDraft(h, t) \/ CancelInboundDraft(h, t) \/ UpdateTransitStep(h, t)
  PROVE  AllRide'
<1> SUFFICES ASSUME NEW o \in Orders
             PROVE  Rides(order'[o], ledger'[o])
  BY DEF AllRide
<1>1. Clean(order[o], ledger[o], lastTrip, Nat) /\ Rides(order[o], ledger[o])
  BY DEF AllClean, CleanFor, AllRide
<1>2. /\ ledger' = ledger
      /\ order'[o] = order[o] \/ \E t : order'[o] = CancelledOrder(o, t)
  BY DEF SaveOutboundDraft, CancelOutboundDraft, CancelInboundDraft, UpdateTransitStep
<1>3. \A t : CancelledOrder(o, t).trip = order[o].trip
  BY OrderFacts DEF CancelledOrder, Reconciled, OrderRecord
<1> QED
  BY <1>1, <1>2, <1>3, RideKept

LEMMA RideStep == TypeOK /\ AllClean /\ LinesOK /\ AllRide /\ [RoutineNext]_vars => AllRide'
<1> SUFFICES ASSUME TypeOK, AllClean, LinesOK, AllRide, [RoutineNext]_vars PROVE AllRide'
  OBVIOUS
<1>1. CASE UNCHANGED vars
  BY <1>1 DEF vars, AllRide
<1>2. CASE RoutineNext
  BY <1>2, EntryRides, BatchRides, BoardInboundRides, SaveInboundRides, BoardOutboundRides, NotesRide, Zenon
     DEF RoutineNext
<1> QED
  BY <1>1, <1>2

(* Packages on the road are announced. *)
LEMMA AnnouncedMeans ==
  TypeOK /\ CountersMatchLedger /\ OriginsOK /\ AllRide => ComingIsAnnounced
<1> SUFFICES ASSUME TypeOK, CountersMatchLedger, OriginsOK, AllRide,
                    NEW o \in Orders, NEW h \in Hubs, NEW t \in Trips, Expects(o, h, t)
             PROVE  /\ t \in InboundTrips(h)
                    /\ LastVehicle(o, t) => o \in InTab(h, {"PENDING_INBOUND"} \cup StoredStatuses)
  BY DEF ComingIsAnnounced
<1>1. /\ IsLive(o) /\ stop[t][h] = "PENDING" /\ InTransit(o, t) > 0
      /\ Destination[o] \in {h, NoHub} \/ ~StopIsLive(t, Destination[o])
  BY DEF Expects
<1>2. ShippedOn(ledger[o], t)
  <2>1. ledger[o] \in Seq(RowRecord)
    BY OrderFacts
  <2> QED
    BY <1>1, <2>1, RoadQueries, NothingComes
<1>3. t \in InboundTrips(h)
  <2>1. <<t, h>> \notin origins
    BY <1>1, <1>2 DEF OriginsOK
  <2> QED
    BY <1>1, <2>1 DEF InboundTrips, StopIsLive
<1>4. ASSUME LastVehicle(o, t)
      PROVE  o \in InTab(h, {"PENDING_INBOUND"} \cup StoredStatuses)
  <2>1. order[o].trip = t /\ t # NoTrip
    <3>1. order[o].trip = t
      BY <1>1, <1>4, RoadQueries DEF AllRide, Rides, IsLive
    <3> QED
      BY <3>1, BoundsAssumption DEF Trips, NoTrip
  <2>2. ~IsDraft(o)
    BY <1>1, <1>2 DEF CountersMatchLedger, Rows, ShippedOn, Kinds
  <2>3. InScope(o, h)
    BY <1>1, <2>1 DEF InScope, StopIsLive
  <2>4. PendingInbound(o, h)
    BY <1>1, <2>1 DEF PendingInbound
  <2>5. HubStatus(o, h) \in {"PENDING_INBOUND"} \cup StoredStatuses
    BY <2>2, <2>4 DEF HubStatus, LocalDraft, StoredStatuses
  <2> QED
    BY <1>1, <2>3, <2>5 DEF InTab, Listed
<1> QED
  BY <1>3, <1>4

(* What a manifest says is on the road to a hub is announced there: the     *)
(* trip is on the inbound board, since only the hub that loaded it is an    *)
(* origin and that stop is processed, and the order is waiting, since       *)
(* confirmInbound takes it off its vehicle only when nothing is left on it. *)
THEOREM ArrivalsAreAnnounced == BoardSpec => []ComingIsAnnounced
<1>1. BoardInit => OriginsOK /\ AllRide
  <2>1. BoardInit => OriginsOK
    BY DEF BoardInit, CorrectionsInit, OriginsOK
  <2>2. BoardInit => AllRide
    BY DEF BoardInit, CorrectionsInit, Init, NoOrder, AllRide, Rides
  <2> QED
    BY <2>1, <2>2
<1>2. TypeOK /\ AllClean /\ LinesOK /\ OriginsOK /\ AllRide /\ [BoardNext]_board => (OriginsOK /\ AllRide)'
  BY OriginsStep, RideStep, BoardStep
<1>3. RoutineSpec => []CountersMatchLedger
  BY CountersNeverDrift
<1> QED
  BY <1>1, <1>2, <1>3, BoardIsRoutine, AlwaysLines, AnnouncedMeans, PTL DEF BoardSpec
=============================================================================
