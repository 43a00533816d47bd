-------------------------- MODULE OutboundRace_proofs --------------------------
(***************************************************************************)
(* What survives clerks at work at the same time, for any number of clerks, *)
(* orders, hubs, trips and packages: under every pair of handlers, vehicles *)
(* on the road keep their invoices; and clerks who dispatch to other hubs   *)
(* never oversell one.                                                      *)
(*                                                                          *)
(* What a handler carries from its load to its commit is part of the        *)
(* invariants: the copies of the orders it is going to save, and, once it   *)
(* has read the stock, that the stock still covers its load (Backed).  The  *)
(* latter holds because two dispatches that have read the stock never       *)
(* leave from the same hub: each holds the counter of the hub's invoice     *)
(* codes, and gives it back with its commit.                                *)
(***************************************************************************)
EXTENDS MCOutboundRace, WarehouseStock_proofs

-----------------------------------------------------------------------------
(* Types. *)

(* What handlers carry, by the orders they are about. *)
DispatchReq(S) ==
  [op : {"DISPATCH"}, checked : BOOLEAN, hub : Hubs, load : [S -> 1 .. MaxQty], to : Hubs \cup {NoHub},
   note : Nat, trip : Trips, seen : [S -> Nat], copies : [S -> OrderRecord]]
PlanReq == [op : {"PLAN"}, hub : Hubs, load : Cargo, to : Hubs \cup {NoHub}, trip : Trips]
ReceiveReq(S) ==
  [op : {"RECEIVE"}, hub : Hubs, trip : Trips, got : [S -> 1 .. MaxQty], booked : SUBSET S,
   copies : UNION {[T -> OrderRecord] : T \in SUBSET Orders}, sorted : BOOLEAN,
   gone : SUBSET Orders, dead : SUBSET Orders]
NoteReq == [op : {"CANCEL_NOTE"}, trip : Trips]
CancelReq ==
  [op : {"CANCEL_DRAFT"}, hub : Hubs, trip : Trips, listed : BOOLEAN, stored : SUBSET Orders]
TransitReq == [op : {"TRANSIT"}, hub : Hubs, trip : Trips]

Loaded == (SUBSET Orders) \ {{}}
ReqRecord ==
  {Idle} \cup (UNION {DispatchReq(S) : S \in Loaded}) \cup (UNION {ReceiveReq(S) : S \in Loaded})
    \cup PlanReq \cup NoteReq \cup CancelReq \cup TransitReq

RaceType == TypeOK /\ req \in [Clerks -> ReqRecord]

(* What each kind of request carries. *)
LEMMA ReqFacts ==
  ASSUME NEW r \in ReqRecord
  PROVE  /\ r.op = "NONE" => r = Idle
         /\ r.op = "DISPATCH" => \E S \in Loaded : r \in DispatchReq(S)
         /\ r.op = "PLAN" => r \in PlanReq
         /\ r.op = "RECEIVE" => \E S \in Loaded : r \in ReceiveReq(S)
         /\ r.op = "CANCEL_NOTE" => r \in NoteReq
         /\ r.op = "CANCEL_DRAFT" => r \in CancelReq
         /\ r.op = "TRANSIT" => r \in TransitReq
<1>1. CASE r = Idle
  BY <1>1 DEF Idle
<1>2. CASE \E S \in Loaded : r \in DispatchReq(S)
  <2>1. r.op = "DISPATCH"
    BY <1>2 DEF DispatchReq
  <2> QED
    BY <1>2, <2>1
<1>3. CASE \E S \in Loaded : r \in ReceiveReq(S)
  <2>1. r.op = "RECEIVE"
    BY <1>3 DEF ReceiveReq
  <2> QED
    BY <1>3, <2>1
<1>4. CASE r \in PlanReq
  BY <1>4 DEF PlanReq
<1>5. CASE r \in NoteReq
  BY <1>5 DEF NoteReq
<1>6. CASE r \in CancelReq
  BY <1>6 DEF CancelReq
<1>7. CASE r \in TransitReq
  BY <1>7 DEF TransitReq
<1> QED
  BY <1>1, <1>2, <1>3, <1>4, <1>5, <1>6, <1>7 DEF ReqRecord

(* What a user typed is a cargo. *)
LEMMA CargoShape ==
  /\ \A S \in Loaded : [S -> 1 .. MaxQty] \subseteq Cargo
  /\ \A got \in Cargo : DOMAIN got \in Loaded /\ got \in [DOMAIN got -> 1 .. MaxQty]
BY DEF Cargo, Loaded

(* A clerk's request is replaced, and nothing else. *)
LEMMA ReqTyped ==
  ASSUME RaceType, NEW c \in Clerks, NEW r \in ReqRecord, req' = [req EXCEPT ![c] = r]
  PROVE  req' \in [Clerks -> ReqRecord]
BY DEF RaceType

LEMMA EndTyped ==
  ASSUME RaceType, NEW c \in Clerks, End(c)
  PROVE  req' \in [Clerks -> ReqRecord]
BY DEF RaceType, End, ReqRecord

(* The rows a transaction saves are order records. *)
LEMMA SaveTyped ==
  ASSUME TypeOK, NEW S \in SUBSET Orders, NEW copies \in [S -> OrderRecord]
  PROVE  Save(copies) \in [Orders -> OrderRecord]
BY DEF Save, TypeOK

(* The facts a load or a commit finds in a typed state. *)
LEMMA RaceFacts ==
  ASSUME RaceType
  PROVE  /\ TypeOK
         /\ \A c \in Clerks : req[c] \in ReqRecord
         /\ Codes \subseteq Trips /\ Trips \subseteq Nat
BY CodesAreTrips DEF RaceType

-----------------------------------------------------------------------------
(* Every load and every commit keeps the tables and the requests well typed. *)

LEMMA InitRaceType == RaceInit => RaceType
BY InitType DEF RaceInit, RaceType, ReqRecord

LEMMA LoadDispatchType ==
  ASSUME RaceType, NEW c \in Clerks, NEW h \in Hubs, NEW load \in Cargo, NEW to \in Hubs \cup {NoHub},
         NEW note \in Codes \cup {NoTrip}, LoadDispatch(c, h, load, to, note)
  PROVE  RaceType'
<1> DEFINE S == DOMAIN load
           t == TripFor(note)
           r == [op |-> "DISPATCH", checked |-> FALSE, hub |-> h, load |-> load, to |-> to,
                 note |-> note, trip |-> t, seen |-> [o \in S |-> order[o].rem],
                 copies |-> [o \in S |-> DispatchedOrder(o, t, load[o], to)]]
<1>1. TypeOK /\ S \in Loaded /\ load \in [S -> 1 .. MaxQty] /\ S \subseteq Orders
  BY RaceFacts, CargoShape, CargoType
<1>2. t <= MaxTrips
  BY DEF LoadDispatch
<1>3. t \in Trips /\ t \in Nat /\ note \in Nat
  BY <1>1, <1>2, TripForType, CodesAreTrips DEF NoTrip
<1> HIDE DEF t
<1>4. \A o \in S : DispatchedOrder(o, t, load[o], to) \in OrderRecord
  BY <1>1, <1>3, CargoType, DispatchedOrderType
<1>5. \A o \in S : order[o].rem \in Nat
  BY <1>1 DEF TypeOK, OrderRecord
<1>6. r \in DispatchReq(S)
  BY <1>1, <1>3, <1>4, <1>5 DEF DispatchReq
<1>7. r \in ReqRecord
  BY <1>1, <1>6 DEF ReqRecord
<1>8. req' = [req EXCEPT ![c] = r]
  BY DEF LoadDispatch, Begin, t
<1>9. req' \in [Clerks -> ReqRecord]
  <2> HIDE DEF r
  <2> QED
    BY <1>7, <1>8, ReqTyped
<1>10. lastTrip' \in 0 .. MaxTrips
  BY <1>1, <1>2, TripForType DEF LoadDispatch, TypeOK
<1>11. TypeOK'
  BY <1>1, <1>10 DEF LoadDispatch, TypeOK
<1> QED
  BY <1>9, <1>11 DEF RaceType

LEMMA CheckStockType ==
  ASSUME RaceType, NEW c \in Clerks, CheckStock(c)
  PROVE  RaceType'
<1>1. PICK S \in Loaded : req[c] \in DispatchReq(S)
  BY RaceFacts, ReqFacts DEF CheckStock
<1>2. [req[c] EXCEPT !.checked = TRUE] \in ReqRecord
  <2>1. [req[c] EXCEPT !.checked = TRUE] \in DispatchReq(S)
    BY <1>1 DEF DispatchReq
  <2> QED
    BY <2>1 DEF ReqRecord
<1>3. req' \in [Clerks -> ReqRecord]
  BY <1>2, ReqTyped, EndTyped DEF CheckStock, Begin
<1>4. TypeOK'
  BY RaceFacts DEF CheckStock, vars, TypeOK
<1> QED
  BY <1>3, <1>4 DEF RaceType

LEMMA CommitDispatchType ==
  ASSUME RaceType, NEW c \in Clerks, CommitDispatch(c)
  PROVE  RaceType'
<1> DEFINE r == req[c]
           S == DOMAIN r.load
<1>1. PICK D \in Loaded : r \in DispatchReq(D)
  BY RaceFacts, ReqFacts DEF CommitDispatch, Checked
<1>2. /\ S = D /\ S \subseteq Orders /\ r.load \in Cargo /\ \A o \in S : r.load[o] \in Nat
      /\ r.hub \in Hubs /\ r.trip \in Trips /\ r.trip \in Nat /\ r.to \in Hubs \cup {NoHub}
      /\ r.copies \in [D -> OrderRecord] /\ D \subseteq Orders
  BY <1>1, CargoShape, RaceFacts, BoundsAssumption DEF DispatchReq, Loaded
<1>3. TypeOK /\ req' \in [Clerks -> ReqRecord]
  BY RaceFacts, EndTyped DEF CommitDispatch
<1>4. /\ order' = Save(r.copies)
      /\ ledger' = [o \in Orders |-> IF o \in S THEN Append(ledger[o], Row(OutKind(r.to), r.hub, r.trip, r.load[o]))
                                     ELSE ledger[o]]
      /\ line' = [line EXCEPT ![r.trip] = Planned(r.trip, r.hub, r.load, r.to, "IN_TRANSIT")]
      /\ stop' = [stop EXCEPT ![r.trip] =
                    Upsert(Upsert(@, {r.hub}, "COMPLETED"), Targets(S, r.hub, r.to), "PENDING")]
      /\ lastTrip' = lastTrip
  BY DEF CommitDispatch
<1> HIDE DEF r
<1>5. order' \in [Orders -> OrderRecord]
  BY <1>2, <1>3, <1>4, SaveTyped
<1>6. ledger' \in [Orders -> Seq(RowRecord)]
  <2>1. \A o \in S : Row(OutKind(r.to), r.hub, r.trip, r.load[o]) \in RowRecord
    BY <1>2 DEF Row, RowRecord, Kinds, Dispatch, OutKind
  <2>2. \A o \in S : Append(ledger[o], Row(OutKind(r.to), r.hub, r.trip, r.load[o])) \in Seq(RowRecord)
    BY <1>2, <1>3, <2>1, AppendProperties DEF TypeOK
  <2> QED
    BY <1>3, <1>4, <2>2 DEF TypeOK
<1>7. line' \in [Trips -> [Orders -> LineRecord]]
  <2>1. Planned(r.trip, r.hub, r.load, r.to, "IN_TRANSIT") \in [Orders -> LineRecord]
    BY <1>2, <1>3, PlannedType
  <2> QED
    BY <1>3, <1>4, <2>1 DEF TypeOK
<1>8. stop' \in [Trips -> [Hubs -> {"NONE", "DELETED", "PENDING", "COMPLETED"}]]
  <2>1. Upsert(Upsert(stop[r.trip], {r.hub}, "COMPLETED"), Targets(S, r.hub, r.to), "PENDING")
          \in [Hubs -> {"NONE", "DELETED", "PENDING", "COMPLETED"}]
    BY <1>2, <1>3, StopType
  <2> QED
    BY <1>3, <1>4, <2>1 DEF TypeOK
<1> QED
  BY <1>3, <1>4, <1>5, <1>6, <1>7, <1>8 DEF RaceType, TypeOK

LEMMA PlanType ==
  ASSUME RaceType, NEW c \in Clerks,
         \/ \E h \in Hubs, load \in Cargo, to \in Hubs \cup {NoHub} : LoadPlan(c, h, load, to)
         \/ CommitPlan(c)
  PROVE  RaceType'
<1>1. ASSUME NEW h \in Hubs, NEW load \in Cargo, NEW to \in Hubs \cup {NoHub}, LoadPlan(c, h, load, to)
      PROVE  RaceType'
  <2> DEFINE r == [op |-> "PLAN", hub |-> h, load |-> load, to |-> to, trip |-> lastTrip']
  <2>1. TypeOK /\ lastTrip' \in 0 .. MaxTrips /\ lastTrip' \in Trips
    BY <1>1, RaceFacts, BoundsAssumption DEF LoadPlan, TypeOK, Trips
  <2>2. r \in ReqRecord
    BY <2>1 DEF ReqRecord, PlanReq
  <2>3. req' = [req EXCEPT ![c] = r]
    BY <1>1 DEF LoadPlan, Begin
  <2>4. req' \in [Clerks -> ReqRecord]
    BY <2>2, <2>3, ReqTyped
  <2>5. TypeOK'
    BY <1>1, <2>1 DEF LoadPlan, TypeOK
  <2> QED
    BY <2>4, <2>5 DEF RaceType
<1>2. ASSUME CommitPlan(c)
      PROVE  RaceType'
  <2> DEFINE r == req[c]
  <2>1. r \in PlanReq
    BY <1>2, RaceFacts, ReqFacts DEF CommitPlan
  <2>2. r.load \in Cargo /\ r.hub \in Hubs /\ r.trip \in Trips
    BY <2>1 DEF PlanReq
  <2>3. TypeOK /\ req' \in [Clerks -> ReqRecord]
    BY <1>2, RaceFacts, EndTyped DEF CommitPlan
  <2>4. /\ line' = [line EXCEPT ![r.trip] = Planned(r.trip, r.hub, r.load, r.to, "PENDING")]
        /\ stop' = [stop EXCEPT ![r.trip] = Upsert(@, {r.hub} \cup ({r.to} \ {NoHub}), "PENDING")]
        /\ order' = order /\ ledger' = ledger /\ lastTrip' = lastTrip
    BY <1>2 DEF CommitPlan
  <2> HIDE DEF r
  <2>5. Planned(r.trip, r.hub, r.load, r.to, "PENDING") \in [Orders -> LineRecord]
    BY <2>2, <2>3, PlannedType
  <2>6. Upsert(stop[r.trip], {r.hub} \cup ({r.to} \ {NoHub}), "PENDING")
          \in [Hubs -> {"NONE", "DELETED", "PENDING", "COMPLETED"}]
    BY <2>2, <2>3, StopType
  <2> QED
    BY <2>3, <2>4, <2>5, <2>6 DEF RaceType, TypeOK
<1> QED
  BY <1>1, <1>2

LEMMA CancelType ==
  ASSUME RaceType, NEW c \in Clerks,
         \/ \E h \in Hubs, t \in Codes : LoadCancelNote(c, h, t) \/ LoadCancelDraft(c, h, t) \/ LoadTransit(c, h, t)
         \/ CommitCancelNote(c) \/ ListPending(c) \/ CommitCancelDraft(c) \/ CommitTransit(c) \/ RollBack(c)
  PROVE  RaceType'
<1>0. TypeOK
  BY RaceFacts
<1>1. ASSUME NEW h \in Hubs, NEW t \in Codes,
             LoadCancelNote(c, h, t) \/ LoadCancelDraft(c, h, t) \/ LoadTransit(c, h, t)
      PROVE  RaceType'
  <2>1. t \in Trips
    BY RaceFacts
  <2>2. /\ [op |-> "CANCEL_NOTE", trip |-> t] \in ReqRecord
        /\ [op |-> "CANCEL_DRAFT", hub |-> h, trip |-> t, listed |-> FALSE, stored |-> {}] \in ReqRecord
        /\ [op |-> "TRANSIT", hub |-> h, trip |-> t] \in ReqRecord
    BY <2>1 DEF ReqRecord, NoteReq, CancelReq, TransitReq
  <2>3. req' \in [Clerks -> ReqRecord]
    BY <1>1, <2>2, ReqTyped DEF LoadCancelNote, LoadCancelDraft, LoadTransit, Begin
  <2>4. TypeOK'
    BY <1>0, <1>1 DEF LoadCancelNote, LoadCancelDraft, LoadTransit, vars, TypeOK
  <2> QED
    BY <2>3, <2>4 DEF RaceType
<1>2. ASSUME CommitCancelNote(c)
      PROVE  RaceType'
  <2>1. req[c].trip \in Trips
    BY <1>2, RaceFacts, ReqFacts DEF CommitCancelNote, NoteReq
  <2>2. line' \in [Trips -> [Orders -> LineRecord]]
    BY <1>0, <1>2, <2>1, LineType DEF CommitCancelNote, TypeOK
  <2>3. stop' \in [Trips -> [Hubs -> {"NONE", "DELETED", "PENDING", "COMPLETED"}]]
    BY <1>0, <1>2, <2>1, StopType DEF CommitCancelNote, TypeOK
  <2>4. req' \in [Clerks -> ReqRecord]
    BY <1>2, EndTyped DEF CommitCancelNote
  <2> QED
    BY <1>0, <1>2, <2>2, <2>3, <2>4 DEF CommitCancelNote, RaceType, TypeOK
<1>3. ASSUME CommitCancelDraft(c)
      PROVE  RaceType'
  <2>1. req[c].trip \in Trips
    BY <1>3, RaceFacts, ReqFacts DEF CommitCancelDraft, CancelReq
  <2>2. line' \in [Trips -> [Orders -> LineRecord]]
    BY <1>0, <1>3, <2>1, LineType DEF CommitCancelDraft, TypeOK
  <2>3. stop' \in [Trips -> [Hubs -> {"NONE", "DELETED", "PENDING", "COMPLETED"}]]
    BY <1>0, <1>3, <2>1, StopType DEF CommitCancelDraft, TypeOK
  <2>4. order' \in [Orders -> OrderRecord]
    <3>1. \A o \in Orders : Reconciled(o, req[c].trip) \in OrderRecord
      BY <1>0, ReconciledType
    <3>2. \A o \in Orders : order[o] \in OrderRecord /\ [order[o] EXCEPT !.live = FALSE] \in OrderRecord
      BY <1>0 DEF TypeOK, OrderRecord
    <3> QED
      BY <1>3, <3>1, <3>2 DEF CommitCancelDraft
  <2>5. req' \in [Clerks -> ReqRecord]
    BY <1>3, EndTyped DEF CommitCancelDraft
  <2> QED
    BY <1>0, <1>3, <2>2, <2>3, <2>4, <2>5 DEF CommitCancelDraft, RaceType, TypeOK
<1>4. ASSUME CommitTransit(c)
      PROVE  RaceType'
  <2>1. req[c].trip \in Trips /\ req[c].hub \in Hubs
    BY <1>4, RaceFacts, ReqFacts DEF CommitTransit, TransitReq
  <2>2. stop' \in [Trips -> [Hubs -> {"NONE", "DELETED", "PENDING", "COMPLETED"}]]
    BY <1>0, <1>4, <2>1 DEF CommitTransit, TypeOK
  <2>3. req' \in [Clerks -> ReqRecord]
    BY <1>4, EndTyped DEF CommitTransit
  <2> QED
    BY <1>0, <1>4, <2>2, <2>3 DEF CommitTransit, RaceType, TypeOK
<1>5. ASSUME ListPending(c)
      PROVE  RaceType'
  <2> DEFINE stored == {o \in Orders : /\ line[req[c].trip][o].status = "PENDING"
                                       /\ order[o].status \notin {"DRAFT", "PENDING"}}
             r == [req[c] EXCEPT !.listed = TRUE, !.stored = stored]
  <2>1. req[c] \in CancelReq /\ req' = [req EXCEPT ![c] = r] /\ UNCHANGED vars
    BY <1>5, RaceFacts, ReqFacts DEF ListPending, Begin
  <2>2. stored \in SUBSET Orders
    OBVIOUS
  <2> HIDE DEF stored
  <2>3. r \in ReqRecord
    BY <2>1, <2>2 DEF ReqRecord, CancelReq
  <2> HIDE DEF r
  <2>4. req' \in [Clerks -> ReqRecord]
    BY <2>1, <2>3, ReqTyped
  <2> QED
    BY <1>0, <2>1, <2>4 DEF RaceType, vars, TypeOK
<1>6. ASSUME RollBack(c)
      PROVE  RaceType'
  <2>1. req' \in [Clerks -> ReqRecord]
    BY <1>6, EndTyped DEF RollBack
  <2> QED
    BY <1>0, <1>6, <2>1 DEF RollBack, RaceType, vars, TypeOK
<1> QED
  BY <1>1, <1>2, <1>3, <1>4, <1>5, <1>6

LEMMA LoadReceiveType ==
  ASSUME RaceType, NEW c \in Clerks, NEW h \in Hubs, NEW t \in Codes, NEW got \in Cargo, LoadReceive(c, h, t, got)
  PROVE  RaceType'
<1> DEFINE S == DOMAIN got
           booked == {o \in S : ~Skipped(o, h, FALSE, t)}
           copies == [o \in S |-> ReceivedOrder(o, h, FALSE, t, got[o])]
           r == [op |-> "RECEIVE", hub |-> h, trip |-> t, got |-> got, booked |-> booked, copies |-> copies,
                 sorted |-> FALSE, gone |-> {}, dead |-> {}]
<1>1. TypeOK /\ t \in Trips /\ S \in Loaded /\ got \in [S -> 1 .. MaxQty] /\ S \subseteq Orders
      /\ \A o \in S : got[o] \in Nat
  BY RaceFacts, CargoShape, CargoType
<1>2. copies \in [S -> OrderRecord]
  <2>1. \A o \in S : ReceivedOrder(o, h, FALSE, t, got[o]) \in OrderRecord
    BY <1>1, ReceivedOrderType
  <2> QED
    BY <2>1
<1>3. booked \subseteq S
  OBVIOUS
<1>4. req' = [req EXCEPT ![c] = r]
  BY DEF LoadReceive, Begin
<1> HIDE DEF booked, copies
<1>5. r \in ReceiveReq(S)
  BY <1>1, <1>2, <1>3 DEF ReceiveReq
<1>6. r \in ReqRecord
  BY <1>1, <1>5 DEF ReqRecord
<1> HIDE DEF r
<1>7. req' \in [Clerks -> ReqRecord]
  BY <1>4, <1>6, ReqTyped
<1>8. TypeOK'
  BY <1>1 DEF LoadReceive, vars, TypeOK
<1> QED
  BY <1>7, <1>8 DEF RaceType

(* What is left on the vehicle is sorted out: the request carries more. *)
LEMMA SortOutType ==
  ASSUME RaceType, NEW c \in Clerks, SortOut(c)
  PROVE  RaceType'
<1> DEFINE r == req[c]
           gone == Removed(r.trip, r.hub, DOMAIN r.got, FALSE)
           dead == {o \in gone : Orphan(o, r.trip)}
           freed == {o \in gone \ dead : IsLive(o) /\ order[o].trip = r.trip}
           copies == [o \in DOMAIN r.copies \cup freed |->
                        IF o \in freed THEN [order[o] EXCEPT !.trip = NoTrip] ELSE r.copies[o]]
           new == [r EXCEPT !.sorted = TRUE, !.gone = gone, !.dead = dead, !.copies = copies]
<1>0. TypeOK
  BY RaceFacts
<1>1. PICK S \in Loaded : r \in ReceiveReq(S)
  BY RaceFacts, ReqFacts DEF SortOut
<1>2. req' = [req EXCEPT ![c] = new] /\ UNCHANGED vars
  BY DEF SortOut, Begin
<1>3. gone \in SUBSET Orders
  BY DEF Removed, LiveLines
<1>4. dead \in SUBSET Orders /\ freed \in SUBSET Orders
  BY <1>3
<1>5. PICK T \in SUBSET Orders : r.copies \in [T -> OrderRecord]
  BY <1>1 DEF ReceiveReq
<1>6. \A o \in Orders : [order[o] EXCEPT !.trip = NoTrip] \in OrderRecord
  BY <1>0 DEF TypeOK, OrderRecord, NoTrip
<1> HIDE DEF gone, dead, freed
<1>7. copies \in [T \cup freed -> OrderRecord] /\ T \cup freed \in SUBSET Orders
  BY <1>4, <1>5, <1>6
<1> HIDE DEF copies
<1>8. copies \in UNION {[D -> OrderRecord] : D \in SUBSET Orders}
  BY <1>7
<1>9. new \in ReceiveReq(S)
  BY <1>1, <1>3, <1>4, <1>8 DEF ReceiveReq
<1>10. new \in ReqRecord
  BY <1>9 DEF ReqRecord
<1> HIDE DEF new
<1>11. req' \in [Clerks -> ReqRecord]
  BY <1>2, <1>10, ReqTyped
<1> QED
  BY <1>0, <1>2, <1>11 DEF RaceType, vars, TypeOK

(* What a receipt commits, in terms of the request it was loaded as. *)
LEMMA CommitReceiveParts ==
  ASSUME RaceType, NEW c \in Clerks, CommitReceive(c)
  PROVE  /\ req[c].hub \in Hubs /\ req[c].trip \in Trips /\ req[c].booked \subseteq DOMAIN req[c].got
         /\ DOMAIN req[c].got \subseteq Orders /\ \A o \in DOMAIN req[c].got : req[c].got[o] \in Nat
         /\ \E T \in SUBSET Orders : req[c].copies \in [T -> OrderRecord]
         /\ \A o \in Orders :
              \/ line'[req[c].trip][o] = line[req[c].trip][o]
              \/ line'[req[c].trip][o].status \in {"COMPLETED", "DELETED"}
         /\ \A t \in Trips \ {req[c].trip} : line'[t] = line[t] /\ stop'[t] = stop[t]
         /\ line' \in [Trips -> [Orders -> LineRecord]]
<1> DEFINE r == req[c]
           t == r.trip
           S == DOMAIN r.got
           stops == ReceivedStops(t, r.hub, FALSE)
           unloaded(o) == IF LiveLine(t, o) THEN [line[t][o] EXCEPT !.qty = r.got[o], !.status = "COMPLETED"]
                          ELSE Line("COMPLETED", "INBOUND", r.hub, r.got[o])
           done == ~AnyPending(stops)
           before(o) == IF o \in r.booked THEN unloaded(o) ELSE IF o \in r.gone THEN DeletedLine ELSE line[t][o]
<1>0. TypeOK
  BY RaceFacts
<1>1. PICK D \in Loaded : r \in ReceiveReq(D)
  BY RaceFacts, ReqFacts DEF CommitReceive, Sorted
<1>2. /\ r.hub \in Hubs /\ t \in Trips /\ S = D /\ S \subseteq Orders /\ r.booked \subseteq S
      /\ (\E T \in SUBSET Orders : r.copies \in [T -> OrderRecord]) /\ \A o \in S : r.got[o] \in Nat
  BY <1>1, BoundsAssumption DEF ReceiveReq, Loaded
<1>3. /\ line' = [line EXCEPT ![t] = [o \in Orders |-> Sweep(before(o), done)]]
      /\ stop' = [stop EXCEPT ![t] = stops]
  BY DEF CommitReceive
<1> HIDE DEF r, t, S, stops, done
<1>4. ASSUME NEW o \in Orders
      PROVE  /\ before(o) \in LineRecord
             /\ before(o) = line[t][o] \/ before(o).status \in {"COMPLETED", "DELETED"}
  <2>1. line[t][o] \in LineRecord /\ DeletedLine \in LineRecord
    BY <1>0, <1>2, LineType
  <2>2. CASE o \in r.booked
    <3>1. r.got[o] \in Nat
      BY <1>2, <2>2
    <3>2. Line("COMPLETED", "INBOUND", r.hub, r.got[o]) \in LineRecord
      BY <1>2, <3>1 DEF Line, LineRecord, Kinds, Receipt
    <3> QED
      BY <2>1, <2>2, <3>1, <3>2 DEF LineRecord, Line
  <2>3. CASE o \notin r.booked
    BY <2>1, <2>3 DEF DeletedLine, NoLine
  <2> QED
    BY <2>2, <2>3
<1> HIDE DEF before
<1>5. ASSUME NEW o \in Orders
      PROVE  /\ Sweep(before(o), done) \in LineRecord
             /\ Sweep(before(o), done) = line[t][o] \/ Sweep(before(o), done).status \in {"COMPLETED", "DELETED"}
  BY <1>4 DEF Sweep, LineRecord
<1>6. \A o \in Orders : line'[t][o] = Sweep(before(o), done)
  BY <1>0, <1>2, <1>3 DEF TypeOK
<1>7. line' \in [Trips -> [Orders -> LineRecord]]
  BY <1>0, <1>2, <1>3, <1>5 DEF TypeOK
<1>8. \A u \in Trips \ {t} : line'[u] = line[u] /\ stop'[u] = stop[u]
  BY <1>0, <1>2, <1>3 DEF TypeOK
<1> QED
  BY <1>2, <1>5, <1>6, <1>7, <1>8 DEF r, t, S

LEMMA CommitReceiveType ==
  ASSUME RaceType, NEW c \in Clerks, CommitReceive(c)
  PROVE  RaceType'
<1> DEFINE r == req[c]
<1>0. TypeOK /\ req' \in [Clerks -> ReqRecord]
  BY RaceFacts, EndTyped DEF CommitReceive
<1>1. /\ r.hub \in Hubs /\ r.trip \in Trips /\ r.booked \subseteq Orders
      /\ \A o \in r.booked : r.got[o] \in Nat
      /\ \E T \in SUBSET Orders : r.copies \in [T -> OrderRecord]
      /\ line' \in [Trips -> [Orders -> LineRecord]]
  BY CommitReceiveParts
<1>2. order' \in [Orders -> OrderRecord]
  <2>1. Save(r.copies) \in [Orders -> OrderRecord]
    BY <1>0, <1>1, SaveTyped
  <2>2. \A o \in Orders : [order[o] EXCEPT !.live = FALSE] \in OrderRecord
    BY <1>0 DEF TypeOK, OrderRecord
  <2> QED
    BY <2>1, <2>2 DEF CommitReceive
<1>3. ledger' \in [Orders -> Seq(RowRecord)]
  <2>1. \A o \in r.booked : Row("INBOUND", r.hub, r.trip, r.got[o]) \in RowRecord
    BY <1>0, <1>1, RaceFacts DEF Row, RowRecord, Kinds, Receipt
  <2>2. \A o \in r.booked : Append(ledger[o], Row("INBOUND", r.hub, r.trip, r.got[o])) \in Seq(RowRecord)
    BY <1>0, <1>1, <2>1, AppendProperties DEF TypeOK
  <2> QED
    BY <1>0, <2>2 DEF CommitReceive, TypeOK
<1>4. stop' \in [Trips -> [Hubs -> {"NONE", "DELETED", "PENDING", "COMPLETED"}]]
  <2>1. ReceivedStops(r.trip, r.hub, FALSE) \in [Hubs -> {"NONE", "DELETED", "PENDING", "COMPLETED"}]
    BY <1>0, <1>1, StopType DEF ReceivedStops
  <2> QED
    BY <1>0, <2>1 DEF CommitReceive, TypeOK
<1>5. lastTrip' = lastTrip
  BY DEF CommitReceive
<1> QED
  BY <1>0, <1>1, <1>2, <1>3, <1>4, <1>5 DEF RaceType, TypeOK

(* Goods at the gate, draft orders on a vehicle or on a note. *)
Intakes(o) ==
  \/ \E h \in Hubs, q \in Nat : QuickCreateInbound(o, h, q, FALSE)
  \/ \E h \in Hubs, q \in 1 .. MaxQty : BatchCreateInbound(h, [p \in {o} |-> q], {o})
  \/ \E h \in Hubs, t \in Codes, q \in 1 .. MaxQty : SaveInboundDraft(h, FALSE, t, [p \in {o} |-> q])
Enters == \E o \in Orders : Intakes(o) /\ req' = req

LEMMA OneOrderCargo ==
  ASSUME NEW o \in Orders, NEW q \in 1 .. MaxQty
  PROVE  [p \in {o} |-> q] \in Cargo
<1>1. {o} \in (SUBSET Orders) \ {{}} /\ [p \in {o} |-> q] \in [{o} -> 1 .. MaxQty]
  OBVIOUS
<1> QED
  BY <1>1 DEF Cargo

LEMMA EntersType ==
  ASSUME RaceType, Enters
  PROVE  RaceType'
<1>0. TypeOK
  BY RaceFacts
<1>1. PICK o \in Orders : Intakes(o) /\ req' = req
  BY DEF Enters
<1>2. ASSUME NEW h \in Hubs, NEW q \in Nat, QuickCreateInbound(o, h, q, FALSE)
      PROVE  TypeOK'
  <2>1. PICK d \in BOOLEAN : d = FALSE
    OBVIOUS
  <2>2. q \in Nat /\ QuickCreateInbound(o, h, q, d)
    BY <1>2, <2>1, Zenon
  <2>3. Intake(o, h, q, d) \in OrderRecord
    BY <1>0, <2>2, IntakeType
  <2>4. Append(ledger[o], Row("INBOUND", h, NoTrip, q)) \in Seq(RowRecord)
    <3>1. Row("INBOUND", h, NoTrip, q) \in RowRecord
      BY <2>2 DEF Row, RowRecord, Kinds, Receipt, NoTrip
    <3> QED
      BY <1>0, <3>1, AppendProperties DEF TypeOK
  <2> QED
    BY <1>0, <2>2, <2>3, <2>4 DEF QuickCreateInbound, TypeOK
<1>3. ASSUME NEW h \in Hubs, NEW q \in 1 .. MaxQty, BatchCreateInbound(h, [p \in {o} |-> q], {o})
      PROVE  TypeOK'
  BY <1>0, <1>3, OneOrderCargo, BatchCreateType
<1>4. ASSUME NEW h \in Hubs, NEW t \in Codes, NEW q \in 1 .. MaxQty,
             SaveInboundDraft(h, FALSE, t, [p \in {o} |-> q])
      PROVE  TypeOK'
  <2>1. PICK d \in BOOLEAN : d = FALSE
    OBVIOUS
  <2>2. PICK got \in Cargo : got = [p \in {o} |-> q]
    BY OneOrderCargo
  <2>3. SaveInboundDraft(h, d, t, got)
    BY <1>4, <2>1, <2>2, Zenon
  <2> QED
    BY <1>0, <2>3, SaveInboundDraftType
<1>5. TypeOK'
  BY <1>1, <1>2, <1>3, <1>4 DEF Intakes
<1> QED
  BY <1>1, <1>5 DEF RaceType

(* Goods handed in at a gate, of a new order or of one there is. *)
LEMMA GateEnters ==
  ASSUME NEW o \in Orders, NEW h \in Hubs, NEW q \in Nat, QuickCreateInbound(o, h, q, FALSE), req' = req
  PROVE  Enters
BY DEF Enters, Intakes

LEMMA NewStockEnters == NewStock => Enters /\ req' = req
<1> SUFFICES ASSUME NewStock PROVE Enters /\ req' = req
  OBVIOUS
<1>1. PICK o \in Orders, h \in Hubs, q \in 1 .. MaxTotal : QuickCreateInbound(o, h, q, FALSE) /\ req' = req
  BY DEF NewStock
<1>2. q \in Nat
  BY BoundsAssumption
<1> QED
  BY <1>1, <1>2, GateEnters

(* The steps of clerks, by what they may change. *)
Receiving(c) ==
  \/ \E h \in Hubs, t \in Codes, got \in Cargo : LoadReceive(c, h, t, got)
  \/ SortOut(c) \/ CommitReceive(c)
Planning(c) ==
  \/ \E h \in Hubs, load \in Cargo, to \in Hubs \cup {NoHub} : LoadPlan(c, h, load, to)
  \/ CommitPlan(c)
Cancelling(c) ==
  \/ \E h \in Hubs, t \in Codes : LoadCancelNote(c, h, t) \/ LoadCancelDraft(c, h, t) \/ LoadTransit(c, h, t)
  \/ CommitCancelNote(c) \/ ListPending(c) \/ CommitCancelDraft(c) \/ CommitTransit(c) \/ RollBack(c)
Dispatching(c) ==
  \/ \E h \in Hubs, load \in Cargo, to \in Hubs \cup {NoHub}, note \in Codes \cup {NoTrip} :
       LoadDispatch(c, h, load, to, note)
  \/ CheckStock(c) \/ CommitDispatch(c)

LEMMA RaceSteps ==
  ASSUME RaceNext
  PROVE  Enters \/ \E c \in Clerks : Receiving(c) \/ Planning(c) \/ Cancelling(c) \/ Dispatching(c)
<1>1. CASE NewStock
  BY <1>1, NewStockEnters
<1>2. CASE NewDraftOnVehicle
  BY <1>2 DEF NewDraftOnVehicle, Enters, Intakes
<1>3. ASSUME NEW c \in Clerks, NewDraftOnNote(c) \/ GateIntake(c)
      PROVE  Enters
  <2>1. CASE NewDraftOnNote(c)
    BY <2>1 DEF NewDraftOnNote, Enters, Intakes
  <2>2. CASE GateIntake(c)
    <3>1. PICK o \in Orders, h \in Hubs, q \in 1 .. MaxQty : QuickCreateInbound(o, h, q, FALSE) /\ req' = req
      BY <2>2 DEF GateIntake
    <3>2. q \in Nat
      BY BoundsAssumption
    <3> QED
      BY <3>1, <3>2, GateEnters
  <2> QED
    BY <1>3, <2>1, <2>2
<1>4. ASSUME NEW c \in Clerks,
             \/ Finish(c) \/ Dispatches(c, Hubs \cup {NoHub}) \/ Plans(c, Hubs \cup {NoHub})
             \/ Receives(c) \/ Cancels(c) \/ Passes(c)
      PROVE  Receiving(c) \/ Planning(c) \/ Cancelling(c) \/ Dispatching(c)
  <2>1. CASE Finish(c)
    BY <2>1 DEF Finish, Receiving, Planning, Cancelling, Dispatching
  <2>2. CASE Dispatches(c, Hubs \cup {NoHub})
    BY <2>2 DEF Dispatches, Dispatching
  <2>3. CASE Plans(c, Hubs \cup {NoHub})
    BY <2>3 DEF Plans, Planning
  <2>4. CASE Receives(c)
    BY <2>4 DEF Receives, Receiving
  <2>5. CASE Cancels(c) \/ Passes(c)
    BY <2>5 DEF Cancels, Passes, Cancelling
  <2> QED
    BY <1>4, <2>1, <2>2, <2>3, <2>4, <2>5
<1> QED
  BY <1>1, <1>2, <1>3, <1>4 DEF RaceNext

LEMMA RaceTypeStep == RaceType /\ [RaceNext]_raceVars => RaceType'
<1> SUFFICES ASSUME RaceType, [RaceNext]_raceVars PROVE RaceType'
  OBVIOUS
<1>1. CASE UNCHANGED raceVars
  BY <1>1 DEF raceVars, RaceType, TypeOK
<1>2. CASE RaceNext
  <2>1. ASSUME NEW c \in Clerks, Receiving(c)
        PROVE  RaceType'
    BY <2>1, LoadReceiveType, SortOutType, CommitReceiveType DEF Receiving
  <2>2. ASSUME NEW c \in Clerks, Planning(c)
        PROVE  RaceType'
    BY <2>2, PlanType DEF Planning
  <2>3. ASSUME NEW c \in Clerks, Cancelling(c)
        PROVE  RaceType'
    BY <2>3, CancelType DEF Cancelling
  <2>4. ASSUME NEW c \in Clerks, Dispatching(c)
        PROVE  RaceType'
    BY <2>4, LoadDispatchType, CheckStockType, CommitDispatchType DEF Dispatching
  <2> QED
    BY <1>2, <2>1, <2>2, <2>3, <2>4, EntersType, RaceSteps
<1> QED
  BY <1>1, <1>2

(* Under every pair of handlers the tables stay well typed: whatever stale  *)
(* copies are saved, no counter goes below zero.                            *)
THEOREM RaceTypeCorrect == RaceSpec => []RaceType
BY InitRaceType, RaceTypeStep, PTL DEF RaceSpec

-----------------------------------------------------------------------------
(***************************************************************************)
(* No invoice is ever taken back: a step appends at most one to an order.   *)
(***************************************************************************)

(* What a step appends to the invoices of an order. *)
Books(s, z, K) == z = s \/ \E r \in RowRecord : r.live /\ r.kind \in K /\ z = Append(s, r)

LEMMA BooksKeep ==
  ASSUME NEW s \in Seq(RowRecord), NEW z, Books(s, z, Kinds)
  PROVE  /\ \A t : ShippedOn(s, t) => ShippedOn(z, t)
         /\ \A K, H : RowsIn(s, K, H) # {} => RowsIn(z, K, H) # {}
<1>1. CASE z = s
  BY <1>1
<1>2. ASSUME NEW r \in RowRecord, z = Append(s, r)
      PROVE  /\ \A t : ShippedOn(s, t) => ShippedOn(z, t)
             /\ \A K, H : RowsIn(s, K, H) # {} => RowsIn(z, K, H) # {}
  <2>1. \A t : ShippedOn(s, t) => ShippedOn(z, t)
    BY <1>2, ShippedAppend
  <2>2. DOMAIN s \subseteq DOMAIN z /\ \A i \in DOMAIN s : z[i] = s[i]
    <3>1. DOMAIN s = 1 .. Len(s) /\ Len(s) \in Nat
      BY LenProperties
    <3>2. z \in Seq(RowRecord) /\ Len(z) = Len(s) + 1 /\ \A i \in 1 .. Len(s) : z[i] = s[i]
      BY <1>2, AppendProperties
    <3>3. DOMAIN z = 1 .. Len(s) + 1
      BY <3>2, LenProperties
    <3> QED
      BY <3>1, <3>2, <3>3
  <2>3. \A K, H : RowsIn(s, K, H) # {} => RowsIn(z, K, H) # {}
    BY <2>2 DEF RowsIn
  <2> QED
    BY <2>1, <2>3
<1> QED
  BY <1>1, <1>2 DEF Books

LEMMA EntersBook ==
  ASSUME RaceType, Enters
  PROVE  \A o \in Orders : Books(ledger[o], ledger'[o], Receipt)
<1>0. TypeOK
  BY RaceFacts
<1>1. PICK n \in Orders : Intakes(n)
  BY DEF Enters
<1>2. ASSUME NEW h \in Hubs, NEW q \in Nat, QuickCreateInbound(n, h, q, FALSE)
      PROVE  \A o \in Orders : Books(ledger[o], ledger'[o], Receipt)
  <2> DEFINE r == Row("INBOUND", h, NoTrip, q)
  <2>1. r \in RowRecord /\ r.live /\ r.kind \in Receipt
    BY DEF Row, RowRecord, Kinds, Receipt, NoTrip
  <2>2. ledger' = [ledger EXCEPT ![n] = Append(@, r)]
    BY <1>2 DEF QuickCreateInbound
  <2> HIDE DEF r
  <2> QED
    BY <1>0, <2>1, <2>2 DEF Books, TypeOK
<1>3. ASSUME NEW h \in Hubs, NEW q \in 1 .. MaxQty, BatchCreateInbound(h, [p \in {n} |-> q], {n})
      PROVE  \A o \in Orders : ledger'[o] = ledger[o]
  BY <1>0, <1>3 DEF BatchCreateInbound, TypeOK
<1>4. ASSUME NEW h \in Hubs, NEW t \in Codes, NEW q \in 1 .. MaxQty,
             SaveInboundDraft(h, FALSE, t, [p \in {n} |-> q])
      PROVE  \A o \in Orders : ledger'[o] = ledger[o]
  BY <1>4 DEF SaveInboundDraft
<1> QED
  BY <1>1, <1>2, <1>3, <1>4 DEF Intakes, Books

LEMMA ReceiveBooks ==
  ASSUME RaceType, NEW c \in Clerks, Receiving(c)
  PROVE  \A o \in Orders : Books(ledger[o], ledger'[o], Receipt)
<1>1. CASE (\E h \in Hubs, t \in Codes, got \in Cargo : LoadReceive(c, h, t, got)) \/ SortOut(c)
  BY <1>1 DEF LoadReceive, SortOut, vars, Books
<1>2. CASE CommitReceive(c)
  <2> DEFINE r == req[c]
             row(o) == Row("INBOUND", r.hub, r.trip, r.got[o])
  <2>1. /\ r.hub \in Hubs /\ r.trip \in Trips /\ r.booked \subseteq Orders
        /\ \A o \in r.booked : r.got[o] \in Nat
    BY <1>2, CommitReceiveParts
  <2>2. \A o \in r.booked : row(o) \in RowRecord /\ row(o).live /\ row(o).kind \in Receipt
    BY <2>1, RaceFacts DEF Row, RowRecord, Kinds, Receipt
  <2>3. \A o \in Orders : ledger'[o] = IF o \in r.booked THEN Append(ledger[o], row(o)) ELSE ledger[o]
    BY <1>2 DEF CommitReceive
  <2> HIDE DEF r, row
  <2> QED
    BY <2>2, <2>3 DEF Books
<1> QED
  BY <1>1, <1>2 DEF Receiving

(* Notes, cancellations and passages book nothing. *)
LEMMA QuietBooks ==
  ASSUME NEW c \in Clerks, Planning(c) \/ Cancelling(c)
  PROVE  ledger' = ledger
BY DEF Planning, Cancelling, LoadPlan, CommitPlan, LoadCancelNote, LoadCancelDraft, LoadTransit,
       CommitCancelNote, ListPending, CommitCancelDraft, CommitTransit, RollBack, vars

(* What a dispatch commits, in terms of the request it was checked as. *)
LEMMA DispatchBooks ==
  ASSUME RaceType, NEW c \in Clerks, CommitDispatch(c)
  PROVE  LET r == req[c] IN
         /\ r.op = "DISPATCH" /\ r.checked /\ r.hub \in Hubs /\ r.trip \in Trips /\ r.trip \in Nat
         /\ DOMAIN r.load \subseteq Orders /\ DOMAIN r.copies = DOMAIN r.load
         /\ \A o \in DOMAIN r.load : r.load[o] \in Nat
         /\ \A o \in Orders : ledger'[o] = IF o \in DOMAIN r.load
                                           THEN Append(ledger[o], Row(OutKind(r.to), r.hub, r.trip, r.load[o]))
                                           ELSE ledger[o]
         /\ \A o \in Orders : Books(ledger[o], ledger'[o], Dispatch)
<1> DEFINE r == req[c]
           row(o) == Row(OutKind(r.to), r.hub, r.trip, r.load[o])
<1>1. PICK D \in Loaded : r \in DispatchReq(D)
  BY RaceFacts, ReqFacts DEF CommitDispatch, Checked
<1>2. /\ r.op = "DISPATCH" /\ r.checked /\ r.hub \in Hubs /\ r.trip \in Trips /\ r.trip \in Nat
      /\ DOMAIN r.load \subseteq Orders /\ DOMAIN r.copies = DOMAIN r.load
      /\ \A o \in DOMAIN r.load : r.load[o] \in Nat
  BY <1>1, RaceFacts, BoundsAssumption DEF DispatchReq, Loaded, CommitDispatch, Checked
<1>3. \A o \in DOMAIN r.load : row(o) \in RowRecord /\ row(o).live /\ row(o).kind \in Dispatch
  BY <1>2 DEF Row, RowRecord, Kinds, Dispatch, OutKind
<1>4. \A o \in Orders : ledger'[o] = IF o \in DOMAIN r.load THEN Append(ledger[o], row(o)) ELSE ledger[o]
  BY DEF CommitDispatch
<1>5. \A o \in Orders : Books(ledger[o], ledger'[o], Dispatch)
  <2> HIDE DEF r, row
  <2> QED
    BY <1>2, <1>3, <1>4 DEF Books
<1> QED
  BY <1>2, <1>4, <1>5

(* Every step of every clerk appends at most one invoice to an order. *)
LEMMA StepBooks ==
  ASSUME RaceType, RaceNext, NEW o \in Orders
  PROVE  Books(ledger[o], ledger'[o], Kinds)
<1>1. \A K \in {Receipt, Dispatch} : Books(ledger[o], ledger'[o], K) => Books(ledger[o], ledger'[o], Kinds)
  BY DEF Books, Kinds
<1>2. CASE Enters
  BY <1>1, <1>2, EntersBook
<1>3. ASSUME NEW c \in Clerks, Receiving(c)
      PROVE  Books(ledger[o], ledger'[o], Kinds)
  BY <1>1, <1>3, ReceiveBooks
<1>4. ASSUME NEW c \in Clerks, Planning(c) \/ Cancelling(c)
      PROVE  Books(ledger[o], ledger'[o], Kinds)
  BY <1>4, QuietBooks DEF Books
<1>5. ASSUME NEW c \in Clerks, Dispatching(c)
      PROVE  Books(ledger[o], ledger'[o], Kinds)
  <2>1. CASE CommitDispatch(c)
    BY <1>1, <2>1, DispatchBooks
  <2>2. CASE ~CommitDispatch(c)
    BY <1>5, <2>2 DEF Dispatching, LoadDispatch, CheckStock, vars, Books
  <2> QED
    BY <2>1, <2>2
<1> QED
  BY <1>2, <1>3, <1>4, <1>5, RaceSteps

-----------------------------------------------------------------------------
(***************************************************************************)
(* Vehicles on the road.  A line goes on the road in the commit that books  *)
(* its invoice and processes its stop; nothing takes either back, and no    *)
(* commit that was loaded before can put the line or the stop back.         *)
(***************************************************************************)

OnRoad ==
  \A t \in Trips, o \in Orders : line[t][o].status = "IN_TRANSIT" =>
    /\ line[t][o].hub \in Hubs /\ line[t][o].kind \in Dispatch
    /\ stop[t][line[t][o].hub] = "COMPLETED"
    /\ ShippedOn(ledger[o], t)

(* No line goes on the road, no stop is reopened. *)
Parked ==
  /\ \A t \in Trips, o \in Orders : line'[t][o].status = "IN_TRANSIT" =>
       /\ line[t][o].status = "IN_TRANSIT"
       /\ line'[t][o].hub = line[t][o].hub /\ line'[t][o].kind = line[t][o].kind
  /\ \A t \in Trips, h \in Hubs : stop[t][h] = "COMPLETED" => stop'[t][h] = "COMPLETED"

LEMMA ParkedRoad ==
  ASSUME RaceType, OnRoad, Parked, \A o \in Orders : Books(ledger[o], ledger'[o], Kinds)
  PROVE  OnRoad'
<1>1. ASSUME NEW t \in Trips, NEW o \in Orders, line'[t][o].status = "IN_TRANSIT"
      PROVE  /\ line'[t][o].hub \in Hubs /\ line'[t][o].kind \in Dispatch
             /\ stop'[t][line'[t][o].hub] = "COMPLETED"
             /\ ShippedOn(ledger'[o], t)
  <2>1. ledger[o] \in Seq(RowRecord)
    BY RaceFacts DEF TypeOK
  <2>2. /\ line[t][o].status = "IN_TRANSIT"
        /\ line'[t][o].hub = line[t][o].hub /\ line'[t][o].kind = line[t][o].kind
    BY <1>1 DEF Parked
  <2>3. line[t][o].hub \in Hubs /\ line[t][o].kind \in Dispatch /\ stop[t][line[t][o].hub] = "COMPLETED" /\ ShippedOn(ledger[o], t)
    BY <2>2 DEF OnRoad
  <2>4. ShippedOn(ledger'[o], t)
    BY <2>1, <2>3, BooksKeep
  <2> QED
    BY <2>2, <2>3, <2>4 DEF Parked
<1> QED
  BY <1>1 DEF OnRoad

LEMMA EntersParked ==
  ASSUME RaceType, Enters
  PROVE  Parked
<1>0. TypeOK
  BY RaceFacts
<1>1. PICK n \in Orders : Intakes(n)
  BY DEF Enters
<1>2. CASE \E h \in Hubs, q \in Nat : QuickCreateInbound(n, h, q, FALSE)
  BY <1>2 DEF QuickCreateInbound, Parked
<1>3. ASSUME NEW h \in Hubs, NEW q \in 1 .. MaxQty, BatchCreateInbound(h, [p \in {n} |-> q], {n})
      PROVE  Parked
  <2> DEFINE t == lastTrip + 1
  <2>1. t \in Trips
    BY <1>0, <1>3, BoundsAssumption DEF BatchCreateInbound, TypeOK, Trips
  <2>2. \A u \in Trips \ {t} : line'[u] = line[u] /\ stop'[u] = stop[u]
    BY <1>0, <1>3 DEF BatchCreateInbound, TypeOK
  <2>3. \A o \in Orders : line'[t][o] = line[t][o] \/ line'[t][o].status # "IN_TRANSIT"
    BY <1>0, <1>3, <2>1 DEF BatchCreateInbound, TypeOK, Line
  <2>4. \A g \in Hubs : stop[t][g] = "COMPLETED" => stop'[t][g] = "COMPLETED"
    BY <1>0, <1>3, <2>1 DEF BatchCreateInbound, TypeOK, Upsert
  <2> HIDE DEF t
  <2> QED
    BY <2>1, <2>2, <2>3, <2>4 DEF Parked
<1>4. ASSUME NEW h \in Hubs, NEW t \in Codes, NEW q \in 1 .. MaxQty,
             SaveInboundDraft(h, FALSE, t, [p \in {n} |-> q])
      PROVE  Parked
  <2>1. t \in Trips
    BY RaceFacts
  <2>2. PICK got : got = [p \in {n} |-> q]
    OBVIOUS
  <2>3. PICK gone : gone = Removed(t, h, DOMAIN got, FALSE)
    OBVIOUS
  <2>4. /\ line' = [line EXCEPT ![t] = [o \in Orders |->
                      IF o \in gone THEN DeletedLine
                      ELSE IF o \notin DOMAIN got THEN @[o]
                      ELSE IF LiveLine(t, o) THEN [@[o] EXCEPT !.qty = got[o]]
                      ELSE Line("PENDING", "INBOUND", h, got[o])]]
        /\ stop' = [stop EXCEPT ![t] = Upsert(@, {h}, "PENDING")]
    BY <1>4, <2>2, <2>3 DEF SaveInboundDraft
  <2>5. \A u \in Trips \ {t} : line'[u] = line[u] /\ stop'[u] = stop[u]
    BY <1>0, <2>4 DEF TypeOK
  <2>6. ASSUME NEW o \in Orders, line'[t][o].status = "IN_TRANSIT"
        PROVE  /\ line[t][o].status = "IN_TRANSIT"
               /\ line'[t][o].hub = line[t][o].hub /\ line'[t][o].kind = line[t][o].kind
    <3>1. line[t][o] \in LineRecord
      BY <1>0, <2>1 DEF TypeOK
    <3>2. \/ line'[t][o] = DeletedLine \/ line'[t][o] = line[t][o]
          \/ line'[t][o] = [line[t][o] EXCEPT !.qty = got[o]]
          \/ line'[t][o] = Line("PENDING", "INBOUND", h, got[o])
      BY <1>0, <2>1, <2>4 DEF TypeOK
    <3> QED
      BY <2>6, <3>1, <3>2 DEF DeletedLine, NoLine, Line, LineRecord
  <2>7. \A g \in Hubs : stop[t][g] = "COMPLETED" => stop'[t][g] = "COMPLETED"
    BY <1>0, <2>1, <2>4 DEF TypeOK, Upsert
  <2> QED
    BY <2>1, <2>5, <2>6, <2>7 DEF Parked
<1> QED
  BY <1>1, <1>2, <1>3, <1>4 DEF Intakes

LEMMA ReceiveParked ==
  ASSUME RaceType, NEW c \in Clerks, Receiving(c)
  PROVE  Parked
<1>0. TypeOK
  BY RaceFacts
<1>1. CASE (\E h \in Hubs, t \in Codes, got \in Cargo : LoadReceive(c, h, t, got)) \/ SortOut(c)
  BY <1>1 DEF LoadReceive, SortOut, vars, Parked
<1>2. CASE CommitReceive(c)
  <2> DEFINE t == req[c].trip
             h == req[c].hub
  <2>1. /\ t \in Trips /\ h \in Hubs
        /\ \A o \in Orders : line'[t][o] = line[t][o] \/ line'[t][o].status \in {"COMPLETED", "DELETED"}
        /\ \A u \in Trips \ {t} : line'[u] = line[u] /\ stop'[u] = stop[u]
    BY <1>2, CommitReceiveParts
  <2>2. stop' = [stop EXCEPT ![t] = ReceivedStops(t, h, FALSE)]
    BY <1>2 DEF CommitReceive
  <2> HIDE DEF t, h
  <2>3. \A g \in Hubs : stop[t][g] = "COMPLETED" => stop'[t][g] = "COMPLETED"
    BY <1>0, <2>1, <2>2 DEF TypeOK, ReceivedStops, Upsert
  <2> QED
    BY <2>1, <2>3 DEF Parked
<1> QED
  BY <1>1, <1>2 DEF Receiving

LEMMA PlanParked ==
  ASSUME RaceType, NEW c \in Clerks, Planning(c)
  PROVE  Parked
<1>0. TypeOK
  BY RaceFacts
<1>1. CASE \E h \in Hubs, load \in Cargo, to \in Hubs \cup {NoHub} : LoadPlan(c, h, load, to)
  BY <1>1 DEF LoadPlan, Parked
<1>2. CASE CommitPlan(c)
  <2> DEFINE r == req[c]
  <2>1. r.trip \in Trips
    BY <1>2, RaceFacts, ReqFacts DEF CommitPlan, PlanReq
  <2>2. /\ line' = [line EXCEPT ![r.trip] = Planned(r.trip, r.hub, r.load, r.to, "PENDING")]
        /\ stop' = [stop EXCEPT ![r.trip] = Upsert(@, {r.hub} \cup ({r.to} \ {NoHub}), "PENDING")]
    BY <1>2 DEF CommitPlan
  <2> HIDE DEF r
  <2>3. \A u \in Trips \ {r.trip} : line'[u] = line[u] /\ stop'[u] = stop[u]
    BY <1>0, <2>2 DEF TypeOK
  <2>4. \A o \in Orders : line'[r.trip][o] = line[r.trip][o] \/ line'[r.trip][o].status # "IN_TRANSIT"
    BY <1>0, <2>1, <2>2 DEF TypeOK, Planned, Line, DeletedLine, NoLine
  <2>5. \A g \in Hubs : stop[r.trip][g] = "COMPLETED" => stop'[r.trip][g] = "COMPLETED"
    BY <1>0, <2>1, <2>2 DEF TypeOK, Upsert
  <2> QED
    BY <2>1, <2>3, <2>4, <2>5 DEF Parked
<1> QED
  BY <1>1, <1>2 DEF Planning

LEMMA CancelParked ==
  ASSUME RaceType, NEW c \in Clerks, Cancelling(c)
  PROVE  Parked
<1>0. TypeOK
  BY RaceFacts
<1>1. CASE \E h \in Hubs, t \in Codes : LoadCancelNote(c, h, t) \/ LoadCancelDraft(c, h, t) \/ LoadTransit(c, h, t)
  BY <1>1 DEF LoadCancelNote, LoadCancelDraft, LoadTransit, vars, Parked
<1>2. CASE CommitCancelNote(c)
  <2>1. req[c].trip \in Trips
    BY <1>2, RaceFacts, ReqFacts DEF CommitCancelNote, NoteReq
  <2> QED
    BY <1>0, <1>2, <2>1 DEF CommitCancelNote, TypeOK, Parked, DropPending, DeletedLine, NoLine
<1>3. CASE CommitCancelDraft(c)
  <2>1. req[c].trip \in Trips
    BY <1>3, RaceFacts, ReqFacts DEF CommitCancelDraft, CancelReq
  <2> QED
    BY <1>0, <1>3, <2>1 DEF CommitCancelDraft, TypeOK, Parked, DropPending, DeletedLine, NoLine
<1>4. CASE CommitTransit(c)
  <2>1. req[c].trip \in Trips /\ req[c].hub \in Hubs
    BY <1>4, RaceFacts, ReqFacts DEF CommitTransit, TransitReq
  <2> QED
    BY <1>0, <1>4, <2>1 DEF CommitTransit, TypeOK, Parked
<1>5. CASE ListPending(c) \/ RollBack(c)
  BY <1>5 DEF ListPending, RollBack, vars, Parked
<1> QED
  BY <1>1, <1>2, <1>3, <1>4, <1>5 DEF Cancelling

(* A vehicle leaves: line, stop and invoice in one commit. *)
LEMMA VehicleLeavesRoad ==
  ASSUME RaceType, OnRoad, NEW c \in Clerks, CommitDispatch(c)
  PROVE  OnRoad'
<1> DEFINE r == req[c]
           S == DOMAIN r.load
<1>0. TypeOK
  BY RaceFacts
<1>1. /\ r.hub \in Hubs /\ r.trip \in Trips /\ r.trip \in Nat
      /\ S \subseteq Orders /\ \A o \in S : r.load[o] \in Nat
      /\ \A o \in S : ledger'[o] = Append(ledger[o], Row(OutKind(r.to), r.hub, r.trip, r.load[o]))
      /\ \A o \in Orders : Books(ledger[o], ledger'[o], Kinds)
  BY DispatchBooks DEF Books, Kinds
<1>2. /\ line' = [line EXCEPT ![r.trip] = Planned(r.trip, r.hub, r.load, r.to, "IN_TRANSIT")]
      /\ stop' = [stop EXCEPT ![r.trip] =
                    Upsert(Upsert(@, {r.hub}, "COMPLETED"), Targets(S, r.hub, r.to), "PENDING")]
  BY DEF CommitDispatch
<1> HIDE DEF r
<1>3. \A t \in Trips, h \in Hubs : stop[t][h] = "COMPLETED" => stop'[t][h] = "COMPLETED"
  BY <1>0, <1>1, <1>2 DEF TypeOK, Upsert
<1>4. stop'[r.trip][r.hub] = "COMPLETED"
  BY <1>0, <1>1, <1>2 DEF TypeOK, Upsert
<1>5. ASSUME NEW t \in Trips, NEW o \in Orders, line'[t][o].status = "IN_TRANSIT"
      PROVE  /\ line'[t][o].hub \in Hubs /\ line'[t][o].kind \in Dispatch
             /\ stop'[t][line'[t][o].hub] = "COMPLETED"
             /\ ShippedOn(ledger'[o], t)
  <2>1. ledger[o] \in Seq(RowRecord)
    BY <1>0 DEF TypeOK
  <2>2. CASE t = r.trip /\ o \in S
    <3>1. line'[t][o].hub = r.hub /\ line'[t][o].kind \in Dispatch
      BY <1>0, <1>1, <1>2, <2>2 DEF TypeOK, Planned, Line, OutKind, Dispatch
    <3> DEFINE row == Row(OutKind(r.to), r.hub, r.trip, r.load[o])
    <3>2. row \in RowRecord /\ row.live /\ row.kind \in Dispatch /\ row.trip = t
      BY <1>1, <2>2 DEF Row, RowRecord, Kinds, Dispatch, OutKind
    <3>3. ledger'[o] = Append(ledger[o], row)
      BY <1>1, <2>2
    <3> HIDE DEF row
    <3>4. ShippedOn(ledger'[o], t)
      BY <2>1, <3>2, <3>3, ShippedAppend
    <3> QED
      BY <1>1, <1>4, <2>2, <3>1, <3>4
  <2>3. CASE ~(t = r.trip /\ o \in S)
    <3>1. line'[t][o] = line[t][o]
      BY <1>0, <1>1, <1>2, <1>5, <2>3 DEF TypeOK, Planned, DeletedLine, NoLine
    <3>2. /\ line[t][o].hub \in Hubs /\ line[t][o].kind \in Dispatch
          /\ stop[t][line[t][o].hub] = "COMPLETED" /\ ShippedOn(ledger[o], t)
      BY <1>5, <3>1 DEF OnRoad
    <3>3. ShippedOn(ledger'[o], t)
      BY <1>1, <2>1, <3>2, BooksKeep
    <3> QED
      BY <1>3, <3>1, <3>2, <3>3
  <2> QED
    BY <2>2, <2>3
<1> QED
  BY <1>5 DEF OnRoad

LEMMA RoadRaceStep == RaceType /\ OnRoad /\ [RaceNext]_raceVars => OnRoad'
<1> SUFFICES ASSUME RaceType, OnRoad, [RaceNext]_raceVars PROVE OnRoad'
  OBVIOUS
<1>1. CASE UNCHANGED raceVars
  BY <1>1 DEF raceVars, OnRoad
<1>2. CASE RaceNext
  <2>1. \A o \in Orders : Books(ledger[o], ledger'[o], Kinds)
    BY <1>2, StepBooks
  <2>2. CASE Parked
    BY <2>1, <2>2, ParkedRoad
  <2>3. ASSUME NEW c \in Clerks, Dispatching(c)
        PROVE  CommitDispatch(c) \/ Parked
    BY <2>3 DEF Dispatching, LoadDispatch, CheckStock, vars, Parked
  <2> QED
    BY <1>2, <2>2, <2>3, RaceSteps, EntersParked, ReceiveParked, PlanParked, CancelParked, VehicleLeavesRoad
<1> QED
  BY <1>1, <1>2

LEMMA InitOnRoad == RaceInit => OnRoad
BY DEF RaceInit, Init, OnRoad, NoLine

(* Whatever two clerks do at once - receive and dispatch one vehicle, cancel *)
(* the note that is being confirmed, pass the vehicle on - a line on the     *)
(* road has its invoice and a processed stop at its hub.                     *)
THEOREM RacingVehiclesAreInvoiced == RaceSpec => []InTransitIsInvoiced
<1>1. OnRoad => InTransitIsInvoiced
  BY ShippedQuery DEF OnRoad, InTransitIsInvoiced, LeftFrom, LiveLine
<1> QED
  BY <1>1, RaceTypeCorrect, InitOnRoad, RoadRaceStep, PTL DEF RaceSpec

-----------------------------------------------------------------------------
(***************************************************************************)
(* Clerks who dispatch to other hubs never oversell one.  A dispatch that   *)
(* has read the stock is backed by it until it commits: what other clerks   *)
(* receive only adds to it, what they dispatch leaves from other hubs.      *)
(***************************************************************************)

Transfers(r, led) ==
  r.op = "DISPATCH" => r.to \in Hubs /\ \A o \in DOMAIN r.load : RowsIn(led[o], Kinds, {r.hub}) # {}
Backed(r, led) ==
  \A o \in DOMAIN r.load : Out(led[o], r.hub) + r.load[o] <= In(led[o], r.hub)

DeskOK ==
  /\ \A o \in Orders, h \in Hubs : Out(ledger[o], h) <= In(ledger[o], h)
  /\ \A c \in Clerks : Transfers(req[c], ledger)
  /\ \A c \in Clerks : Checked(c) => Backed(req[c], ledger)
  /\ \A c, d \in Clerks : c # d /\ Checked(c) /\ Checked(d) => req[c].hub # req[d].hub

LEMMA ReceiptsAdd ==
  ASSUME NEW s \in Seq(RowRecord), NEW z, Books(s, z, Receipt), NEW h
  PROVE  Out(z, h) = Out(s, h) /\ In(s, h) <= In(z, h) /\ In(s, h) \in Nat /\ In(z, h) \in Nat /\ Out(s, h) \in Nat
<1>0. In(s, h) \in Nat /\ Out(s, h) \in Nat
  BY RowsInFinite DEF In, Out
<1>1. CASE z = s
  BY <1>0, <1>1
<1>2. ASSUME NEW r \in RowRecord, r.live, r.kind \in Receipt, z = Append(s, r)
      PROVE  Out(z, h) = Out(s, h) /\ In(s, h) <= In(z, h) /\ In(z, h) \in Nat
  <2>1. r.kind \notin Dispatch /\ r.qty \in Nat
    BY <1>2 DEF Receipt, Dispatch, RowRecord
  <2>2. \A K : SumIn(z, K, {h}) = SumIn(s, K, {h}) + (IF r.kind \in K /\ r.hub \in {h} THEN r.qty ELSE 0)
    BY <1>2, SumAppend
  <2>3. Out(z, h) = Out(s, h) + 0
    BY <2>1, <2>2 DEF Out
  <2>4. In(z, h) = In(s, h) + (IF r.hub \in {h} THEN r.qty ELSE 0)
    BY <1>2, <2>2 DEF In
  <2> QED
    BY <1>0, <2>1, <2>3, <2>4
<1> QED
  BY <1>0, <1>1, <1>2 DEF Books

(* A load and its quantities, as numbers. *)
LEMMA LoadNat ==
  ASSUME RaceType, NEW c \in Clerks, req[c].op = "DISPATCH"
  PROVE  /\ DOMAIN req[c].load \subseteq Orders /\ req[c].hub \in Hubs /\ req[c].note \in Nat
         /\ \A o \in DOMAIN req[c].load : req[c].load[o] \in Nat /\ req[c].load[o] > 0
<1>1. PICK S \in Loaded : req[c] \in DispatchReq(S)
  BY RaceFacts, ReqFacts
<1> QED
  BY <1>1, BoundsAssumption DEF DispatchReq, Loaded

(* Receipts come in, requests end or begin; nobody reads the stock. *)
LEMMA DeskKept ==
  ASSUME RaceType, DeskOK, \A o \in Orders : Books(ledger[o], ledger'[o], Receipt),
         \A c \in Clerks : \/ req'[c] = req[c]
                           \/ req'[c].op # "DISPATCH"
                           \/ ~req'[c].checked /\ Transfers(req'[c], ledger) /\ DOMAIN req'[c].load \subseteq Orders
  PROVE  DeskOK'
<1>0. \A o \in Orders : ledger[o] \in Seq(RowRecord)
  BY RaceFacts DEF TypeOK
<1>1. \A o \in Orders : \A h : /\ Out(ledger'[o], h) = Out(ledger[o], h) /\ In(ledger[o], h) <= In(ledger'[o], h)
                               /\ In(ledger[o], h) \in Nat /\ In(ledger'[o], h) \in Nat /\ Out(ledger[o], h) \in Nat
  BY <1>0, ReceiptsAdd
<1>2. \A o \in Orders : Books(ledger[o], ledger'[o], Kinds)
  BY DEF Books, Kinds
<1>3. \A o \in Orders : \A h : RowsIn(ledger[o], Kinds, {h}) # {} => RowsIn(ledger'[o], Kinds, {h}) # {}
  BY <1>0, <1>2, BooksKeep
<1>4. \A o \in Orders, h \in Hubs : Out(ledger'[o], h) <= In(ledger'[o], h)
  BY <1>1 DEF DeskOK
<1>5. ASSUME NEW c \in Clerks
      PROVE  Transfers(req'[c], ledger')
  <2>1. CASE req'[c].op = "DISPATCH"
    <3>1. Transfers(req'[c], ledger) /\ DOMAIN req'[c].load \subseteq Orders
      BY <2>1, LoadNat DEF DeskOK
    <3> QED
      BY <1>3, <2>1, <3>1 DEF Transfers
  <2> QED
    BY <2>1 DEF Transfers
<1>6. \A c \in Clerks : Checked(c)' => req'[c] = req[c] /\ Checked(c)
  BY DEF Checked
<1>7. ASSUME NEW c \in Clerks, Checked(c)'
      PROVE  Backed(req'[c], ledger')
  <2>1. Backed(req[c], ledger) /\ req'[c] = req[c] /\ req[c].op = "DISPATCH"
    BY <1>6, <1>7 DEF DeskOK, Checked
  <2>2. DOMAIN req[c].load \subseteq Orders /\ \A o \in DOMAIN req[c].load : req[c].load[o] \in Nat
    BY <2>1, LoadNat
  <2> QED
    BY <1>1, <2>1, <2>2 DEF Backed
<1>8. \A c, d \in Clerks : c # d /\ Checked(c)' /\ Checked(d)' => req'[c].hub # req'[d].hub
  BY <1>6 DEF DeskOK
<1> QED
  BY <1>4, <1>5, <1>7, <1>8 DEF DeskOK

(* What a dispatch is granted is there, and no other is about to take it. *)
LEMMA CheckStockBacked ==
  ASSUME RaceType, DeskOK, NEW c \in Clerks, CheckStock(c)
  PROVE  DeskOK'
<1> DEFINE r == req[c]
           h == r.hub
<1>0. TypeOK /\ ledger' = ledger /\ req \in [Clerks -> ReqRecord] /\ r.op = "DISPATCH"
  BY DEF RaceType, CheckStock, vars
<1>1. \A o \in Orders : Books(ledger[o], ledger'[o], Receipt)
  BY <1>0 DEF Books
<1>2. CASE End(c)
  <2>1. \A d \in Clerks : req'[d] = req[d] \/ req'[d].op # "DISPATCH"
    BY <1>0, <1>2 DEF End, Idle
  <2> QED
    BY <1>1, <2>1, DeskKept
<1>3. CASE req' = [req EXCEPT ![c] = [r EXCEPT !.checked = TRUE]] /\ \A o \in DOMAIN r.load : r.load[o] <= Granted(r, o)
  <2>1. /\ h \in Hubs /\ DOMAIN r.load \subseteq Orders
        /\ \A o \in DOMAIN r.load : r.load[o] \in Nat /\ r.load[o] > 0
    BY <1>0, LoadNat
  <2>2. r.to \in Hubs /\ \A o \in DOMAIN r.load : RowsIn(ledger[o], Kinds, {h}) # {}
    BY <1>0 DEF DeskOK, Transfers
  <2>3. PICK S \in Loaded : r \in DispatchReq(S)
    BY <1>0, ReqFacts
  <2>4. /\ req'[c].op = "DISPATCH" /\ req'[c].hub = h /\ req'[c].load = r.load /\ req'[c].to = r.to
        /\ \A d \in Clerks \ {c} : req'[d] = req[d]
    BY <1>0, <1>3, <2>3 DEF DispatchReq
  <2>5. ASSUME NEW o \in DOMAIN r.load
        PROVE  Out(ledger[o], h) + r.load[o] <= In(ledger[o], h)
    <3>1. HasLedgerAt(o, h)
      BY <2>2 DEF HasLedgerAt, RowsAt, Rows, RowsIn
    <3>2. r.load[o] <= Available(o, h, r.note)
      BY <1>3, <3>1 DEF Granted
    <3>3. Available(o, h, r.note) = Monus(In(ledger[o], h), Out(ledger[o], h) + Reserved(o, h, r.note))
      BY <2>1, <3>1, PlanQueries DEF Available, StockIn, StockOut, In, Out
    <3>4. In(ledger[o], h) \in Nat /\ Out(ledger[o], h) \in Nat /\ Reserved(o, h, r.note) \in Nat
      BY <1>0, <2>1, HubSums, ReservedNat
    <3>5. r.load[o] \in Nat /\ r.load[o] > 0
      BY <2>1
    <3> HIDE DEF r, h
    <3> QED
      BY <3>2, <3>3, <3>4, <3>5 DEF Monus
  <2>6. ASSUME NEW d \in Clerks \ {c}, Checked(d)
        PROVE  req[d].hub # h
    <3>1. Locks(req[d]) \cap Locks(r) = {}
      BY <2>6 DEF CheckStock, MayWrite
    <3>2. req[d].to \in Hubs
      BY <2>6 DEF DeskOK, Transfers, Checked
    <3>3. OutKind(r.to) = "TRANSFER" /\ OutKind(req[d].to) = "TRANSFER"
      BY <2>2, <3>2, HubsAssumption DEF OutKind
    <3>4. <<h, "TRANSFER">> \in Locks(r) /\ <<req[d].hub, "TRANSFER">> \in Locks(req[d])
      BY <3>3 DEF Locks
    <3> QED
      BY <3>1, <3>4
  <2> HIDE DEF r, h
  <2>7. \A d \in Clerks : Transfers(req'[d], ledger')
    BY <1>0, <2>2, <2>4 DEF DeskOK, Transfers
  <2>8. \A d \in Clerks : Checked(d)' => Backed(req'[d], ledger')
    BY <1>0, <2>4, <2>5 DEF DeskOK, Checked, Backed
  <2>9. \A d, e \in Clerks : d # e /\ Checked(d)' /\ Checked(e)' => req'[d].hub # req'[e].hub
    BY <2>4, <2>6 DEF DeskOK, Checked
  <2> QED
    BY <1>0, <2>7, <2>8, <2>9 DEF DeskOK
<1> QED
  BY <1>2, <1>3 DEF CheckStock, Begin

(* A commit ships what it was backed for, and nobody else's backing. *)
LEMMA CommitDispatchBacked ==
  ASSUME RaceType, DeskOK, NEW c \in Clerks, CommitDispatch(c)
  PROVE  DeskOK'
<1> DEFINE r == req[c]
           S == DOMAIN r.load
<1>0. TypeOK /\ req \in [Clerks -> ReqRecord] /\ Checked(c)
  BY DEF RaceType, CommitDispatch
<1>1. /\ r.hub \in Hubs /\ r.trip \in Nat /\ S \subseteq Orders
      /\ \A o \in S : r.load[o] \in Nat
      /\ \A o \in Orders : ledger'[o] = IF o \in S
                                        THEN Append(ledger[o], Row(OutKind(r.to), r.hub, r.trip, r.load[o]))
                                        ELSE ledger[o]
      /\ \A o \in Orders : Books(ledger[o], ledger'[o], Kinds)
  BY DispatchBooks DEF Books, Kinds
<1>2. Backed(r, ledger) /\ \A d \in Clerks \ {c} : Checked(d) => req[d].hub # r.hub
  BY <1>0 DEF DeskOK
<1>3. req' = [req EXCEPT ![c] = Idle] /\ Idle.op = "NONE"
  BY DEF CommitDispatch, End, Idle
<1>4. OutKind(r.to) \in Dispatch
  BY DEF OutKind, Dispatch
<1> HIDE DEF r, S
<1>5. ASSUME NEW o \in Orders, NEW h \in Hubs
      PROVE  /\ In(ledger'[o], h) = In(ledger[o], h)
             /\ h # r.hub => Out(ledger'[o], h) = Out(ledger[o], h)
             /\ Out(ledger'[o], h) <= In(ledger'[o], h)
  <2>1. CASE o \in S
    <3>1. /\ ShippedFrom(ledger[o], ledger'[o], r.hub)
          /\ Out(ledger'[o], r.hub) = Out(ledger[o], r.hub) + r.load[o]
      BY <1>0, <1>1, <1>4, <2>1, DispatchMoves
    <3>2. Out(ledger[o], r.hub) + r.load[o] <= In(ledger[o], r.hub)
      BY <1>2, <2>1 DEF Backed, S
    <3>3. In(ledger'[o], h) = In(ledger[o], h) /\ (h # r.hub => Out(ledger'[o], h) = Out(ledger[o], h))
      BY <3>1 DEF ShippedFrom
    <3> QED
      BY <3>1, <3>2, <3>3 DEF DeskOK
  <2>2. CASE o \notin S
    BY <1>1, <2>2 DEF DeskOK
  <2> QED
    BY <2>1, <2>2
<1>6. ASSUME NEW d \in Clerks, d # c, req[d].op = "DISPATCH"
      PROVE  Transfers(req[d], ledger') /\ (Checked(d) => Backed(req[d], ledger'))
  <2>1. DOMAIN req[d].load \subseteq Orders /\ req[d].hub \in Hubs
    BY <1>6, LoadNat
  <2>2. Transfers(req[d], ledger) /\ (Checked(d) => Backed(req[d], ledger) /\ req[d].hub # r.hub)
    BY <1>2, <1>6 DEF DeskOK
  <2>3. \A o \in Orders : ledger[o] \in Seq(RowRecord)
    BY <1>0 DEF TypeOK
  <2>4. \A o \in Orders : \A h : RowsIn(ledger[o], Kinds, {h}) # {} => RowsIn(ledger'[o], Kinds, {h}) # {}
    BY <1>1, <2>3, BooksKeep
  <2>5. Transfers(req[d], ledger')
    BY <2>1, <2>2, <2>4 DEF Transfers
  <2>6. Checked(d) => Backed(req[d], ledger')
    BY <1>5, <2>1, <2>2 DEF Backed
  <2> QED
    BY <2>5, <2>6
<1>7. \A d \in Clerks : IF d = c THEN req'[d].op = "NONE" ELSE req'[d] = req[d]
  BY <1>0, <1>3
<1>8. \A d \in Clerks : Transfers(req'[d], ledger')
  BY <1>6, <1>7 DEF Transfers
<1>9. \A d \in Clerks : Checked(d)' => d # c /\ req'[d] = req[d] /\ Checked(d)
  BY <1>7 DEF Checked
<1>10. \A d \in Clerks : Checked(d)' => Backed(req'[d], ledger')
  BY <1>6, <1>9 DEF Checked
<1>11. \A d, e \in Clerks : d # e /\ Checked(d)' /\ Checked(e)' => req'[d].hub # req'[e].hub
  BY <1>9 DEF DeskOK
<1> QED
  BY <1>5, <1>8, <1>10, <1>11 DEF DeskOK

(* A dispatch that begins carries rows of its hub, and has read no stock. *)
LEMMA LoadDispatchDesk ==
  ASSUME RaceType, DeskOK, NEW c \in Clerks, NEW h \in Hubs, NEW load \in Cargo, NEW to \in Hubs,
         NEW note \in Codes \cup {NoTrip}, LoadDispatch(c, h, load, to, note), HasLedger(c)
  PROVE  DeskOK'
<1> DEFINE seen == [o \in DOMAIN load |-> order[o].rem]
           copies == [o \in DOMAIN load |-> DispatchedOrder(o, TripFor(note), load[o], to)]
           new == [op |-> "DISPATCH", checked |-> FALSE, hub |-> h, load |-> load, to |-> to,
                   note |-> note, trip |-> TripFor(note), seen |-> seen, copies |-> copies]
<1>1. req' = [req EXCEPT ![c] = new] /\ ledger' = ledger
  BY DEF LoadDispatch, Begin
<1>2. DOMAIN load \subseteq Orders
  BY CargoShape DEF Loaded
<1> HIDE DEF seen, copies
<1>3. new.op = "DISPATCH" /\ ~new.checked /\ new.hub = h /\ new.load = load /\ new.to = to
  OBVIOUS
<1> HIDE DEF new
<1>4. req'[c] = new /\ \A d \in Clerks \ {c} : req'[d] = req[d]
  BY <1>1 DEF RaceType
<1>5. \A o \in DOMAIN load : RowsIn(ledger[o], Kinds, {h}) # {}
  BY <1>3, <1>4 DEF HasLedger, HasLedgerAt, RowsAt, Rows, RowsIn
<1>6. Transfers(new, ledger)
  BY <1>3, <1>5 DEF Transfers
<1>7. \A o \in Orders : Books(ledger[o], ledger'[o], Receipt)
  BY <1>1 DEF Books
<1> QED
  BY <1>2, <1>3, <1>4, <1>6, <1>7, DeskKept

(* The steps of such clerks, by what they do to the stock. *)
DeskIdle(c) ==
  \/ Receives(c) \/ Plans(c, Hubs) \/ CommitPlan(c) \/ CommitCancelNote(c)
  \/ SortOut(c) \/ CommitReceive(c) \/ ListPending(c) \/ CommitCancelDraft(c)
  \/ CommitTransit(c) \/ RollBack(c)
  \/ \E h \in Hubs, t \in Codes : LoadCancelNote(c, h, t)

LEMMA DeskIdleBooks ==
  ASSUME RaceType, NEW c \in Clerks, DeskIdle(c)
  PROVE  \A o \in Orders : Books(ledger[o], ledger'[o], Receipt)
<1>1. Receiving(c) \/ Planning(c) \/ Cancelling(c)
  BY DEF DeskIdle, Receives, Plans, Receiving, Planning, Cancelling
<1>2. ledger' = ledger => \A o \in Orders : Books(ledger[o], ledger'[o], Receipt)
  BY DEF Books
<1> QED
  BY <1>1, <1>2, ReceiveBooks, QuietBooks

LEMMA DeskIdleRequest ==
  ASSUME RaceType, NEW c \in Clerks, DeskIdle(c)
  PROVE  \A d \in Clerks : req'[d] = req[d] \/ req'[d].op # "DISPATCH"
<1>1. ASSUME NEW x, x.op # "DISPATCH", req' = [req EXCEPT ![c] = x]
      PROVE  \A d \in Clerks : req'[d] = req[d] \/ req'[d].op # "DISPATCH"
  BY <1>1 DEF RaceType
<1>2. ASSUME End(c)
      PROVE  \A d \in Clerks : req'[d] = req[d] \/ req'[d].op # "DISPATCH"
  BY <1>1, <1>2 DEF End, Idle
<1>3. CASE Receives(c)
  <2>1. PICK h \in Hubs, t \in Codes, got \in Cargo : LoadReceive(c, h, t, got)
    BY <1>3 DEF Receives
  <2> DEFINE booked == {o \in DOMAIN got : ~Skipped(o, h, FALSE, t)}
             copies == [o \in DOMAIN got |-> ReceivedOrder(o, h, FALSE, t, got[o])]
             new == [op |-> "RECEIVE", hub |-> h, trip |-> t, got |-> got, booked |-> booked, copies |-> copies,
                     sorted |-> FALSE, gone |-> {}, dead |-> {}]
  <2>2. req' = [req EXCEPT ![c] = new]
    BY <2>1 DEF LoadReceive, Begin
  <2> HIDE DEF booked, copies
  <2>3. new.op # "DISPATCH"
    OBVIOUS
  <2> HIDE DEF new
  <2> QED
    BY <1>1, <2>2, <2>3
<1>4. CASE Plans(c, Hubs)
  <2>1. PICK h \in Hubs, load \in Cargo, to \in Hubs : LoadPlan(c, h, load, to)
    BY <1>4 DEF Plans
  <2> DEFINE new == [op |-> "PLAN", hub |-> h, load |-> load, to |-> to, trip |-> lastTrip']
  <2>2. req' = [req EXCEPT ![c] = new] /\ new.op # "DISPATCH"
    BY <2>1 DEF LoadPlan, Begin
  <2> HIDE DEF new
  <2> QED
    BY <1>1, <2>2
<1>5. CASE \E h \in Hubs, t \in Codes : LoadCancelNote(c, h, t)
  <2>1. PICK t \in Codes : Begin(c, [op |-> "CANCEL_NOTE", trip |-> t])
    BY <1>5 DEF LoadCancelNote
  <2> QED
    BY <1>1, <2>1 DEF Begin
<1>6. CASE \/ CommitPlan(c) \/ CommitCancelNote(c) \/ CommitReceive(c)
           \/ CommitCancelDraft(c) \/ CommitTransit(c) \/ RollBack(c)
  BY <1>2, <1>6 DEF CommitPlan, CommitCancelNote, CommitReceive, CommitCancelDraft, CommitTransit, RollBack
<1>7. CASE SortOut(c) \/ ListPending(c)
  <2>1. /\ req[c].op \in {"RECEIVE", "CANCEL_DRAFT"}
        /\ \E x : x.op = req[c].op /\ req' = [req EXCEPT ![c] = x]
    <3>1. CASE SortOut(c)
      <4>1. PICK S \in Loaded : req[c] \in ReceiveReq(S)
        BY <3>1, RaceFacts, ReqFacts DEF SortOut
      <4>2. PICK g, d, z : req' = [req EXCEPT ![c] = [req[c] EXCEPT !.sorted = TRUE, !.gone = g, !.dead = d,
                                                                     !.copies = z]]
        BY <3>1 DEF SortOut, Begin
      <4>3. [req[c] EXCEPT !.sorted = TRUE, !.gone = g, !.dead = d, !.copies = z].op = req[c].op
        BY <4>1 DEF ReceiveReq
      <4>4. req[c].op = "RECEIVE"
        BY <3>1 DEF SortOut
      <4> QED
        BY <4>2, <4>3, <4>4
    <3>2. CASE ListPending(c)
      <4>1. req[c] \in CancelReq
        BY <3>2, RaceFacts, ReqFacts DEF ListPending
      <4>2. PICK z : req' = [req EXCEPT ![c] = [req[c] EXCEPT !.listed = TRUE, !.stored = z]]
        BY <3>2 DEF ListPending, Begin
      <4>3. [req[c] EXCEPT !.listed = TRUE, !.stored = z].op = req[c].op
        BY <4>1 DEF CancelReq
      <4>4. req[c].op = "CANCEL_DRAFT"
        BY <3>2 DEF ListPending
      <4> QED
        BY <4>2, <4>3, <4>4
    <3> QED
      BY <1>7, <3>1, <3>2
  <2> QED
    BY <1>1, <2>1
<1> QED
  BY <1>3, <1>4, <1>5, <1>6, <1>7 DEF DeskIdle

LEMMA DeskSteps ==
  ASSUME DeskNext(Hubs)
  PROVE  /\ \/ NewStock
            \/ \E c \in Clerks : \/ DeskIdle(c) \/ CheckStock(c) \/ CommitDispatch(c)
                                 \/ Dispatches(c, Hubs) /\ HasLedger(c)
         /\ RaceNext
<1>1. CASE NewStock
  BY <1>1 DEF RaceNext
<1>2. ASSUME NEW c \in Clerks,
             \/ Finish(c) \/ (Dispatches(c, Hubs) /\ HasLedger(c))
             \/ Plans(c, Hubs) \/ Receives(c) \/ \E h \in Hubs, t \in Codes : LoadCancelNote(c, h, t)
      PROVE  /\ \/ DeskIdle(c) \/ CheckStock(c) \/ CommitDispatch(c)
                \/ Dispatches(c, Hubs) /\ HasLedger(c)
             /\ \/ Finish(c) \/ Dispatches(c, Hubs \cup {NoHub}) \/ Plans(c, Hubs \cup {NoHub})
                \/ Receives(c) \/ Cancels(c)
  <2>1. Dispatches(c, Hubs) => Dispatches(c, Hubs \cup {NoHub})
    BY DEF Dispatches
  <2>2. Plans(c, Hubs) => Plans(c, Hubs \cup {NoHub})
    BY DEF Plans
  <2>3. (\E h \in Hubs, t \in Codes : LoadCancelNote(c, h, t)) => Cancels(c)
    BY DEF Cancels
  <2>4. Finish(c) => DeskIdle(c) \/ CheckStock(c) \/ CommitDispatch(c)
    BY DEF Finish, DeskIdle
  <2>5. (\/ Plans(c, Hubs) \/ Receives(c) \/ \E h \in Hubs, t \in Codes : LoadCancelNote(c, h, t)) => DeskIdle(c)
    BY DEF DeskIdle
  <2> QED
    BY <1>2, <2>1, <2>2, <2>3, <2>4, <2>5
<1> QED
  BY <1>1, <1>2 DEF DeskNext, RaceNext

LEMMA DeskStep == RaceType /\ DeskOK /\ [DeskNext(Hubs)]_raceVars => (RaceType /\ DeskOK)'
<1> SUFFICES ASSUME RaceType, DeskOK, [DeskNext(Hubs)]_raceVars PROVE RaceType' /\ DeskOK'
  OBVIOUS
<1>1. RaceType'
  <2>1. DeskNext(Hubs) => RaceNext
    BY DeskSteps
  <2>2. [RaceNext]_raceVars
    BY <2>1
  <2> QED
    BY <2>2, RaceTypeStep
<1>2. CASE UNCHANGED raceVars
  <2>1. ledger' = ledger /\ req' = req
    BY <1>2 DEF raceVars
  <2>2. \A o \in Orders : Books(ledger[o], ledger'[o], Receipt)
    BY <2>1 DEF Books
  <2>3. \A c \in Clerks : req'[c] = req[c]
    BY <2>1
  <2> QED
    BY <1>1, <2>2, <2>3, DeskKept
<1>3. CASE NewStock
  <2>1. Enters /\ req' = req
    BY <1>3, NewStockEnters
  <2>2. \A c \in Clerks : req'[c] = req[c]
    BY <2>1
  <2>3. \A o \in Orders : Books(ledger[o], ledger'[o], Receipt)
    BY <2>1, EntersBook
  <2> QED
    BY <1>1, <2>2, <2>3, DeskKept
<1>4. ASSUME NEW c \in Clerks, DeskIdle(c)
      PROVE  DeskOK'
  BY <1>4, DeskIdleBooks, DeskIdleRequest, DeskKept
<1>5. ASSUME NEW c \in Clerks, Dispatches(c, Hubs), HasLedger(c)
      PROVE  DeskOK'
  BY <1>5, LoadDispatchDesk DEF Dispatches
<1> QED
  BY <1>1, <1>2, <1>3, <1>4, <1>5, CheckStockBacked, CommitDispatchBacked, DeskSteps

LEMMA InitDesk == RaceInit => RaceType /\ DeskOK
<1> SUFFICES ASSUME RaceInit PROVE DeskOK
  BY InitRaceType
<1>1. \A c \in Clerks : req[c].op = "NONE"
  BY DEF RaceInit, Idle
<1>2. \A o \in Orders, h \in Hubs : Out(ledger[o], h) = 0 /\ In(ledger[o], h) = 0
  <2>1. \A o \in Orders : \A K, H : RowsIn(ledger[o], K, H) = {}
    BY DEF RaceInit, Init, RowsIn
  <2> QED
    BY <2>1, QtyEmpty DEF In, Out, SumIn
<1> QED
  BY <1>1, <1>2 DEF DeskOK, Transfers, Checked

LEMMA DeskNeverOversells == DeskOK => HubStockNonNegative
BY PlanQueries DEF DeskOK, HubStockNonNegative, In, Out

(* Whoever dispatches at once from whichever hubs to other hubs: no hub      *)
(* ships packages it never received.                                         *)
THEOREM TransfersAloneNeverOversell == TransferDeskSpec => []HubStockNonNegative
BY InitDesk, DeskStep, DeskNeverOversells, PTL DEF TransferDeskSpec

(* The same of the shift the runs explore.  Nothing is claimed of the other  *)
(* shift, in which clerks dispatch to customers and hubs at once.            *)
THEOREM ShiftsNeverOversell == ShiftSpec => []TransfersNeverOversell
<1> DEFINE Inv == shift = "transfers" => RaceType /\ DeskOK
           Turn == [/\ \/ shift = "transfers" /\ DeskNext(Hubs)
                       \/ shift = "anything" /\ OneTrip!RaceNext
                    /\ UNCHANGED shift]_<<raceVars, shift>>
<1>1. ShiftInit => Inv
  BY InitDesk DEF ShiftInit
<1>2. Inv /\ Turn => Inv'
  <2> SUFFICES ASSUME Inv, Turn, shift' = "transfers" PROVE RaceType' /\ DeskOK'
    BY Zenon
  <2>1. shift = "transfers"
    OBVIOUS
  <2>2. [DeskNext(Hubs)]_raceVars
    BY <2>1 DEF raceVars
  <2> QED
    BY <2>1, <2>2, DeskStep
<1>3. Inv => TransfersNeverOversell
  BY DeskNeverOversells DEF TransfersNeverOversell
<1> QED
  BY <1>1, <1>2, <1>3, PTL DEF ShiftSpec
=============================================================================
