------------------------- MODULE CodeCounters_proofs -------------------------
(***************************************************************************)
(* No hub gives a code twice, whatever the number of hubs, operators,       *)
(* clerks and months, and two hubs give the same one only if they print the *)
(* same prefix.  And the number an office form offers is not in use until   *)
(* its loop runs out, although the codes are read in the order of their     *)
(* text.                                                                    *)
(***************************************************************************)
EXTENDS MCCodeCounters, FiniteSetTheorems, WellFoundedInduction, TLAPS

-----------------------------------------------------------------------------
(* The inductive invariant. *)

Code == [hub : Hubs, prefix : Prefixes, series : Series, month : 1 .. MaxMonth, seq : Nat]
KeyOf(x) == [hub |-> x.hub, series |-> x.series, month |-> x.month]
Txn == [open : BOOLEAN, office : BOOLEAN, needs : Seq(Keys),
        taken : SUBSET Code, held : SUBSET (Keys \X Nat)]

(* The tables are well typed. *)
Typed ==
  /\ month \in 1 .. MaxMonth
  /\ hub \in [Hubs -> [prefix : Prefixes \cup {NoPrefix}, active : BOOLEAN]]
  /\ counter \in [Keys -> Nat]
  /\ lock \in [Keys -> Clerks \cup {NoClerk}]
  /\ txn \in [Clerks -> Txn]
  /\ issued \in SUBSET Code

(* A row is locked exactly by the open request that remembers its value. *)
Locked ==
  \A c \in Clerks :
    /\ ~txn[c].open => txn[c] = NoTxn
    /\ \A k \in Keys : lock[k] = c => \E e \in txn[c].held : e[1] = k
    /\ \A e \in txn[c].held : lock[e[1]] = c

(* No code is ahead of its counter. *)
Counted ==
  /\ \A x \in issued : x.seq <= counter[KeyOf(x)]
  /\ \A c \in Clerks : \A x \in txn[c].taken : x.seq <= counter[KeyOf(x)]

(* Nor of the value the counter goes back to when another request fails. *)
Returnable ==
  \A c \in Clerks : \A e \in txn[c].held :
    /\ \A x \in issued : KeyOf(x) = e[1] => x.seq <= e[2]
    /\ \A d \in Clerks \ {c} : \A x \in txn[d].taken : KeyOf(x) = e[1] => x.seq <= e[2]

(* Codes drawn by different requests have different counters or numbers. *)
Double(x, y) == KeyOf(x) = KeyOf(y) /\ x.seq = y.seq
Apart ==
  \A c \in Clerks :
    /\ \A x \in txn[c].taken, y \in issued : ~Double(x, y)
    /\ \A d \in Clerks \ {c} : \A x \in txn[c].taken, y \in txn[d].taken : ~Double(x, y)

CodesInv == Typed /\ Locked /\ Counted /\ Returnable /\ Apart

-----------------------------------------------------------------------------
(* The key of a code is the key of its counter. *)
LEMMA KeyOfCode ==
  ASSUME NEW x \in Code
  PROVE  KeyOf(x) \in Keys /\ x.seq \in Nat
BY DEF Code, KeyOf, Keys

(* The same code, of the same hub, is of the same counter. *)
LEMMA ApartIsOnce == CodesInv => NoCodeTwice
<1> SUFFICES ASSUME CodesInv, NEW c \in Clerks, NEW x \in txn[c].taken, NEW y \in Elsewhere(c),
                    SameCode(x, y), x.hub = y.hub
             PROVE  FALSE
  BY DEF NoCodeTwice
<1>1. x \in Code
  BY DEF CodesInv, Typed, Txn
<1>2. x = y
  BY <1>1 DEF SameCode, Code
<1> QED
  BY <1>2 DEF CodesInv, Apart, Elsewhere, Double

(* In the beginning nothing is drawn. *)
LEMMA CodesInit == Init => CodesInv
<1> SUFFICES ASSUME Init PROVE CodesInv
  OBVIOUS
<1> USE DEF Init, NoTxn
<1>1. NoTxn \in Txn
  <2>1. <<>> \in Seq(Keys)
    OBVIOUS
  <2> QED
    BY <2>1 DEF Txn
<1>2. Typed
  <2>1. hub \in [Hubs -> [prefix : Prefixes \cup {NoPrefix}, active : BOOLEAN]]
    OBVIOUS
  <2> QED
    BY <1>1, <2>1, CodesBoundsAssumption DEF Typed
<1>3. Locked
  BY CodesAssumption DEF Locked
<1>4. Counted /\ Returnable /\ Apart
  BY DEF Counted, Returnable, Apart
<1> QED
  BY <1>2, <1>3, <1>4 DEF CodesInv

(* A key of this month is a key. *)
LEMMA KeyType ==
  ASSUME Typed, NEW h \in Hubs, NEW i \in Initials
  PROVE  Key(h, i) \in Keys /\ Key(h, "INV") \in Keys
BY DEF Typed, Key, Keys, Series

(* A request that begins has drawn nothing yet. *)
LEMMA BeginStep ==
  ASSUME CodesInv, NEW c \in Clerks, NEW office \in BOOLEAN, NEW keys \in Seq(Keys),
         Begin(c, office, keys)
  PROVE  CodesInv'
<1> DEFINE t == [NoTxn EXCEPT !.open = TRUE, !.office = office, !.needs = keys]
<1>1. /\ t \in Txn /\ t.held = {} /\ t.taken = {} /\ t.open
      /\ ~txn[c].open /\ txn' = [txn EXCEPT ![c] = t]
      /\ UNCHANGED <<month, hub, counter, lock, issued>>
  BY DEF Begin, NoTxn, Txn
<1> HIDE DEF t
<1>2. txn \in [Clerks -> Txn] /\ txn'[c] = t /\ \A d \in Clerks \ {c} : txn'[d] = txn[d]
  BY <1>1 DEF CodesInv, Typed
<1>3. \A k \in Keys : lock[k] # c
  BY <1>1 DEF CodesInv, Locked, NoTxn
<1>4. Typed'
  BY <1>1 DEF CodesInv, Typed
<1>5. Locked'
  BY <1>1, <1>2, <1>3 DEF CodesInv, Locked
<1>6. Counted'
  BY <1>1, <1>2 DEF CodesInv, Counted
<1>7. Returnable'
  BY <1>1, <1>2 DEF CodesInv, Returnable
<1>8. Apart'
  BY <1>1, <1>2 DEF CodesInv, Apart
<1> QED
  BY <1>4, <1>5, <1>6, <1>7, <1>8 DEF CodesInv

(* The number drawn from a counter is new. *)
LEMMA TakeStep ==
  ASSUME CodesInv, NEW c \in Clerks, Take(c)
  PROVE  CodesInv'
<1> DEFINE k == Head(txn[c].needs)
           n == counter[k] + 1
           x == Printed(k, n)
           before == IF txn[c].office \/ lock[k] = c THEN {} ELSE {<<k, counter[k]>>}
<1>1. txn[c] \in Txn /\ k \in Keys /\ Tail(txn[c].needs) \in Seq(Keys)
  BY DEF CodesInv, Typed, Txn, Take
<1>2. n \in Nat /\ counter[k] \in Nat
  BY <1>1 DEF CodesInv, Typed
<1>3. x \in Code /\ KeyOf(x) = k /\ x.seq = n
  <2>1. HubPrefix(k.hub, k.series) \in Prefixes
    <3>1. k.hub \in Hubs /\ k.series \in Series
      BY <1>1 DEF Keys
    <3>2. Derived[k.hub][k.series] \in Prefixes
      BY <3>1, DerivedAssumption
    <3>3. hub[k.hub].prefix \in Prefixes \cup {NoPrefix}
      BY <3>1 DEF CodesInv, Typed
    <3> QED
      BY <3>2, <3>3 DEF HubPrefix
  <2> QED
    BY <1>1, <1>2, <2>1 DEF Code, KeyOf, Keys, Printed
<1>5. /\ txn[c].open /\ lock[k] \in {NoClerk, c}
      /\ counter' = [counter EXCEPT ![k] = n]
      /\ lock' = IF txn[c].office THEN lock ELSE [lock EXCEPT ![k] = c]
      /\ txn' = [txn EXCEPT ![c].needs = Tail(@), ![c].taken = @ \cup {x},
                            ![c].held = IF txn[c].office \/ lock[k] = c THEN @ ELSE @ \cup {<<k, counter[k]>>}]
      /\ UNCHANGED <<month, hub, issued>>
  BY DEF Take, Free
<1> HIDE DEF k, n, x
<1>6. /\ txn'[c].open
      /\ txn'[c].office = txn[c].office
      /\ txn'[c].needs = Tail(txn[c].needs)
      /\ txn'[c].taken = txn[c].taken \cup {x}
      /\ txn'[c].held = txn[c].held \cup before
      /\ \A d \in Clerks \ {c} : txn'[d] = txn[d]
  BY <1>1, <1>5 DEF CodesInv, Typed, Txn
<1>7. /\ before \in SUBSET {<<k, counter[k]>>}
      /\ \A j \in Keys \ {k} : counter'[j] = counter[j] /\ lock'[j] = lock[j]
      /\ counter'[k] = n /\ n = counter[k] + 1
      /\ \A j \in Keys : counter[j] <= counter'[j]
  BY <1>1, <1>2, <1>5 DEF CodesInv, Typed, n
<1>8. lock'[k] = c \/ txn[c].office
  BY <1>1, <1>5 DEF CodesInv, Typed
<1>9. \A d \in Clerks : \A e \in txn[d].held : e[1] \in Keys /\ e[2] \in Nat /\ e = <<e[1], e[2]>>
  BY DEF CodesInv, Typed, Txn
<1>10. \A d \in Clerks : txn[d].taken \in SUBSET Code
  BY DEF CodesInv, Typed, Txn
(* Every code drawn so far is behind the counter, and so is not x. *)
<1>11. /\ \A y \in issued : ~Double(x, y)
       /\ \A d \in Clerks : \A y \in txn[d].taken : ~Double(x, y)
  <2>1. ~(x.seq <= counter[k])
    BY <1>2, <1>3, <1>7
  <2> QED
    BY <1>3, <2>1 DEF CodesInv, Counted, Double
<1>12. Typed'
  <2>1. txn[c].held \cup before \in SUBSET (Keys \X Nat)
    BY <1>1, <1>2 DEF Txn
  <2>2. txn'[c] \in Txn
    BY <1>1, <1>3, <1>5, <2>1 DEF CodesInv, Typed, Txn
  <2> QED
    BY <1>1, <1>2, <1>5, <2>2 DEF CodesInv, Typed
<1>13. Locked'
  <2>1. ASSUME NEW d \in Clerks, ~txn'[d].open
        PROVE  txn'[d] = NoTxn
    BY <1>6, <2>1 DEF CodesInv, Locked
  <2>2. ASSUME NEW d \in Clerks, NEW j \in Keys, lock'[j] = d
        PROVE  \E e \in txn'[d].held : e[1] = j
    <3>1. CASE j = k /\ lock[k] # c /\ ~txn[c].office
      <4>1. d = c /\ <<k, counter[k]>> \in txn'[c].held
        BY <1>1, <1>5, <1>6, <2>2, <3>1 DEF CodesInv, Typed
      <4> QED
        BY <4>1, <3>1
    <3>2. CASE ~(j = k /\ lock[k] # c /\ ~txn[c].office)
      <4>1. lock[j] = d
        BY <1>1, <1>5, <2>2, <3>2 DEF CodesInv, Typed
      <4>2. \E e \in txn[d].held : e[1] = j
        BY <4>1 DEF CodesInv, Locked
      <4> QED
        BY <4>2, <1>6
    <3> QED
      BY <3>1, <3>2
  <2>3. ASSUME NEW d \in Clerks, NEW e \in txn'[d].held
        PROVE  lock'[e[1]] = d
    <3>1. CASE e \in txn[d].held
      <4>1. lock[e[1]] = d /\ e[1] \in Keys
        BY <1>9, <3>1 DEF CodesInv, Locked
      <4>2. CASE e[1] = k
        BY <1>1, <1>5, <4>1, <4>2, CodesAssumption DEF CodesInv, Typed
      <4>3. CASE e[1] # k
        BY <1>7, <4>1, <4>3
      <4> QED
        BY <4>2, <4>3
    <3>2. CASE e \notin txn[d].held
      <4>1. d = c /\ e = <<k, counter[k]>> /\ ~txn[c].office
        BY <1>6, <2>3, <3>2
      <4> QED
        BY <4>1, <1>8
    <3> QED
      BY <3>1, <3>2
  <2> QED
    BY <2>1, <2>2, <2>3 DEF Locked
<1>14. Counted'
  <2>1. ASSUME NEW y \in Code, y.seq <= counter[KeyOf(y)]
        PROVE  y.seq <= counter'[KeyOf(y)]
    <3>1. KeyOf(y) \in Keys /\ y.seq \in Nat
      BY KeyOfCode
    <3>2. counter[KeyOf(y)] \in Nat /\ counter'[KeyOf(y)] \in Nat
      BY <3>1, <1>12 DEF CodesInv, Typed
    <3> QED
      BY <2>1, <3>1, <3>2, <1>7
  <2>2. \A y \in issued' : y.seq <= counter'[KeyOf(y)]
    BY <1>5, <2>1 DEF CodesInv, Counted, Typed
  <2>3. x.seq <= counter'[KeyOf(x)]
    BY <1>2, <1>3, <1>7
  <2>4. ASSUME NEW d \in Clerks, NEW y \in txn'[d].taken
        PROVE  y.seq <= counter'[KeyOf(y)]
    <3>1. y = x \/ y \in txn[d].taken
      BY <1>6
    <3>2. y \in txn[d].taken => y \in Code /\ y.seq <= counter[KeyOf(y)]
      BY <1>10 DEF CodesInv, Counted
    <3> QED
      BY <3>1, <3>2, <2>1, <2>3
  <2> QED
    BY <2>2, <2>4 DEF Counted
<1>15. Returnable'
  <2> SUFFICES ASSUME NEW d \in Clerks, NEW e \in txn'[d].held
               PROVE  /\ \A y \in issued : KeyOf(y) = e[1] => y.seq <= e[2]
                      /\ \A b \in Clerks \ {d} : \A y \in txn'[b].taken : KeyOf(y) = e[1] => y.seq <= e[2]
    BY <1>5 DEF Returnable
  <2>1. CASE e \in txn[d].held
    <3>1. /\ \A y \in issued : KeyOf(y) = e[1] => y.seq <= e[2]
          /\ \A b \in Clerks \ {d} : \A y \in txn[b].taken : KeyOf(y) = e[1] => y.seq <= e[2]
      BY <2>1 DEF CodesInv, Returnable
    (* The row another request holds is not the row c draws from. *)
    <3>2. d # c => e[1] # k
      <4>1. lock[e[1]] = d
        BY <2>1 DEF CodesInv, Locked
      <4> QED
        BY <4>1, <1>5, CodesAssumption
    <3> QED
      BY <3>1, <3>2, <1>3, <1>6
  <2>2. CASE e \notin txn[d].held
    <3>1. d = c /\ e[1] = k /\ e[2] = counter[k]
      BY <1>6, <2>2
    <3> QED
      BY <3>1, <1>6 DEF CodesInv, Counted
  <2> QED
    BY <2>1, <2>2
<1>16. Apart'
  <2>1. /\ \A b, d \in Clerks : b # d => \A y \in txn[b].taken, z \in txn[d].taken : ~Double(y, z)
        /\ \A b \in Clerks : \A y \in txn[b].taken, z \in issued : ~Double(y, z)
    BY DEF CodesInv, Apart
  <2>2. \A y, z : Double(y, z) = Double(z, y)
    BY DEF Double
  <2>3. ASSUME NEW b \in Clerks, NEW d \in Clerks \ {b}, NEW y \in txn'[b].taken, NEW z \in txn'[d].taken
        PROVE  ~Double(y, z)
    <3>1. CASE b = c /\ y = x
      BY <1>6, <1>11, <3>1
    <3>2. CASE d = c /\ z = x
      BY <1>6, <1>11, <2>2, <3>2
    <3>3. CASE ~(b = c /\ y = x) /\ ~(d = c /\ z = x)
      <4>1. y \in txn[b].taken /\ z \in txn[d].taken
        BY <1>6, <3>3
      <4> QED
        BY <4>1, <2>1
    <3> QED
      BY <3>1, <3>2, <3>3
  <2>4. ASSUME NEW b \in Clerks, NEW y \in txn'[b].taken, NEW z \in issued
        PROVE  ~Double(y, z)
    <3>1. y = x \/ y \in txn[b].taken
      BY <1>6
    <3> QED
      BY <3>1, <1>11, <2>1
  <2>5. issued' = issued
    BY <1>5
  <2> QED
    BY <2>3, <2>4, <2>5 DEF Apart, Double, KeyOf
<1> QED
  BY <1>12, <1>13, <1>14, <1>15, <1>16 DEF CodesInv

(* A request that ends forgets its rows and locks. *)
LEMMA EndedTyped ==
  ASSUME CodesInv, NEW c \in Clerks,
         lock' = Unlocked(c), txn' = [txn EXCEPT ![c] = NoTxn],
         counter' \in [Keys -> Nat], issued' \in SUBSET Code, UNCHANGED <<month, hub>>
  PROVE  /\ Typed' /\ Locked'
         /\ txn'[c].taken = {} /\ txn'[c].held = {}
         /\ \A d \in Clerks \ {c} : txn'[d] = txn[d]
<1>1. NoTxn \in Txn /\ NoTxn.taken = {} /\ NoTxn.held = {}
  <2>1. <<>> \in Seq(Keys)
    OBVIOUS
  <2> QED
    BY <2>1 DEF Txn, NoTxn
<1>2. txn'[c] = NoTxn /\ \A d \in Clerks \ {c} : txn'[d] = txn[d]
  BY DEF CodesInv, Typed
<1>3. Unlocked(c) \in [Keys -> Clerks \cup {NoClerk}]
  BY DEF CodesInv, Typed, Unlocked
<1>4. Typed'
  BY <1>1, <1>3 DEF CodesInv, Typed
<1>5. \A k \in Keys : lock'[k] # c /\ \A d \in Clerks \ {c} : lock'[k] = d <=> lock[k] = d
  BY CodesAssumption DEF Unlocked
<1>6. \A d \in Clerks : \A e \in txn[d].held : e[1] \in Keys
  BY DEF CodesInv, Typed, Txn
<1>7. Locked'
  BY <1>1, <1>2, <1>5, <1>6 DEF CodesInv, Locked
<1> QED
  BY <1>1, <1>2, <1>4, <1>7

(* What a request saves was nobody else's. *)
LEMMA CommitStep ==
  ASSUME CodesInv, NEW c \in Clerks, Commit(c)
  PROVE  CodesInv'
<1>1. /\ issued' = issued \cup txn[c].taken
      /\ lock' = Unlocked(c) /\ txn' = [txn EXCEPT ![c] = NoTxn]
      /\ UNCHANGED <<month, hub, counter>>
  BY DEF Commit
<1>2. counter' \in [Keys -> Nat] /\ issued' \in SUBSET Code
  BY <1>1 DEF CodesInv, Typed, Txn
<1>3. /\ Typed' /\ Locked'
      /\ txn'[c].taken = {} /\ txn'[c].held = {}
      /\ \A d \in Clerks \ {c} : txn'[d] = txn[d]
  BY <1>1, <1>2, EndedTyped
<1>4. Counted'
  BY <1>1, <1>3 DEF CodesInv, Counted
<1>5. Returnable'
  BY <1>1, <1>3 DEF CodesInv, Returnable
<1>6. Apart'
  BY <1>1, <1>3 DEF CodesInv, Apart
<1> QED
  BY <1>3, <1>4, <1>5, <1>6 DEF CodesInv

(* A counter that is put back stays ahead of every code that survives. *)
LEMMA RollbackStep ==
  ASSUME CodesInv, NEW c \in Clerks, Rollback(c)
  PROVE  CodesInv'
<1>1. /\ counter' = Returned(c)
      /\ lock' = Unlocked(c) /\ txn' = [txn EXCEPT ![c] = NoTxn]
      /\ UNCHANGED <<month, hub, issued>>
  BY DEF Rollback
<1>2. ASSUME NEW k \in Keys, lock[k] = c
      PROVE  \E e \in txn[c].held : e[1] = k /\ e[2] = Before(c, k)
  BY <1>2 DEF CodesInv, Locked, Before
<1>3. \A e \in txn[c].held : e[2] \in Nat
  BY DEF CodesInv, Typed, Txn
<1>4. counter' \in [Keys -> Nat]
  <2>1. \A k \in Keys : lock[k] = c => Before(c, k) \in Nat
    BY <1>2, <1>3
  <2> QED
    BY <1>1, <2>1 DEF Returned, CodesInv, Typed
<1>5. issued' \in SUBSET Code
  BY <1>1 DEF CodesInv, Typed
<1>6. /\ Typed' /\ Locked'
      /\ txn'[c].taken = {} /\ txn'[c].held = {}
      /\ \A d \in Clerks \ {c} : txn'[d] = txn[d]
  BY <1>1, <1>4, <1>5, EndedTyped
<1>7. ASSUME NEW x \in Code, x \in issued \/ \E d \in Clerks \ {c} : x \in txn[d].taken
      PROVE  x.seq <= counter'[KeyOf(x)]
  <2>1. KeyOf(x) \in Keys
    BY KeyOfCode
  <2>2. CASE lock[KeyOf(x)] = c
    <3>1. PICK e \in txn[c].held : e[1] = KeyOf(x) /\ e[2] = Before(c, KeyOf(x))
      BY <1>2, <2>1, <2>2
    <3>2. x.seq <= e[2]
      BY <1>7, <3>1 DEF CodesInv, Returnable
    <3> QED
      BY <1>1, <2>1, <2>2, <3>1, <3>2 DEF Returned
  <2>3. CASE lock[KeyOf(x)] # c
    <3>1. counter'[KeyOf(x)] = counter[KeyOf(x)]
      BY <1>1, <2>1, <2>3 DEF Returned
    <3> QED
      BY <1>7, <3>1 DEF CodesInv, Counted
  <2> QED
    BY <2>2, <2>3
<1>8. issued \in SUBSET Code /\ \A d \in Clerks : txn[d].taken \in SUBSET Code
  BY DEF CodesInv, Typed, Txn
<1>9. Counted'
  BY <1>1, <1>6, <1>7, <1>8 DEF Counted
<1>10. Returnable'
  BY <1>1, <1>6 DEF CodesInv, Returnable
<1>11. Apart'
  BY <1>1, <1>6 DEF CodesInv, Apart
<1> QED
  BY <1>6, <1>9, <1>10, <1>11 DEF CodesInv

(* The next month has counters of its own, that start where nothing is.     *)
LEMMA MonthStep ==
  ASSUME CodesInv, NextMonth
  PROVE  CodesInv'
<1>1. month' \in 1 .. MaxMonth /\ UNCHANGED <<hub, counter, lock, txn, issued>>
  BY CodesBoundsAssumption DEF CodesInv, Typed, NextMonth
<1> QED
  BY <1>1 DEF CodesInv, Typed, Locked, Counted, Returnable, Apart, Keys

(* A hub that is closed or opened keeps its prefix and its counters. *)
LEMMA ToggleStep ==
  ASSUME CodesInv, NEW h \in Hubs, ToggleActive(h)
  PROVE  CodesInv'
<1>1. /\ hub' = [hub EXCEPT ![h].active = ~@]
      /\ UNCHANGED <<month, counter, lock, txn, issued>>
  BY DEF ToggleActive
<1>2. hub' \in [Hubs -> [prefix : Prefixes \cup {NoPrefix}, active : BOOLEAN]]
  BY <1>1 DEF CodesInv, Typed
<1>3. Typed'
  BY <1>1, <1>2 DEF CodesInv, Typed
<1> QED
  BY <1>1, <1>3 DEF CodesInv, Locked, Counted, Returnable, Apart

(* Nor does an edited prefix change what was printed or counted. *)
LEMMA SetPrefixStep ==
  ASSUME CodesInv, NEW h \in Hubs, NEW p \in Prefixes \cup {NoPrefix}, SetPrefix(h, p)
  PROVE  CodesInv'
<1>1. /\ hub' = [hub EXCEPT ![h].prefix = p]
      /\ UNCHANGED <<month, counter, lock, txn, issued>>
  BY DEF SetPrefix
<1>2. hub' \in [Hubs -> [prefix : Prefixes \cup {NoPrefix}, active : BOOLEAN]]
  BY <1>1 DEF CodesInv, Typed
<1>3. Typed'
  BY <1>1, <1>2 DEF CodesInv, Typed
<1> QED
  BY <1>1, <1>3 DEF CodesInv, Locked, Counted, Returnable, Apart

-----------------------------------------------------------------------------
(* Whatever requests draw, save, fail and however the months pass, the      *)
(* invariant stays: OrderCodeService.generateOrderCode and generateInvoiceCode. *)
LEMMA CodesStep == CodesInv /\ [CodesNext]_vars => CodesInv'
<1> SUFFICES ASSUME CodesInv, [CodesNext]_vars PROVE CodesInv'
  OBVIOUS
<1>1. CASE NextMonth
  BY <1>1, MonthStep
<1>2. ASSUME NEW c \in Clerks, Request(c)
      PROVE  CodesInv'
  <2>1. ASSUME NEW h \in Hubs, NEW i \in Initials, BeginIntake(c, h, i)
        PROVE  CodesInv'
    <3>1. <<Key(h, i), Key(h, "INV")>> \in Seq(Keys)
      BY KeyType DEF CodesInv
    <3>2. Begin(c, FALSE, <<Key(h, i), Key(h, "INV")>>)
      BY <2>1 DEF BeginIntake, Intake
    <3> QED
      BY <3>1, <3>2, BeginStep
  <2>2. ASSUME NEW h \in Hubs, NEW i \in Initials, BeginBatch(c, h, i)
        PROVE  CodesInv'
    <3>1. <<Key(h, i), Key(h, i), Key(h, "INV")>> \in Seq(Keys)
      BY KeyType DEF CodesInv
    <3>2. Begin(c, FALSE, <<Key(h, i), Key(h, i), Key(h, "INV")>>)
      BY <2>2 DEF BeginBatch, BatchIntake
    <3> QED
      BY <3>1, <3>2, BeginStep
  <2>3. ASSUME NEW h \in Hubs, NEW i \in Initials, BeginReceipt(c, h, i)
        PROVE  CodesInv'
    <3>1. <<Key(h, "INV"), Key(h, i)>> \in Seq(Keys)
      BY KeyType DEF CodesInv
    <3>2. Begin(c, FALSE, <<Key(h, "INV"), Key(h, i)>>)
      BY <2>3 DEF BeginReceipt, Receipt
    <3> QED
      BY <3>1, <3>2, BeginStep
  <2>4. ASSUME NEW h \in Hubs, NEW i \in Initials, BeginOffice(c, h, i)
        PROVE  CodesInv'
    <3>1. <<Key(h, i)>> \in Seq(Keys)
      BY KeyType DEF CodesInv
    <3>2. Begin(c, TRUE, <<Key(h, i)>>)
      BY <2>4 DEF BeginOffice
    <3> QED
      BY <3>1, <3>2, BeginStep
  <2>5. ASSUME NEW h \in Hubs, BeginDispatch(c, h)
        PROVE  CodesInv'
    <3>1. <<Key(h, "INV")>> \in Seq(Keys)
      BY DEF CodesInv, Typed, Key, Keys, Series
    <3>2. Begin(c, FALSE, <<Key(h, "INV")>>)
      BY <2>5 DEF BeginDispatch, Dispatch
    <3> QED
      BY <3>1, <3>2, BeginStep
  <2> QED
    BY <1>2, <2>1, <2>2, <2>3, <2>4, <2>5 DEF Request
<1>3. ASSUME NEW c \in Clerks, Rollback(c)
      PROVE  CodesInv'
  BY <1>3, RollbackStep
<1>4. ASSUME NEW c \in Clerks, Server(c)
      PROVE  CodesInv'
  BY <1>4, TakeStep, CommitStep, RollbackStep DEF Server, Victim, Refuse
<1>5. ASSUME NEW h \in Hubs, ToggleActive(h)
      PROVE  CodesInv'
  BY <1>5, ToggleStep
<1>6. CASE UNCHANGED vars
  BY <1>6 DEF vars, CodesInv, Typed, Locked, Counted, Returnable, Apart
<1> QED
  BY <1>1, <1>2, <1>3, <1>4, <1>5, <1>6 DEF CodesNext

LEMMA AnyStep == CodesInv /\ [Next]_vars => CodesInv'
BY CodesStep, ToggleStep, SetPrefixStep DEF Next, Manage

(* No code is given to two documents of a hub, not at the same time and not *)
(* again after it was saved, for every number of hubs, operators, requests  *)
(* at once and months, whatever is rolled back, whichever hub is closed and *)
(* whichever prefix is edited in between: the upsert of OrderCodeService    *)
(* and the row lock it leaves are enough.                                   *)
THEOREM EachCodeOnce == Spec => []NoCodeTwice
<1> QED
  BY ApartIsOnce, CodesInit, AnyStep, PTL DEF Spec

(* As long as no prefix is edited, a code shows the prefix its hub prints. *)
Shown ==
  /\ \A x \in issued : x.prefix = HubPrefix(x.hub, x.series)
  /\ \A c \in Clerks : \A x \in txn[c].taken : x.prefix = HubPrefix(x.hub, x.series)
ShownInv == CodesInv /\ Shown

LEMMA ShownClash == ShownInv => OnlyNamesakesClash
<1> SUFFICES ASSUME ShownInv, NEW c \in Clerks, NEW x \in txn[c].taken, NEW y \in Elsewhere(c), SameCode(x, y)
             PROVE  HubPrefix(x.hub, x.series) = HubPrefix(y.hub, x.series)
  BY DEF OnlyNamesakesClash
<1>1. x \in Code
  BY DEF ShownInv, CodesInv, Typed, Txn
<1>2. x.prefix = y.prefix /\ x.series = y.series
  BY <1>1 DEF SameCode, Code
<1> QED
  BY <1>2 DEF ShownInv, Shown, Elsewhere

LEMMA ShownStep == ShownInv /\ [CodesNext]_vars => ShownInv'
<1> SUFFICES ASSUME ShownInv, [CodesNext]_vars PROVE ShownInv'
  OBVIOUS
<1>1. CodesInv'
  BY CodesStep DEF ShownInv
<1>2. \A s : \A h \in Hubs : HubPrefix(h, s)' = HubPrefix(h, s)
  <2>1. CASE UNCHANGED hub
    BY <2>1 DEF HubPrefix
  <2>2. ASSUME NEW g \in Hubs, ToggleActive(g) PROVE \A h \in Hubs : hub'[h].prefix = hub[h].prefix
    BY <2>2 DEF ToggleActive, ShownInv, CodesInv, Typed
  <2>3. (\E g \in Hubs : ToggleActive(g)) \/ UNCHANGED hub
    BY DEF CodesNext, NextMonth, Request, BeginIntake, BeginBatch, BeginReceipt, BeginOffice, BeginDispatch,
           Begin, Rollback, Server, Take, Commit, Victim, Refuse, vars
  <2> QED
    BY <2>1, <2>2, <2>3 DEF HubPrefix
<1>3. \A x \in issued : x.hub \in Hubs
  BY DEF ShownInv, CodesInv, Typed, Code
<1>4. \A c \in Clerks : \A x \in txn[c].taken : x.hub \in Hubs
  BY DEF ShownInv, CodesInv, Typed, Txn, Code
(* A step saves codes that were taken, and takes codes it prints. *)
<1>5. ASSUME NEW x \in issued' PROVE x \in issued \/ \E c \in Clerks : x \in txn[c].taken
  BY <1>5 DEF CodesNext, NextMonth, ToggleActive, Request, BeginIntake, BeginBatch, BeginReceipt, BeginOffice,
              BeginDispatch, Begin, Rollback, Server, Take, Commit, Victim, Refuse, vars
<1>6. ASSUME NEW c \in Clerks, NEW x \in txn'[c].taken
      PROVE  x \in txn[c].taken \/ \E k \in Keys, n \in Nat : x = Printed(k, n)
  <2>1. ASSUME NEW d \in Clerks, Take(d) PROVE x \in txn[c].taken \/ \E k \in Keys, n \in Nat : x = Printed(k, n)
    <3> DEFINE k == Head(txn[d].needs)
    <3>1. txn \in [Clerks -> Txn] /\ k \in Keys /\ counter[k] + 1 \in Nat
      <4>1. txn[d].needs \in Seq(Keys) /\ txn[d].needs # <<>>
        BY <2>1 DEF Take, ShownInv, CodesInv, Typed, Txn
      <4> QED
        BY <4>1 DEF ShownInv, CodesInv, Typed
    <3>2. txn'[c].taken = txn[c].taken \/ txn'[c].taken = txn[c].taken \cup {Printed(k, counter[k] + 1)}
      BY <2>1, <3>1 DEF Take, Txn
    <3> QED
      BY <1>6, <3>1, <3>2
  <2>2. ASSUME NEW d \in Clerks, txn' = [txn EXCEPT ![d] = NoTxn] PROVE x \in txn[c].taken
    BY <1>6, <2>2 DEF NoTxn, ShownInv, CodesInv, Typed
  <2>3. ASSUME NEW d \in Clerks, NEW office, NEW keys, Begin(d, office, keys) PROVE x \in txn[c].taken
    BY <1>6, <2>3 DEF Begin, NoTxn, ShownInv, CodesInv, Typed
  <2>4. CASE UNCHANGED txn
    BY <1>6, <2>4
  <2> QED
    BY <2>1, <2>2, <2>3, <2>4
       DEF CodesNext, NextMonth, ToggleActive, Request, BeginIntake, BeginBatch, BeginReceipt, BeginOffice,
           BeginDispatch, Rollback, Server, Commit, Victim, Refuse, vars
<1>7. \A k \in Keys, n \in Nat : LET x == Printed(k, n) IN x.hub \in Hubs /\ x.prefix = HubPrefix(x.hub, x.series)
  BY DEF Printed, Keys
<1>8. Shown'
  BY <1>2, <1>3, <1>4, <1>5, <1>6, <1>7 DEF ShownInv, Shown
<1> QED
  BY <1>1, <1>8 DEF ShownInv

LEMMA ShownInit == Init => ShownInv
<1> SUFFICES ASSUME Init PROVE Shown
  BY CodesInit DEF ShownInv
<1>1. issued = {} /\ \A c \in Clerks : txn[c].taken = {}
  BY DEF Init, NoTxn
<1> QED
  BY <1>1 DEF Shown

(* As long as no prefix is edited, two hubs give the same code only if both *)
(* print the same prefix: set by an administrator for one and derived from  *)
(* the code of the other, or derived alike from both (OrderCodeService,     *)
(* OperationalLedgerService).                                               *)
THEOREM OtherHubsOtherCodes == CodesSpec => []OnlyNamesakesClash
<1> QED
  BY ShownClash, ShownInit, ShownStep, PTL DEF CodesSpec

(* The same of the specification the run explores. *)
THEOREM CodesStayApart == SourcesSpec => []CodesDiffer
<1> DEFINE Inv == CodesInv /\ (source = "counters" => Shown)
           SourcesNext ==
             /\ \/ source = "counters" /\ CodesNext /\ FewIssued' /\ UNCHANGED <<hub, form>>
                \/ source = "managed" /\ Next /\ OneHubOnly /\ UNCHANGED form
                \/ source = "offers" /\ Form!QuietNext /\ UNCHANGED vars
             /\ UNCHANGED source
<1>1. SourcesInit => Inv
  BY ShownInit DEF SourcesInit, ShownInv
<1>2. Inv /\ [SourcesNext]_<<vars, form, source>> => Inv'
  <2> SUFFICES ASSUME Inv, [SourcesNext]_<<vars, form, source>> PROVE Inv'
    OBVIOUS
  <2>1. UNCHANGED source /\ [Next]_vars /\ (source = "counters" => [CodesNext]_vars)
    BY DEF Next
  <2> QED
    BY <2>1, AnyStep, ShownStep DEF ShownInv
<1>3. Inv => CodesDiffer
  BY ApartIsOnce, ShownClash DEF ShownInv, CodesDiffer
<1>4. SourcesSpec => SourcesInit /\ [][SourcesNext]_<<vars, form, source>>
  BY PTL DEF SourcesSpec
<1> QED
  BY <1>1, <1>2, <1>3, <1>4, PTL

-----------------------------------------------------------------------------
(* The office form. *)

(* A set of natural numbers has a least element. *)
LEMMA LeastOf ==
  ASSUME NEW T \in SUBSET Nat, T # {}
  PROVE  \E x \in T : \A y \in T : x <= y
<1> DEFINE Less == OpToRel(<, Nat)
<1>1. Less = {ss \in Nat \X Nat : ss[1] < ss[2]}
  BY Zenon DEF OpToRel
<1>2. IsWellFoundedOn(Less, Nat)
  BY NatLessThanWellFounded, Zenon
<1> HIDE DEF Less
<1>3. PICK x \in T : \A y \in T : ~(<<y, x>> \in Less)
  BY <1>2, WFMin
<1>4. ASSUME NEW y \in T PROVE x <= y
  <2>1. <<y, x>> \in Nat \X Nat /\ ~(<<y, x>> \in Less)
    BY <1>3
  <2> QED
    BY <1>1, <2>1
<1> QED
  BY <1>4

LEMMA FormSizes == \A S : Form!Cardinality(S) = Cardinality(S)
BY Zenon DEF Cardinality, Form!Cardinality

FormTables ==
  /\ orders \in [Form!Numbers -> Nat]
  /\ offer \in [Office -> [seq : Nat, tried : Nat]]
  /\ typed \in [Office -> Nat]

LEMMA TextIsNumber == ASSUME NEW n \in Nat PROVE Form!AsText(n) \in Nat
BY FormAssumption DEF Form!AsText

LEMMA RowsAhead ==
  ASSUME FormTables, NEW n
  PROVE  IsFiniteSet(Form!Ahead(n)) /\ Cardinality(Form!Ahead(n)) \in Nat
<1> DEFINE k == Form!Cardinality(Office)
<1>1. k \in Nat
  BY FormSizes, FormAssumption, FS_CardinalityType
<1>2. IsFiniteSet(Form!InUse) /\ IsFiniteSet(1 .. k)
  <2>1. IsFiniteSet(1 .. k) /\ IsFiniteSet(1 .. Numbered)
    BY <1>1, FormAssumption, FS_Interval
  <2>2. Form!InUse \subseteq 1 .. Numbered
    BY DEF Form!InUse, Form!Numbers
  <2> QED
    BY <2>1, <2>2, FS_Subset
<1>3. IsFiniteSet(Form!InUse \X (1 .. k))
  BY <1>2, FS_Product
<1>4. Form!Ahead(n) \subseteq Form!InUse \X (1 .. k)
  BY DEF Form!Ahead
<1> HIDE DEF k
<1> QED
  BY <1>3, <1>4, FS_Subset, FS_CardinalityType

(* Fewer rows come before a number later in text order. *)
LEMMA LaterIsRead ==
  ASSUME FormTables, NEW n \in Form!RowsRead, NEW m \in Form!InUse, Form!AsText(n) < Form!AsText(m)
  PROVE  m \in Form!RowsRead
<1>1. n \in Nat /\ m \in Nat
  BY DEF Form!RowsRead, Form!InUse, Form!Numbers
<1>2. \A row \in Form!InUse \X (1 .. Form!Cardinality(Office)) : row[1] \in Nat
  BY DEF Form!InUse, Form!Numbers
<1>3. Form!Ahead(m) \subseteq Form!Ahead(n)
  <2>1. ASSUME NEW row \in Form!InUse \X (1 .. Form!Cardinality(Office)), Form!AsText(row[1]) > Form!AsText(m)
        PROVE  Form!AsText(row[1]) > Form!AsText(n)
    BY <1>1, <1>2, <2>1, TextIsNumber
  <2> QED
    BY <2>1 DEF Form!Ahead
<1>4. Cardinality(Form!Ahead(m)) <= Cardinality(Form!Ahead(n))
  BY <1>3, RowsAhead, FS_Subset
<1>5. Cardinality(Form!Ahead(n)) < Limit
  BY FormSizes DEF Form!RowsRead
<1>6. Cardinality(Form!Ahead(m)) < Limit
  BY <1>4, <1>5, RowsAhead, FormAssumption
<1> QED
  BY <1>6, FormSizes DEF Form!RowsRead

(* Some row is the first in text order, so that one is read at least. *)
LEMMA SomethingIsRead ==
  ASSUME FormTables, Form!InUse # {}
  PROVE  Form!RowsRead # {}
<1> DEFINE T == {Cardinality(Form!Ahead(n)) : n \in Form!InUse}
<1>1. PICK n \in Form!InUse : \A m \in Form!InUse : Cardinality(Form!Ahead(n)) <= Cardinality(Form!Ahead(m))
  <2>1. T \in SUBSET Nat /\ T # {}
    BY RowsAhead
  <2>2. PICK x \in T : \A y \in T : x <= y
    BY <2>1, LeastOf
  <2> QED
    BY <2>2
<1>2. CASE Form!Ahead(n) = {}
  <2>1. Cardinality(Form!Ahead(n)) = 0
    BY <1>2, FS_EmptySet
  <2> QED
    BY <2>1, FormSizes, FormAssumption DEF Form!RowsRead
<1>3. ASSUME NEW row \in Form!Ahead(n) PROVE FALSE
  <2>1. row \in Form!InUse \X (1 .. Form!Cardinality(Office)) /\ Form!AsText(row[1]) > Form!AsText(n)
    BY DEF Form!Ahead
  <2>2. row[1] \in Form!InUse /\ row[1] \in Nat /\ n \in Nat
    BY <2>1 DEF Form!InUse, Form!Numbers
  <2>3. Form!Ahead(row[1]) \subseteq Form!Ahead(n) \ {row}
    <3>1. ASSUME NEW other \in Form!InUse \X (1 .. Form!Cardinality(Office)),
                 Form!AsText(other[1]) > Form!AsText(row[1])
          PROVE  Form!AsText(other[1]) > Form!AsText(n) /\ other # row
      <4>1. other[1] \in Nat
        BY DEF Form!InUse, Form!Numbers
      <4> QED
        BY <2>1, <2>2, <3>1, <4>1, TextIsNumber
    <3> QED
      BY <3>1 DEF Form!Ahead
  <2>4. /\ IsFiniteSet(Form!Ahead(n) \ {row})
        /\ Cardinality(Form!Ahead(n) \ {row}) = Cardinality(Form!Ahead(n)) - 1
    BY RowsAhead, FS_RemoveElement
  <2>5. Cardinality(Form!Ahead(row[1])) <= Cardinality(Form!Ahead(n)) - 1
    BY <2>3, <2>4, FS_Subset
  <2> QED
    BY <1>1, <2>2, <2>5, RowsAhead
<1> QED
  BY <1>2, <1>3

LEMMA LargestIs ==
  ASSUME FormTables
  PROVE  /\ Form!LargestRead \in Nat
         /\ Form!RowsRead = {} => Form!LargestRead = 0
         /\ Form!RowsRead # {} => Form!LargestRead \in Form!RowsRead
         /\ \A n \in Form!RowsRead : n <= Form!LargestRead
<1>1. CASE Form!RowsRead = {}
  BY <1>1 DEF Form!LargestRead
<1>2. CASE Form!RowsRead # {}
  <2> DEFINE T == {Numbered - n : n \in Form!RowsRead}
  <2>1. \A n \in Form!RowsRead : n \in 1 .. Numbered
    BY DEF Form!RowsRead, Form!InUse, Form!Numbers
  <2>2. T \in SUBSET Nat /\ T # {}
    BY <1>2, <2>1, FormAssumption
  <2>3. PICK x \in T : \A y \in T : x <= y
    BY <2>2, LeastOf
  <2>4. PICK n \in Form!RowsRead : x = Numbered - n
    BY <2>3
  <2>5. \A m \in Form!RowsRead : n >= m
    <3> TAKE m \in Form!RowsRead
    <3>1. Numbered - n <= Numbered - m
      BY <2>3, <2>4
    <3> QED
      BY <2>1, <3>1, FormAssumption
  <2> HIDE DEF T
  <2>6. /\ Form!LargestRead \in Form!RowsRead
        /\ \A m \in Form!RowsRead : Form!LargestRead >= m
    BY <1>2, <2>5 DEF Form!LargestRead, Form!Max
  <2> QED
    BY <1>2, <2>1, <2>6
<1> QED
  BY <1>1, <1>2

(* Below the padding the number after the largest one read is free.         *)
LEMMA FreeBelowPad ==
  ASSUME FormTables, Form!LargestRead + 1 \in Form!InUse
  PROVE  Form!LargestRead >= Pad - 1
<1> DEFINE n == Form!LargestRead
<1>1. n \in Form!RowsRead /\ n \in Nat
  BY LargestIs, SomethingIsRead
<1>2. n + 1 \notin Form!RowsRead
  <2>1. n + 1 \in Form!RowsRead => n + 1 <= n
    BY LargestIs
  <2> QED
    BY <1>1, <2>1
<1>3. ~(Form!AsText(n) < Form!AsText(n + 1))
  BY <1>1, <1>2, LaterIsRead
<1> HIDE DEF n
<1>4. n + 1 < Pad => Form!AsText(n) < Form!AsText(n + 1)
  BY <1>1, FormAssumption DEF Form!AsText
<1>5. n >= Pad - 1
  BY <1>1, <1>3, <1>4, FormAssumption
<1> QED
  BY <1>5 DEF n

(* What an offer under way has seen.                                        *)
Offered(c) ==
  /\ offer[c].tried >= 1 /\ offer[c].seq <= Numbered
  /\ offer[c].seq = Form!LargestRead + offer[c].tried
  /\ \A n \in Form!LargestRead + 1 .. offer[c].seq - 1 : n \in Form!InUse
FormOK == FormTables /\ \A c \in Office : offer[c] # Form!NoOffer => Offered(c)

LEMMA GenerateIs ==
  ASSUME FormOK, NEW c \in Office, Form!Generate(c)
  PROVE  FormOK'
<1>1. FormTables /\ Form!LargestRead \in Nat
  BY LargestIs DEF FormOK
<1>2. UNCHANGED <<orders, typed>> /\ Form!LargestRead < Numbered
  BY DEF Form!Generate
<1>3. offer' = [offer EXCEPT ![c] = [seq |-> Form!LargestRead + 1, tried |-> 1]]
  BY DEF Form!Generate
<1>4. FormTables'
  BY <1>1, <1>2, <1>3 DEF FormTables, Form!Numbers
<1>5. Form!LargestRead' = Form!LargestRead /\ Form!InUse' = Form!InUse
  BY <1>2 DEF Form!LargestRead, Form!RowsRead, Form!Ahead, Form!InUse, Form!Numbers
<1>6. ASSUME NEW d \in Office, offer'[d] # Form!NoOffer' PROVE Offered(d)'
  <2>1. CASE d = c
    <3>1. offer'[d] = [seq |-> Form!LargestRead + 1, tried |-> 1]
      BY <1>1, <1>3, <2>1 DEF FormTables
    <3> QED
      BY <1>1, <1>2, <1>5, <3>1, FormAssumption DEF Offered
  <2>2. CASE d # c
    <3>1. offer'[d] = offer[d]
      BY <1>1, <1>3, <2>2 DEF FormTables
    <3> QED
      BY <1>5, <1>6, <3>1 DEF Offered, FormOK, Form!NoOffer
  <2> QED
    BY <2>1, <2>2
<1> QED
  BY <1>4, <1>6 DEF FormOK

LEMMA SteppedPast ==
  ASSUME FormOK, NEW c \in Office, Form!Step(c)
  PROVE  FormOK'
<1>1. FormTables /\ Form!LargestRead \in Nat /\ Offered(c)
  BY LargestIs DEF FormOK, Form!Step
<1>2. UNCHANGED <<orders, typed>> /\ offer[c].seq \in Form!InUse /\ offer[c].seq < Numbered
  BY DEF Form!Step
<1>3. offer' = [offer EXCEPT ![c] = [seq |-> offer[c].seq + 1, tried |-> offer[c].tried + 1]]
  BY DEF Form!Step
<1>4. offer[c] \in [seq : Nat, tried : Nat]
  BY <1>1 DEF FormTables
<1>5. FormTables'
  BY <1>1, <1>2, <1>3, <1>4 DEF FormTables, Form!Numbers
<1>6. Form!LargestRead' = Form!LargestRead /\ Form!InUse' = Form!InUse
  BY <1>2 DEF Form!LargestRead, Form!RowsRead, Form!Ahead, Form!InUse, Form!Numbers
<1>7. ASSUME NEW d \in Office, offer'[d] # Form!NoOffer' PROVE Offered(d)'
  <2>1. CASE d = c
    <3>1. offer'[d] = [seq |-> offer[c].seq + 1, tried |-> offer[c].tried + 1]
      BY <1>1, <1>3, <2>1 DEF FormTables
    <3>2. \A n \in Form!LargestRead + 1 .. offer[c].seq : n \in Form!InUse
      BY <1>1, <1>2, <1>4 DEF Offered
    <3> QED
      BY <1>1, <1>2, <1>4, <1>6, <3>1, <3>2, FormAssumption DEF Offered
  <2>2. CASE d # c
    <3>1. offer'[d] = offer[d]
      BY <1>1, <1>3, <2>2 DEF FormTables
    <3> QED
      BY <1>6, <1>7, <3>1 DEF Offered, FormOK, Form!NoOffer
  <2> QED
    BY <2>1, <2>2
<1> QED
  BY <1>5, <1>7 DEF FormOK

LEMMA OfferIs ==
  ASSUME FormOK, NEW c \in Office, Form!Offer(c)
  PROVE  /\ FormOK'
         /\ \A d \in Office : typed'[d] # typed[d] =>
              orders[typed'[d]] = 0 \/ Form!Exhausted(typed'[d])
<1>1. FormTables /\ Form!LargestRead \in Nat /\ Offered(c)
  BY LargestIs DEF FormOK, Form!Offer
<1>2. /\ UNCHANGED orders /\ typed' = [typed EXCEPT ![c] = offer[c].seq]
      /\ offer' = [offer EXCEPT ![c] = Form!NoOffer]
      /\ offer[c].seq \notin Form!InUse \/ offer[c].tried = Attempts
  BY DEF Form!Offer
<1>3. offer[c] \in [seq : Nat, tried : Nat]
  BY <1>1 DEF FormTables
<1>4. FormTables'
  BY <1>1, <1>2, <1>3 DEF FormTables, Form!Numbers, Form!NoOffer
<1>5. Form!LargestRead' = Form!LargestRead /\ Form!InUse' = Form!InUse
  BY <1>2 DEF Form!LargestRead, Form!RowsRead, Form!Ahead, Form!InUse, Form!Numbers
<1>6. ASSUME NEW d \in Office, offer'[d] # Form!NoOffer' PROVE Offered(d)'
  <2>1. offer'[d] = offer[d] /\ offer[d] # Form!NoOffer
    BY <1>1, <1>2, <1>6 DEF FormTables, Form!NoOffer
  <2> QED
    BY <1>5, <2>1 DEF Offered, FormOK
<1>7. ASSUME offer[c].seq \in Form!InUse PROVE Form!Exhausted(offer[c].seq)
  <2>1. \A n \in Form!LargestRead + 1 .. offer[c].seq : n \in Form!InUse
    BY <1>1, <1>3, <1>7 DEF Offered
  <2>2. offer[c].seq = Form!LargestRead + Attempts
    BY <1>1, <1>2, <1>7 DEF Offered
  <2>3. Form!LargestRead + 1 \in Form!InUse
    BY <1>1, <2>1, <2>2, FormAssumption
  <2>4. Form!LargestRead >= Pad - 1
    BY <1>1, <2>3, FreeBelowPad
  <2> QED
    BY <1>1, <2>1, <2>2, <2>4, FormAssumption DEF Form!Exhausted
<1>8. offer[c].seq \notin Form!InUse => orders[offer[c].seq] = 0
  <2>1. offer[c].seq \in Form!Numbers
    BY <1>1, <1>3, FormAssumption DEF Offered, Form!Numbers
  <2>2. orders[offer[c].seq] \in Nat
    BY <1>1, <2>1 DEF FormTables
  <2> QED
    BY <2>1, <2>2 DEF Form!InUse
<1>9. \A d \in Office : typed'[d] # typed[d] => typed'[d] = offer[c].seq
  BY <1>1, <1>2 DEF FormTables
<1> QED
  BY <1>4, <1>6, <1>7, <1>8, <1>9 DEF FormOK

(* Orders come and go, and offers are saved, while no offer is under way.   *)
LEMMA QuietChange ==
  ASSUME FormOK, Form!Quiet,
         \/ \E c \in Office : Form!Save(c)
         \/ \E n \in Form!Numbers : Form!Import(n) \/ Form!Remove(n)
  PROVE  FormOK' /\ \A d \in Office : ~(typed'[d] > typed[d])
<1>1. FormTables /\ UNCHANGED offer
  BY DEF FormOK, Form!Save, Form!Import, Form!Remove
<1>2. orders' \in [Form!Numbers -> Nat] /\ typed' \in [Office -> Nat]
      /\ \A d \in Office : ~(typed'[d] > typed[d])
  <2>1. ASSUME NEW c \in Office, Form!Save(c)
        PROVE  /\ orders' \in [Form!Numbers -> Nat] /\ typed' \in [Office -> Nat]
               /\ \A d \in Office : ~(typed'[d] > typed[d])
    <3>1. orders' = [orders EXCEPT ![typed[c]] = @ + 1] /\ typed' = [typed EXCEPT ![c] = 0]
      BY <2>1 DEF Form!Save
    <3>2. orders' = [n \in Form!Numbers |-> IF n = typed[c] THEN orders[n] + 1 ELSE orders[n]]
      BY <1>1, <3>1 DEF FormTables
    <3>3. orders' \in [Form!Numbers -> Nat]
      <4>1. \A n \in Form!Numbers : (IF n = typed[c] THEN orders[n] + 1 ELSE orders[n]) \in Nat
        BY <1>1 DEF FormTables
      <4> QED
        BY <3>2, <4>1
    <3> QED
      BY <1>1, <3>1, <3>3 DEF FormTables
  <2>2. ASSUME NEW n \in Form!Numbers, Form!Import(n) \/ Form!Remove(n)
        PROVE  /\ orders' \in [Form!Numbers -> Nat] /\ typed' \in [Office -> Nat]
               /\ \A d \in Office : ~(typed'[d] > typed[d])
    <3>1. UNCHANGED typed /\ orders[n] \in Nat
      BY <1>1, <2>2 DEF FormTables, Form!Import, Form!Remove
    <3>2. orders' \in [Form!Numbers -> Nat]
      BY <1>1, <2>2, <3>1 DEF FormTables, Form!Import, Form!Remove
    <3> QED
      BY <1>1, <3>1, <3>2 DEF FormTables
  <2> QED
    BY <2>1, <2>2
<1> QED
  BY <1>1, <1>2 DEF FormOK, FormTables, Form!Quiet, Form!NoOffer, Form!Numbers

LEMMA FormStep ==
  ASSUME FormOK, Form!QuietNext \/ UNCHANGED form
  PROVE  FormOK' /\ Form!OffersFree
<1>1. ASSUME NEW c \in Office, Form!Generate(c) PROVE FormOK' /\ Form!OffersFree
  <2>1. typed \in [Office -> Nat] /\ UNCHANGED typed
    BY <1>1 DEF FormOK, FormTables, Form!Generate
  <2> QED
    BY <1>1, <2>1, GenerateIs DEF Form!OffersFree
<1>2. ASSUME NEW c \in Office, Form!Step(c) PROVE FormOK' /\ Form!OffersFree
  <2>1. typed \in [Office -> Nat] /\ UNCHANGED typed
    BY <1>2 DEF FormOK, FormTables, Form!Step
  <2> QED
    BY <1>2, <2>1, SteppedPast DEF Form!OffersFree
<1>3. ASSUME NEW c \in Office, Form!Offer(c) PROVE FormOK' /\ Form!OffersFree
  BY <1>3, OfferIs DEF FormOK, FormTables, Form!OffersFree
<1>4. CASE Form!Quiet /\ (\/ \E c \in Office : Form!Save(c)
                          \/ \E n \in Form!Numbers : Form!Import(n) \/ Form!Remove(n))
  BY <1>4, QuietChange DEF Form!OffersFree
<1>5. CASE UNCHANGED form
  <2>1. UNCHANGED <<orders, offer, typed>>
    BY <1>5 DEF form
  <2>2. Form!OffersFree
    BY <2>1 DEF Form!OffersFree, FormOK, FormTables
  <2> QED
    BY <2>1, <2>2 DEF FormOK, FormTables, Offered, Form!LargestRead, Form!RowsRead, Form!Ahead,
                      Form!InUse, Form!Numbers, Form!NoOffer
<1> QED
  BY <1>1, <1>2, <1>3, <1>4, <1>5 DEF Form!QuietNext

(* A number the office form offers (OrdersService.generateOrderCode) is not *)
(* in use at that moment, however many were typed, imported and removed     *)
(* before, with one exception: past the padding (three digits) the last of  *)
(* the numbers the loop tries (twenty) is offered though all are in use.    *)
THEOREM OffersStayFree == SourcesSpec => OfferIsFree
<1> DEFINE SourcesNext ==
      /\ \/ source = "counters" /\ CodesNext /\ FewIssued' /\ UNCHANGED <<hub, form>>
         \/ source = "managed" /\ Next /\ OneHubOnly /\ UNCHANGED form
         \/ source = "offers" /\ Form!QuietNext /\ UNCHANGED vars
      /\ UNCHANGED source
<1>1. SourcesInit => FormOK
  BY DEF SourcesInit, Form!Init, FormOK, FormTables, Form!NoOffer
<1>2. FormOK /\ [SourcesNext]_<<vars, form, source>> => FormOK' /\ [Form!OffersFree]_form
  <2> SUFFICES ASSUME FormOK, [SourcesNext]_<<vars, form, source>>
               PROVE  FormOK' /\ Form!OffersFree
    OBVIOUS
  <2>1. Form!QuietNext \/ UNCHANGED form
    OBVIOUS
  <2> QED
    BY <2>1, FormStep
<1>3. SourcesSpec => SourcesInit /\ [][SourcesNext]_<<vars, form, source>>
  BY PTL DEF SourcesSpec
<1> QED
  BY <1>1, <1>2, <1>3, PTL DEF OfferIsFree
=============================================================================
