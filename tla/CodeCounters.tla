---------------------------- MODULE CodeCounters ----------------------------
(***************************************************************************)
(* Order codes and invoice codes (src/orders/order-code.service,            *)
(* src/orders/operational-ledger.service): one counter per hub, series and  *)
(* month, bumped by an upsert.                                              *)
(*                                                                          *)
(* The warehouse bumps counters inside the transaction of its handler: the  *)
(* row stays locked until the end and goes back if the handler fails.  The  *)
(* office bumps its counter in a statement of its own.  A handler may need  *)
(* several counters, and not all handlers take them in the same order.      *)
(***************************************************************************)
EXTENDS Naturals, Sequences, FiniteSets

CONSTANTS
  Hubs,           \* one may stand for headquarters (invoices of no hub)
  Prefixes,       \* what may be printed before a code, or set as a hub's prefix
  Derived,        \* the prefix derived from each hub's code, for each series
  NoPrefix,       \* none set: the derived prefix is printed
  Initials,       \* of operators; "OP" when the name has no letters
  Clerks,         \* requests the server runs at the same time
  NoClerk,
  MaxMonth,       \* bound on the months that pass
  MaxSeq          \* bound on a counter

ASSUME CodesAssumption == "INV" \notin Initials /\ NoPrefix \notin Prefixes /\ NoClerk \notin Clerks
ASSUME CodesBoundsAssumption == MaxMonth \in Nat \ {0} /\ MaxSeq \in Nat

VARIABLES
  month,
  hub,       \* the prefix set for each hub, and whether it is active
  counter,   \* order_code_counter: lastSequence
  lock,      \* which transaction holds a counter's row
  txn,       \* the codes a request has taken, those it still needs
  issued     \* the codes that have been saved

vars == <<month, hub, counter, lock, txn, issued>>

(* Invoices use a series of their own: initials never contain its name. *)
Series == Initials \cup {"INV"}
ASSUME DerivedAssumption == Derived \in [Hubs -> [Series -> Prefixes]]

Keys == [hub : Hubs, series : Series, month : 1 .. MaxMonth]
Key(h, s) == [hub |-> h, series |-> s, month |-> month]

(* The prefix printed on a code: the hub's own, or the derived one, for     *)
(* which HUB-, -01 and the dashes of the hub's code are dropped: hubs whose *)
(* codes differ (HUB-X and HUB-X-01) may share it.  Orders and invoices     *)
(* derive it each in its own way.                                           *)
HubPrefix(h, s) == IF hub[h].prefix = NoPrefix THEN Derived[h][s] ELSE hub[h].prefix

(* A code, with the hub it was drawn for (not printed). *)
Printed(k, seq) == [hub |-> k.hub, prefix |-> HubPrefix(k.hub, k.series),
                    series |-> k.series, month |-> k.month, seq |-> seq]
SameCode(x, y) == [x EXCEPT !.hub = y.hub] = y

NoTxn == [open |-> FALSE, office |-> FALSE, needs |-> <<>>, taken |-> {}, held |-> {}]

Init ==
  /\ month = 1
  /\ hub \in [Hubs -> [prefix : Prefixes \cup {NoPrefix}, active : {TRUE}]]
  /\ \A g, h \in Hubs : g # h /\ hub[g].prefix = hub[h].prefix => hub[g].prefix = NoPrefix
  /\ counter = [k \in Keys |-> 0]
  /\ lock = [k \in Keys |-> NoClerk]
  /\ txn = [c \in Clerks |-> NoTxn]
  /\ issued = {}

-----------------------------------------------------------------------------
(* The counters a handler takes, in its order.  quickCreateInbound: the     *)
(* order's code, then the receipt's.  batchCreateInbound: the codes of its  *)
(* orders, then the receipt's.  confirmInbound: the receipt's at the first  *)
(* parcel it knows, an order's at a parcel added on the road.               *)
Intake(h, i) == <<Key(h, i), Key(h, "INV")>>
BatchIntake(h, i) == <<Key(h, i), Key(h, i), Key(h, "INV")>>
Receipt(h, i) == <<Key(h, "INV"), Key(h, i)>>
Dispatch(h) == <<Key(h, "INV")>>

(* Bound: no request starts that could need more numbers than there are. *)
Times(keys, k) == Cardinality({n \in DOMAIN keys : keys[n] = k})
Asked(k) == {w \in Clerks \X (1 .. 3) : w[2] \in DOMAIN txn[w[1]].needs /\ txn[w[1]].needs[w[2]] = k}
Affordable(keys) == \A k \in Keys : counter[k] + Cardinality(Asked(k)) + Times(keys, k) <= MaxSeq

Begin(c, office, keys) ==
  /\ ~txn[c].open /\ Affordable(keys)
  /\ txn' = [txn EXCEPT ![c] = [NoTxn EXCEPT !.open = TRUE, !.office = office, !.needs = keys]]
  /\ UNCHANGED <<month, hub, counter, lock, issued>>

BeginIntake(c, h, i) == Begin(c, FALSE, Intake(h, i))
BeginBatch(c, h, i) == Begin(c, FALSE, BatchIntake(h, i))
BeginReceipt(c, h, i) == Begin(c, FALSE, Receipt(h, i))
BeginDispatch(c, h) == Begin(c, FALSE, Dispatch(h))
BeginOffice(c, h, i) == Begin(c, TRUE, <<Key(h, i)>>)

FreeOfAll(c, k) == lock[k] = NoClerk   \* mutant: a request waits for the row it holds itself
FreeAny(c, k) == TRUE                  \* mutant: the row is bumped without its lock
Free(c, k) == lock[k] \in {NoClerk, c}

(* Order codes are drawn for active hubs only; invoice codes for any hub. *)
Open(k) == k.series = "INV" \/ hub[k.hub].active

(* The upsert: the row is locked, or a new one starts at 1. *)
Take(c) ==
  LET k == Head(txn[c].needs)
      seq == counter[k] + 1
  IN
  /\ txn[c].open /\ txn[c].needs # <<>>
  /\ Open(k)
  /\ Free(c, k)
  /\ counter' = [counter EXCEPT ![k] = seq]
  /\ lock' = IF txn[c].office THEN lock ELSE [lock EXCEPT ![k] = c]
  /\ txn' = [txn EXCEPT ![c].needs = Tail(@),
                        ![c].taken = @ \cup {Printed(k, seq)},
                        ![c].held = IF txn[c].office \/ lock[k] = c THEN @ ELSE @ \cup {<<k, counter[k]>>}]
  /\ UNCHANGED <<month, hub, issued>>

Unlocked(c) == [k \in Keys |-> IF lock[k] = c THEN NoClerk ELSE lock[k]]

Commit(c) ==
  /\ txn[c].open /\ txn[c].needs = <<>>
  /\ issued' = issued \cup txn[c].taken
  /\ lock' = Unlocked(c)
  /\ txn' = [txn EXCEPT ![c] = NoTxn]
  /\ UNCHANGED <<month, hub, counter>>

(* A failing handler, or one whose hub is closed, gives its numbers back:   *)
(* the counter reads what it did before the first of them was taken.        *)
Before(c, k) == (CHOOSE e \in txn[c].held : e[1] = k)[2]
Returned(c) == [k \in Keys |-> IF lock[k] = c THEN Before(c, k) ELSE counter[k]]

Rollback(c) ==
  /\ txn[c].open
  /\ counter' = Returned(c)
  /\ lock' = Unlocked(c)
  /\ txn' = [txn EXCEPT ![c] = NoTxn]
  /\ UNCHANGED <<month, hub, issued>>

(* PostgreSQL cancels one of the transactions that wait for each other. *)
Waits(c, d) == txn[c].open /\ txn[c].needs # <<>> /\ lock[Head(txn[c].needs)] = d
Victim(c) == (\E d \in Clerks \ {c} : Waits(c, d) /\ Waits(d, c)) /\ Rollback(c)

(* An order code of a hub that was closed meanwhile is refused. *)
Refuse(c) ==
  /\ txn[c].open /\ txn[c].needs # <<>> /\ ~Open(Head(txn[c].needs))
  /\ Rollback(c)

-----------------------------------------------------------------------------
(* HubsService.update and toggleActive; a prefix is unique among the hubs. *)
SetPrefix(h, p) ==
  /\ \A g \in Hubs \ {h} : p = NoPrefix \/ hub[g].prefix # p
  /\ hub' = [hub EXCEPT ![h].prefix = p]
  /\ UNCHANGED <<month, counter, lock, txn, issued>>

ToggleActive(h) ==
  /\ hub' = [hub EXCEPT ![h].active = ~@]
  /\ UNCHANGED <<month, counter, lock, txn, issued>>

NextMonth ==
  /\ month < MaxMonth /\ month' = month + 1
  /\ UNCHANGED <<hub, counter, lock, txn, issued>>

-----------------------------------------------------------------------------
Request(c) ==
  \/ \E h \in Hubs, i \in Initials :
       BeginIntake(c, h, i) \/ BeginBatch(c, h, i) \/ BeginReceipt(c, h, i) \/ BeginOffice(c, h, i)
  \/ \E h \in Hubs : BeginDispatch(c, h)

Server(c) == Take(c) \/ Commit(c) \/ Victim(c) \/ Refuse(c)
Manage == \E h \in Hubs : ToggleActive(h) \/ \E p \in Prefixes \cup {NoPrefix} : SetPrefix(h, p)

(* As long as no administrator edits a prefix. *)
CodesNext ==
  \/ NextMonth
  \/ \E h \in Hubs : ToggleActive(h)
  \/ \E c \in Clerks : Request(c) \/ Rollback(c) \/ Server(c)
CodesSpec == Init /\ [][CodesNext]_vars

(* The server serves a request until it ends; the database grants a lock,   *)
(* again and again released, in the order of the queue, and ends deadlocks. *)
Fairness == \A c \in Clerks : SF_vars(Take(c)) /\ WF_vars(Commit(c)) /\ WF_vars(Victim(c)) /\ WF_vars(Refuse(c))
Next == Manage \/ CodesNext
Spec == Init /\ [][Next]_vars /\ Fairness

-----------------------------------------------------------------------------
(* Properties. *)

(* The tables and the transactions have the types of their columns, and a   *)
(* row is locked exactly by the transactions that have bumped it.           *)
CodesTypeOK ==
  /\ month \in 1 .. MaxMonth
  /\ hub \in [Hubs -> [prefix : Prefixes \cup {NoPrefix}, active : BOOLEAN]]
  /\ counter \in [Keys -> 0 .. MaxSeq]
  /\ lock \in [Keys -> Clerks \cup {NoClerk}]
  /\ \A c \in Clerks : {k \in Keys : lock[k] = c} = {e[1] : e \in txn[c].held}

(* The codes other requests have taken, and those that have been saved. *)
Elsewhere(c) == issued \cup UNION {txn[d].taken : d \in Clerks \ {c}}

(* No code is given to two documents of one hub: not to two requests at the *)
(* same time, not again after it was saved, whatever is rolled back, and    *)
(* whatever prefix is set, in between.                                      *)
NoCodeTwice ==
  \A c \in Clerks : \A x \in txn[c].taken : \A y \in Elsewhere(c) : SameCode(x, y) => x.hub # y.hub

(* Nor to documents of two hubs, as long as no prefix is edited, unless     *)
(* both hubs print the same one.                                            *)
OnlyNamesakesClash ==
  \A c \in Clerks : \A x \in txn[c].taken : \A y \in Elsewhere(c) :
    SameCode(x, y) => HubPrefix(x.hub, x.series) = HubPrefix(y.hub, x.series)

(* A request that has begun ends: saved, rolled back or cancelled by the    *)
(* database, never stuck behind another one or behind itself.               *)
EveryRequestEnds == \A c \in Clerks : txn[c].open ~> ~txn[c].open
=============================================================================
