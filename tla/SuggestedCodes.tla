--------------------------- MODULE SuggestedCodes ---------------------------
(***************************************************************************)
(* The code an office clerk is offered for a new order                      *)
(* (OrdersService.generateOrderCode): one more than the largest number in   *)
(* use under the same prefix and month.  The codes are read as text, in     *)
(* descending order and only the first of them; the offer is then stepped   *)
(* past codes that exist.  Saving does not look at codes at all.            *)
(***************************************************************************)
EXTENDS Naturals, FiniteSets, FiniteSetsExt

CONSTANTS
  Clerks,
  MaxSeq,      \* bound on a number, of one digit more than the padding at most
  Pad,         \* numbers below it are padded to one length (code: 1000)
  Limit,       \* how many codes are read (code: 100)
  Attempts     \* how often the offer is stepped (code: 20)

VARIABLES
  orders,    \* how many live orders have each number
  offer,     \* what each clerk is being offered: the candidate and the steps made
  typed      \* the number in each clerk's form

vars == <<orders, offer, typed>>

Numbers == 1 .. MaxSeq
InUse == {n \in Numbers : orders[n] > 0}
NoOffer == [seq |-> 0, tried |-> 0]

Init ==
  /\ orders = [n \in Numbers |-> 0]
  /\ offer = [c \in Clerks |-> NoOffer]
  /\ typed = [c \in Clerks |-> 0]

(* The place of a number in text order: one digit more than Pad allows      *)
(* comes right after the number made of its other digits.                   *)
AsText(n) == IF n < Pad THEN 11 * n ELSE 11 * (n \div 10) + (n % 10) + 1

(* The rows read: the last Limit of them in text order.  Orders may share a *)
(* number.                                                                  *)
Ahead(n) ==
  {row \in InUse \X (1 .. Cardinality(Clerks)) : AsText(row[1]) > AsText(n) /\ row[2] <= orders[row[1]]}
RowsRead == {n \in InUse : Cardinality(Ahead(n)) < Limit}

CountOfRows == Cardinality(RowsRead)   \* mutant: the rows are counted
LargestRead ==
  IF RowsRead = {} THEN 0 ELSE Max(RowsRead)

Generate(c) ==
  /\ offer[c] = NoOffer /\ typed[c] = 0
  /\ LargestRead < MaxSeq
  /\ offer' = [offer EXCEPT ![c] = [seq |-> LargestRead + 1, tried |-> 1]]
  /\ UNCHANGED <<orders, typed>>

(* A candidate that exists is stepped past; the last one is offered anyway. *)
Step(c) ==
  /\ offer[c] # NoOffer
  /\ offer[c].seq \in InUse /\ offer[c].tried < Attempts /\ offer[c].seq < MaxSeq
  /\ offer' = [offer EXCEPT ![c] = [seq |-> @.seq + 1, tried |-> @.tried + 1]]
  /\ UNCHANGED <<orders, typed>>

Offer(c) ==
  /\ offer[c] # NoOffer
  /\ offer[c].seq \notin InUse \/ offer[c].tried = Attempts
  /\ typed' = [typed EXCEPT ![c] = offer[c].seq]
  /\ offer' = [offer EXCEPT ![c] = NoOffer]
  /\ UNCHANGED orders

(* The code is saved as typed: checkCodeExists answers no to every code. *)
Save(c) ==
  /\ typed[c] # 0 /\ orders[typed[c]] < Cardinality(Clerks)
  /\ orders' = [orders EXCEPT ![typed[c]] = @ + 1]
  /\ typed' = [typed EXCEPT ![c] = 0]
  /\ UNCHANGED offer

(* Codes come in from elsewhere too, and go when their order is removed. *)
Import(n) == orders[n] = 0 /\ orders' = [orders EXCEPT ![n] = 1] /\ UNCHANGED <<offer, typed>>
Remove(n) == orders[n] > 0 /\ orders' = [orders EXCEPT ![n] = @ - 1] /\ UNCHANGED <<offer, typed>>

Next ==
  \/ \E c \in Clerks : Generate(c) \/ Step(c) \/ Offer(c) \/ Save(c)
  \/ \E n \in Numbers : Import(n) \/ Remove(n)
Spec == Init /\ [][Next]_vars

(* The same, with no order coming or going while an offer is computed. *)
Quiet == \A c \in Clerks : offer[c] = NoOffer
QuietNext ==
  \/ \E c \in Clerks : (Quiet /\ (Generate(c) \/ Save(c))) \/ Step(c) \/ Offer(c)
  \/ Quiet /\ \E n \in Numbers : Import(n) \/ Remove(n)
QuietSpec == Init /\ [][QuietNext]_vars

(* Clerks who save only what they were offered. *)
DeskNext == \E c \in Clerks : Generate(c) \/ Step(c) \/ Offer(c) \/ Save(c)
DeskSpec == Init /\ [][DeskNext]_vars

-----------------------------------------------------------------------------
(* Past the padding a number may be larger than those read; when as many    *)
(* follow it as the loop has rounds, the last of them is offered.           *)
Exhausted(n) ==
  /\ n >= Pad + Attempts - 1
  /\ (n - Attempts + 1) .. n \subseteq InUse

(* A number that is offered is not in use at that moment, unless the loop   *)
(* ran out.                                                                 *)
OffersFree == \A c \in Clerks : typed'[c] > typed[c] => orders[typed'[c]] = 0 \/ Exhausted(typed'[c])
OfferIsFree == [][OffersFree]_vars

(* orders.service.ts:922 "Query DB tìm số thứ tự (seq) lớn nhất đang có →   *)
(* suggest maxSeq+1": the offer starts above every number in use.           *)
OfferIsNext ==
  [][\A c \in Clerks : offer[c] = NoOffer /\ offer'[c] # NoOffer =>
       \A n \in InUse : n < offer'[c].seq]_vars

(* orders.service.ts:923 "Loop tối đa 20 lần để tránh race condition" (at   *)
(* most 20 rounds to avoid a race): orders saved under numbers that were    *)
(* offered have numbers of their own.                                       *)
OffersDiffer == \A n \in Numbers : orders[n] <= 1
=============================================================================
