--------------------------- MODULE MCCodeCounters ---------------------------
(***************************************************************************)
(* Codes drawn from the counters of two hubs by two requests, over the end  *)
(* of a month or while the prefix and the state of a hub are edited; and,   *)
(* beside them, the codes an office clerk is offered.                       *)
(***************************************************************************)
EXTENDS CodeCounters, TLC

CONSTANTS
  hubA, hubB, own, alike, op, c1, c2,
  Office,     \* clerks of the office
  Numbered,   \* bound on the numbers of its orders
  Pad, Limit, Attempts

TwoHubs == {hubA, hubB}
TwoPrefixes == {own, alike}
DerivedAlike == [h \in TwoHubs |-> [s \in {op, "INV"} |-> alike]]
OneName == {op}
TwoClerks == {c1, c2}
OneClerk == {c1}

ASSUME FormAssumption == IsFiniteSet(Office) /\ {Numbered, Pad, Limit, Attempts} \subseteq Nat \ {0} /\ Numbered < 10 * Pad

VARIABLES source, orders, offer, typed

Form == INSTANCE SuggestedCodes WITH Clerks <- Office, MaxSeq <- Numbered
form == <<orders, offer, typed>>

(* Bounds of the counters: two documents; of the second hub one order, and  *)
(* in the first month.                                                      *)
FewIssued ==
  /\ Cardinality(issued) <= 2
  /\ \A k \in Keys : k.month = 2 => counter[k] <= 2
  /\ \A k \in Keys : k.hub = hubB => counter[k] <= IF month = 1 THEN 1 ELSE 0
  /\ \A c \in Clerks : \A n \in DOMAIN txn[c].needs : txn[c].needs[n].hub = hubB => txn[c].office

Unset == \A h \in Hubs : hub[h].prefix = NoPrefix

(* Bounds of the managed requests: one month, and one of the hubs. *)
OneHubOnly ==
  /\ month' = 1 /\ hub'[hubB] = hub[hubB]
  /\ \A c \in Clerks : \A n \in DOMAIN txn'[c].needs : txn'[c].needs[n].hub = hubA

SourcesInit ==
  /\ Init /\ Form!Init
  /\ source \in {"counters", "managed", "offers"}
  /\ hub[hubB].prefix = NoPrefix
  /\ source # "counters" => Unset
SourcesSpec ==
  /\ SourcesInit
  /\ [][/\ \/ source = "counters" /\ CodesNext /\ FewIssued' /\ UNCHANGED <<hub, form>>
           \/ source = "managed" /\ Next /\ OneHubOnly /\ UNCHANGED form
           \/ source = "offers" /\ Form!QuietNext /\ UNCHANGED vars
        /\ UNCHANGED source]_<<vars, form, source>>
  /\ Fairness

-----------------------------------------------------------------------------
(* No two documents carry the same code: never two of one hub, whatever is  *)
(* rolled back or edited in between, and two of different hubs only if both *)
(* print the same prefix (OrderCodeService, OperationalLedgerService).      *)
CodesDiffer == NoCodeTwice /\ (source = "counters" => OnlyNamesakesClash)

(* A request that has begun ends: saved, rolled back, refused because its   *)
(* hub was closed, or cancelled by the database, and is never stuck behind  *)
(* another one or behind itself.                                            *)
ManagedRequestsEnd == source = "managed" => EveryRequestEnds

(* A number the office form offers is not in use at that moment, however    *)
(* many codes were typed, imported and removed before; but past the padding *)
(* and a full round of the loop, where all the numbers tried are in use.    *)
OfferIsFree == [][Form!OffersFree]_form
=============================================================================
