------------------------------ MODULE MCMailQueue ------------------------------
(***************************************************************************)
(* Mails and notices.  A behaviour is one of three: the mail queue, with    *)
(* one reset mail and one other; the notices of a trip, or of any one       *)
(* event, while steps fail and the server restarts; those of several orders *)
(* at once.  There is an account of each role, and a manager without a hub. *)
(***************************************************************************)
EXTENDS MailQueue, TLC

CONSTANTS
  Users, Role, HubOf, Mailbox, Hubs, NoHub, Events,
  Single,   \* the event of a behaviour that has one
  m1, m2, j1, j2, j3, boss, office, fleet, north, roaming, hubN, hubS, e1, e2

ASSUME SingleAssumption == Single \in Events

OneReset == {m1}
OneOther == {m2}
ThreeJobs == {j1, j2, j3}

FiveAccounts == {boss, office, fleet, north, roaming}
RoleOfEach ==
  boss :> "ADMIN" @@ office :> "DISPATCHER" @@ fleet :> "FLEET" @@ north :> "MANAGER" @@ roaming :> "MANAGER"
HubOfEach == [u \in FiveAccounts |-> IF u = north THEN hubN ELSE NoHub]
WithAddress == {boss, office, north}
TwoHubs == {hubN, hubS}
TwoEvents == {e1, e2}

VARIABLES what, sender, notice, mail, alert, failed, mishaps

Desk == INSTANCE Notifications WITH faults <- mishaps
notices == <<sender, notice, mail, alert, failed, mishaps>>

OfficeInit == Init /\ Desk!Init /\ what \in {"queue", "trip", "orders"}
AnyEvent == Desk!Restart \/ Desk!Trip(Single) \/ Desk!Order(Single) \/ Desk!Proceed(Single)
OrderEvents == \E e \in Events : Desk!Order(e) \/ Desk!Proceed(e)
OfficeSpec ==
  /\ OfficeInit
  /\ [][/\ \/ what = "queue" /\ Next /\ UNCHANGED notices
           \/ what = "trip" /\ AnyEvent /\ UNCHANGED vars
           \/ what = "orders" /\ OrderEvents /\ UNCHANGED vars
        /\ UNCHANGED what]_<<vars, notices, what>>
  /\ Fairness

-----------------------------------------------------------------------------
(* Notices reach who they are for, once and whatever else fails: nobody is   *)
(* told twice of one event; the notice and the mail of an order event are   *)
(* lost independently of each other and of those of other accounts          *)
(* (orders.service.ts:980); and once the sender of a trip through a hub     *)
(* nobody manages is through, every admin was warned, unless a warning      *)
(* failed.                                                                  *)
NoticesArriveOnce ==
  CASE what = "orders" -> Desk!ToldOnce /\ Desk!ChannelsIndependent
    [] what = "trip" -> Desk!ToldOnce /\ Desk!UnmanagedHubIsReported
    [] OTHER -> TRUE
===============================================================================
