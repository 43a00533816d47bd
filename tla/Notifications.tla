----------------------------- MODULE Notifications -----------------------------
(***************************************************************************)
(* Who is told of a confirmed trip, of an order submitted to the fleet and  *)
(* of an order without vehicle (sendTripNotifications of src/trips and the  *)
(* two senders of src/orders/orders.service), in the application and by     *)
(* mail.  Every notice stored and every mail sent is a step; the senders    *)
(* of several events interleave, each step can fail, and a restart ends     *)
(* them all: what a sender has left to do is kept nowhere.                  *)
(***************************************************************************)
EXTENDS Naturals, FiniteSets, Sequences

CONSTANTS
  Users,       \* accounts
  Role,        \* of each account: ADMIN, DISPATCHER, FLEET or MANAGER
  HubOf,       \* the hub a warehouse manager is assigned to, or NoHub
  Mailbox,     \* accounts that have an address
  Hubs, NoHub,
  Events,      \* events of a run
  MaxFaults    \* bound on failed steps and restarts

VARIABLES
  sender,  \* what each event's sender has yet to do
  notice,  \* notification rows: how many of each event for each account
  mail,    \* mails sent: the same
  alert,   \* admins warned that a hub of a trip has no manager
  failed,  \* steps that failed: <<event, account, channel>>
  faults

vars == <<sender, notice, mail, alert, failed, faults>>

Places == Hubs \cup {NoHub}
Of(roles) == {u \in Users : Role[u] \in roles}
Admins == Of({"ADMIN"})
ManagersOf(h) == {u \in Of({"MANAGER"}) : HubOf[u] = h}
Times(b) == IF b THEN 1 ELSE 0

AnyUser == CHOOSE u \in Users : TRUE
Nobody == [u \in Users |-> 0]
Sender(at, kind, ends, hubs, list) ==
  [at |-> at, kind |-> kind, ends |-> ends, hubs |-> hubs, list |-> list, admins |-> {}, user |-> AnyUser]
Asleep(at, ends) == Sender(at, "none", ends, <<>>, Nobody)
NoOne == [e \in Events |-> [u \in Users |-> 0]]

Init ==
  /\ sender = [e \in Events |-> Asleep("none", {})]
  /\ notice = NoOne /\ mail = NoOne /\ alert = NoOne
  /\ failed = {}
  /\ faults = 0

Is(e, at) == sender[e].at = at
Go(e, s) == sender' = [sender EXCEPT ![e] = s]

-----------------------------------------------------------------------------
(* Who is on the list: how often each account is.                           *)

HubsOf(from, to) == {from, to} \ {NoHub}
HubsToCheck(from, to) ==
  LET pushed(h) == IF h = NoHub THEN <<>> ELSE <<h>> IN pushed(from) \o pushed(to)

(* resolveWarehouseManagerRecipients: a Map by account id; every manager    *)
(* when the order names no hub.                                             *)
ManagerTimes(u, from, to) ==
  Times(Role[u] = "MANAGER" /\ (HubsOf(from, to) = {} \/ HubOf[u] \in HubsOf(from, to)))

TripList(from, to) ==
  [u \in Users |-> ManagerTimes(u, from, to) + Times(Role[u] \in {"DISPATCHER", "FLEET", "ADMIN"})]
PendingFleetList == [u \in Users |-> Times(Role[u] \in {"FLEET", "ADMIN"})]
NoVehicleList(creator) == [u \in Users |-> Times(Role[u] \in {"DISPATCHER", "ADMIN"} \/ u = creator)]

-----------------------------------------------------------------------------
(* TripsService.confirm waits for its sender, submit and markNoVehicle      *)
(* leave theirs to setImmediate.                                            *)
TripConfirmed(e, from, to) ==
  /\ Is(e, "none")
  /\ Go(e, Sender("check", "trip", HubsOf(from, to), HubsToCheck(from, to), TripList(from, to)))
  /\ UNCHANGED <<notice, mail, alert, failed, faults>>

OrderSubmitted(e) ==
  /\ Is(e, "none")
  /\ Go(e, Sender("tell", "order", {}, <<>>, PendingFleetList))
  /\ UNCHANGED <<notice, mail, alert, failed, faults>>

OrderWithoutVehicle(e, creator) ==
  /\ Is(e, "none")
  /\ Go(e, Sender("tell", "order", {}, <<>>, NoVehicleList(creator)))
  /\ UNCHANGED <<notice, mail, alert, failed, faults>>

(* A hub without managers: every admin is warned, until one warning fails.  *)
ManagedAnywhere(h) == Of({"MANAGER"}) = {}   \* mutant: managers are not looked up by hub
Unassigned(h) == ManagersOf(h) = {}

CheckHub(e) ==
  /\ Is(e, "check")
  /\ IF sender[e].hubs = <<>>
     THEN Go(e, [sender[e] EXCEPT !.at = "tell"])
     ELSE Go(e, [sender[e] EXCEPT !.at = "warn", !.hubs = Tail(@),
                                  !.admins = IF Unassigned(Head(sender[e].hubs)) THEN Admins ELSE {}])
  /\ UNCHANGED <<notice, mail, alert, failed, faults>>

Warned(e) == [sender[e] EXCEPT !.at = "check", !.admins = {}]

Warn(e) ==
  /\ Is(e, "warn")
  /\ \/ /\ sender[e].admins = {} /\ Go(e, Warned(e))
        /\ UNCHANGED <<alert, failed, faults>>
     \/ \E a \in sender[e].admins :
          /\ alert' = [alert EXCEPT ![e][a] = @ + 1]
          /\ Go(e, [sender[e] EXCEPT !.admins = @ \ {a}])
          /\ UNCHANGED <<failed, faults>>
     \/ \E a \in sender[e].admins :
          /\ faults < MaxFaults /\ faults' = faults + 1
          /\ failed' = failed \cup {<<e, a, "alert">>}
          /\ Go(e, Warned(e))
          /\ UNCHANGED alert
  /\ UNCHANGED <<notice, mail>>

-----------------------------------------------------------------------------
(* The loop over the list, in the order of the query: any.                  *)
Done(e) == Asleep("done", sender[e].ends)
Told(e, u) == [sender[e] EXCEPT !.at = "mail", !.user = u, !.list[u] = @ - 1]
Mailed(e) == [sender[e] EXCEPT !.at = "tell", !.user = AnyUser]
Left(e) == {u \in Users : sender[e].list[u] > 0}

Tell(e, u) ==
  /\ Is(e, "tell") /\ u \in Left(e)
  /\ notice' = [notice EXCEPT ![e][u] = @ + 1]
  /\ Go(e, Told(e, u))
  /\ UNCHANGED <<mail, alert, failed, faults>>

(* Where a failed step leaves the sender: one handler around the whole trip *)
(* sender, one around each step of the others.                              *)
EndsAll(e, after) == Done(e)   \* mutant: one handler for the whole sender here too
AfterFailure(e, after) == IF sender[e].kind = "trip" THEN Done(e) ELSE after

TellFails(e, u) ==
  /\ Is(e, "tell") /\ u \in Left(e)
  /\ faults < MaxFaults /\ faults' = faults + 1
  /\ failed' = failed \cup {<<e, u, "notice">>}
  /\ Go(e, AfterFailure(e, Told(e, u)))
  /\ UNCHANGED <<notice, mail, alert>>

Mail(e) ==
  LET u == sender[e].user IN
  /\ Is(e, "mail")
  /\ mail' = IF u \in Mailbox THEN [mail EXCEPT ![e][u] = @ + 1] ELSE mail
  /\ Go(e, Mailed(e))
  /\ UNCHANGED <<notice, alert, failed, faults>>

MailFails(e) ==
  LET u == sender[e].user IN
  /\ Is(e, "mail") /\ u \in Mailbox
  /\ faults < MaxFaults /\ faults' = faults + 1
  /\ failed' = failed \cup {<<e, u, "mail">>}
  /\ Go(e, AfterFailure(e, Mailed(e)))
  /\ UNCHANGED <<notice, mail, alert>>

Finish(e) ==
  /\ Is(e, "tell") /\ Left(e) = {}
  /\ Go(e, Done(e))
  /\ UNCHANGED <<notice, mail, alert, failed, faults>>

(* A restart: nothing resumes the senders that were under way. *)
Restart ==
  /\ faults < MaxFaults /\ faults' = faults + 1
  /\ sender' = [e \in Events |-> IF sender[e].at \in {"none", "done"} THEN sender[e] ELSE Asleep("lost", {})]
  /\ UNCHANGED <<notice, mail, alert, failed>>

Trip(e) == \E from, to \in Places : TripConfirmed(e, from, to)
Order(e) == OrderSubmitted(e) \/ \E u \in Users : OrderWithoutVehicle(e, u)
Proceed(e) ==
  \/ CheckHub(e) \/ Warn(e) \/ Mail(e) \/ MailFails(e) \/ Finish(e)
  \/ \E u \in Users : Tell(e, u) \/ TellFails(e, u)

Next == Restart \/ \E e \in Events : Trip(e) \/ Order(e) \/ Proceed(e)

Spec == Init /\ [][Next]_vars

-----------------------------------------------------------------------------
(* Properties. *)

(* Nobody is told or mailed twice of one event, managers of both ends of a  *)
(* trip and dispatchers who typed the order themselves included.            *)
ToldOnce == \A e \in Events, u \in Users : notice[e][u] <= 1 /\ mail[e][u] <= 1

(* orders.service.ts:980: both channels are independent for each account.   *)
(* When the sender of an order event is through, whatever failed on its     *)
(* way, every fleet manager or dispatcher and every admin it was for has    *)
(* the notice and the mail that did not fail themselves.                    *)
ChannelsIndependent ==
  \A e \in Events : Is(e, "done") =>
    /\ \A u \in Admins : notice[e][u] = 1 \/ <<e, u, "notice">> \in failed
    /\ \A u \in Users : (notice[e][u] = 1 \/ <<e, u, "notice">> \in failed) /\ u \in Mailbox =>
         mail[e][u] = 1 \/ <<e, u, "mail">> \in failed

(* trips.service.ts:193 "Gửi thông báo in-app và email đến các bên liên     *)
(* quan" (send notices and mails to the parties concerned): when no notice  *)
(* failed and the server stayed up, every admin has one.                    *)
PartiesAreTold ==
  \A e \in Events : Is(e, "done") =>
    \A u \in Admins : notice[e][u] = 1 \/ <<e, u, "notice">> \in failed

(* A trip through a hub nobody manages: once its sender is through, every   *)
(* admin was warned, unless a warning of that trip failed.                  *)
UnmanagedHubIsReported ==
  \A e \in Events : Is(e, "done") /\ (\E h \in sender[e].ends : ManagersOf(h) = {}) =>
    (\A a \in Admins : alert[e][a] >= 1) \/ \E a \in Admins : <<e, a, "alert">> \in failed
===============================================================================
