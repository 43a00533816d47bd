------------------------------- MODULE MailQueue -------------------------------
(***************************************************************************)
(* Mail (src/mail/mail.service, mail.processor, src/mailer/mailer.service). *)
(* A password reset is put on a BullMQ queue in Redis and sent by a worker  *)
(* of the same server, three attempts with growing delays; when it cannot   *)
(* be queued, and for every other mail, the request sends it itself.  A     *)
(* send tries Resend, then SMTP.  A provider may deliver and still report   *)
(* an error (the answer was lost).                                          *)
(***************************************************************************)
EXTENDS Naturals, FiniteSets

CONSTANTS
  Resets,       \* password-reset mails
  Others,       \* the other mails: activation, change of address, notices
  JobIds,       \* jobs the queue can hold in a run
  Resend, Smtp, \* is this provider configured?
  Development,  \* NODE_ENV is development or unset
  Simulate,     \* MAIL_SIMULATE
  MaxFaults     \* bound on lost answers and connections, restarts, cleanings

ASSUME MailsAssumption == Resets \cap Others = {}
ASSUME ModesAssumption == {Resend, Smtp, Development, Simulate} \subseteq BOOLEAN
ASSUME FaultsAssumption == MaxFaults \in Nat

VARIABLES
  request,    \* what became of the request that sends each mail
  job,        \* the queue, in Redis
  work,       \* the worker: the job it runs and how far it is
  link,       \* the queue's connection to Redis
  delivered,  \* copies of each mail delivered (counted up to two)
  tries,      \* times each mail was handed to the mailer (up to Attempts)
  cleaned,    \* mails whose job an administrator removed
  faults

vars == <<request, job, work, link, delivered, tries, cleaned, faults>>

Mails == Resets \cup Others
Attempts == 3
UpTo(max, n) == IF n > max THEN max ELSE n

NoJob == [state |-> "none"]
NoWork == [at |-> "idle"]
Free == {j \in JobIds : job[j].state = "none"}
JobsOf(m) == {j \in JobIds : job[j].state # "none" /\ job[j].mail = m}

Init ==
  /\ request = [m \in Mails |-> "new"]
  /\ job = [j \in JobIds |-> NoJob]
  /\ work = NoWork
  /\ link = "up"
  /\ delivered = [m \in Mails |-> 0] /\ tries = [m \in Mails |-> 0]
  /\ cleaned = {}
  /\ faults = 0

-----------------------------------------------------------------------------
(* MailerService.sendMail: how a send can end, and how many answers of a    *)
(* provider that did deliver were lost on the way.                          *)
Ends(thrown, copies, lost) == [thrown |-> thrown, copies |-> copies, lost |-> lost]

(* handleFallbackOrThrow: a failed send is no error in development. *)
Throws == ~Development

Reported == {0, 1}   \* copies behind a reported error

SmtpSend(copies, lost) ==
  IF Smtp THEN {Ends(FALSE, copies + 1, lost)} \cup {Ends(Throws, copies + c, lost + c) : c \in Reported}
  ELSE {Ends(Throws, copies, lost)}

ResendBoth ==   \* mutant: no return after Resend's success
  SmtpSend(1, 0) \cup UNION {SmtpSend(c, c) : c \in Reported}
ResendSend == {Ends(FALSE, 1, 0)} \cup UNION {SmtpSend(c, c) : c \in Reported}

Sends == IF Simulate THEN {Ends(FALSE, 0, 0)}
         ELSE IF Resend THEN ResendSend
         ELSE SmtpSend(0, 0)

Sent(m, end) ==
  /\ faults + end.lost <= MaxFaults /\ faults' = faults + end.lost
  /\ delivered' = [delivered EXCEPT ![m] = UpTo(2, @ + end.copies)]
  /\ tries' = [tries EXCEPT ![m] = UpTo(Attempts, @ + 1)]

-----------------------------------------------------------------------------
(* MailService.forgotPassword.  add waits for a connection that is being    *)
(* restored, and fails once Redis is given up; the command of an            *)
(* interrupted add is sent again, though Redis may have executed it.        *)
Ask(m) ==
  /\ request[m] = "new"
  /\ request' = [request EXCEPT ![m] = IF m \in Resets THEN "adding" ELSE "sending"]
  /\ UNCHANGED <<job, work, link, delivered, tries, cleaned, faults>>

Queued(m) == [state |-> "wait", mail |-> m, made |-> 0, stalls |-> 0]

Add(m) ==
  /\ request[m] = "adding" /\ link = "up"
  /\ \E j \in Free : job' = [job EXCEPT ![j] = Queued(m)]
  /\ request' = [request EXCEPT ![m] = "accepted"]
  /\ UNCHANGED <<work, link, delivered, tries, cleaned, faults>>

AddCutOff(m) ==
  /\ request[m] = "adding" /\ link = "up" /\ faults < MaxFaults
  /\ \E j \in Free : job' = [job EXCEPT ![j] = Queued(m)]
  /\ link' = "lost" /\ faults' = faults + 1
  /\ UNCHANGED <<request, work, delivered, tries, cleaned>>

AddFails(m) ==
  /\ request[m] = "adding" /\ link = "closed"
  /\ request' = [request EXCEPT ![m] = "sending"]
  /\ UNCHANGED <<job, work, link, delivered, tries, cleaned, faults>>

(* userSignUp, confirmNewEmail, the notices, and the fallback: the request  *)
(* waits for the send and fails with it.                                    *)
SendDirectly(m) ==
  /\ request[m] = "sending"
  /\ \E end \in Sends :
       /\ Sent(m, end)
       /\ request' = [request EXCEPT ![m] = IF end.thrown THEN "failed" ELSE "accepted"]
  /\ UNCHANGED <<job, work, link, cleaned>>

-----------------------------------------------------------------------------
(* The worker runs one job at a time.  MailProcessor.process sends and      *)
(* rethrows, so that the queue counts a failed attempt.                     *)
Take(j) ==
  /\ work = NoWork /\ link = "up" /\ job[j].state = "wait"
  /\ job' = [job EXCEPT ![j].state = "active"]
  /\ work' = [at |-> "send", job |-> j, mail |-> job[j].mail, lapsed |-> FALSE]
  /\ UNCHANGED <<request, link, delivered, tries, cleaned, faults>>

LoggedOnly(end) == "sent"   \* mutant: the error is logged and not thrown again
Attempt(end) == IF end.thrown THEN "failed" ELSE "sent"

Process ==
  /\ work.at = "send"
  /\ \E end \in Sends :
       /\ Sent(work.mail, end)
       /\ work' = [work EXCEPT !.at = Attempt(end)]
  /\ UNCHANGED <<request, job, link, cleaned>>

Uncounted(j) == job[j].made   \* mutant: the attempt is not counted
Made(j) == job[j].made + 1

(* BullMQ moves the job, unless its lock lapsed and it was taken back, or   *)
(* it was removed meanwhile.                                                *)
Complete ==
  /\ work.at = "sent" /\ link = "up"
  /\ job' = IF job[work.job].state = "active" THEN [job EXCEPT ![work.job] = NoJob] ELSE job
  /\ work' = NoWork
  /\ UNCHANGED <<request, link, delivered, tries, cleaned, faults>>

Fail ==
  LET j == work.job IN
  /\ work.at = "failed" /\ link = "up"
  /\ job' = IF job[j].state = "active"
            THEN [job EXCEPT ![j].made = Made(j),
                             ![j].state = IF Made(j) < Attempts THEN "delayed" ELSE "failed"]
            ELSE job
  /\ work' = NoWork
  /\ UNCHANGED <<request, link, delivered, tries, cleaned, faults>>

(* The backoff is over; a job whose worker died or lost touch is run again, *)
(* once.                                                                    *)
Promote(j) ==
  /\ link = "up" /\ job[j].state = "delayed"
  /\ job' = [job EXCEPT ![j].state = "wait"]
  /\ UNCHANGED <<request, work, link, delivered, tries, cleaned, faults>>

Held(j) == work # NoWork /\ work.job = j /\ ~work.lapsed
Orphan(j) == job[j].state = "active" /\ ~Held(j)
Recover(j) ==
  /\ link = "up" /\ Orphan(j)
  /\ job' = [job EXCEPT ![j].stalls = @ + 1, ![j].state = IF job[j].stalls = 0 THEN "wait" ELSE "failed"]
  /\ UNCHANGED <<request, work, link, delivered, tries, cleaned, faults>>

(* cleanQueue removes every job and flushes Redis, running jobs included. *)
CleanQueue ==
  /\ link = "up" /\ faults < MaxFaults
  /\ cleaned' = cleaned \cup {m \in Mails : JobsOf(m) # {}}
  /\ job' = [j \in JobIds |-> NoJob]
  /\ faults' = faults + 1
  /\ UNCHANGED <<request, work, link, delivered, tries>>

-----------------------------------------------------------------------------
(* Three attempts to reconnect, then the queue and its worker stay closed   *)
(* until the server is restarted.                                           *)
Lose ==
  /\ link = "up" /\ faults < MaxFaults
  /\ link' = "lost" /\ faults' = faults + 1
  /\ work' = IF work = NoWork THEN NoWork ELSE [work EXCEPT !.lapsed = TRUE]
  /\ UNCHANGED <<request, job, delivered, tries, cleaned>>

Reconnect ==
  /\ link = "lost" /\ link' \in {"up", "closed"}
  /\ UNCHANGED <<request, job, work, delivered, tries, cleaned, faults>>

Restarted ==
  /\ request' = [m \in Mails |-> IF request[m] \in {"adding", "sending"} THEN "failed" ELSE request[m]]
  /\ work' = NoWork
  /\ link' = "up"
  /\ UNCHANGED <<job, delivered, tries, cleaned>>
Crash == faults < MaxFaults /\ faults' = faults + 1 /\ Restarted
Restart == link = "closed" /\ UNCHANGED faults /\ Restarted

Serve == \E m \in Mails : Add(m) \/ AddFails(m) \/ SendDirectly(m)
Work == Process \/ Complete \/ Fail \/ \E j \in JobIds : Take(j)
Queue == \E j \in JobIds : Promote(j) \/ Recover(j)
Fault == Lose \/ Crash \/ CleanQueue \/ \E m \in Mails : AddCutOff(m)

Next == (\E m \in Mails : Ask(m)) \/ Serve \/ Work \/ Queue \/ Fault \/ Reconnect \/ Restart

(* Server, worker and queue go on while they can; a connection is restored  *)
(* or given up.  Nothing restarts a server whose queue is closed but        *)
(* people, who may not: Restart and Crash are not fair.                     *)
Fairness ==
  /\ WF_vars(Work) /\ WF_vars(Reconnect)
  /\ \A j \in JobIds : WF_vars(Promote(j)) /\ WF_vars(Recover(j)) /\ SF_vars(Take(j))
  /\ \A m \in Mails : WF_vars(Add(m) \/ AddFails(m) \/ SendDirectly(m))
Spec == Init /\ [][Next]_vars /\ Fairness

-----------------------------------------------------------------------------
(* Properties. *)

(* A mail whose request was answered is on its way as long as it is not     *)
(* delivered, unless the queue gave it up after its attempts (or two dead   *)
(* workers) or an administrator emptied the queue.                          *)
AcceptedIsKept ==
  \A m \in Mails : request[m] = "accepted" =>
    \/ delivered[m] > 0
    \/ m \in cleaned
    \/ \E j \in JobsOf(m) : job[j].state = "failed" => (tries[m] >= Attempts \/ job[j].stalls = 2)

(* As long as nothing breaks and no answer of a provider is lost, nobody    *)
(* gets a mail twice.                                                       *)
NoDuplicateWithoutFault == faults = 0 => \A m \in Mails : delivered[m] <= 1

(* A mail that was accepted is delivered, given up or cleaned in the end,   *)
(* whatever connections, workers and servers die on the way, unless the     *)
(* connection to Redis is given up and the server never restarted.          *)
EveryMailSettles ==
  \/ <>[](link = "closed")
  \/ \A m \in Resets : request[m] = "accepted" ~>
       (delivered[m] > 0 \/ m \in cleaned \/ \E j \in JobsOf(m) : job[j].state = "failed")

===============================================================================
