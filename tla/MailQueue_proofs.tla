--------------------------- MODULE MailQueue_proofs ---------------------------
(***************************************************************************)
(* What holds of every mail, whatever is lost, restarted or cleaned: a mail *)
(* whose request was answered is kept until it is delivered, cleaned or     *)
(* given up after its attempts; and without a fault nobody gets one twice.  *)
(***************************************************************************)
EXTENDS MCMailQueue, Sequences, TLAPS

-----------------------------------------------------------------------------
(* The shapes of jobs and of the worker. *)

JobRecord ==
  [state : {"wait", "active", "delayed", "failed"}, mail : Resets, made : Nat, stalls : Nat]
WorkRecord == [at : {"send", "sent", "failed"}, job : JobIds, mail : Resets, lapsed : BOOLEAN]

MailShape ==
  /\ request \in [Mails -> {"new", "adding", "sending", "accepted", "failed"}]
  /\ \A m \in Mails : request[m] = "adding" => m \in Resets
  /\ job \in [JobIds -> JobRecord \cup {NoJob}]
  /\ work \in WorkRecord \cup {NoWork}
  /\ link \in {"up", "lost", "closed"}
  /\ delivered \in [Mails -> 0 .. 2]
  /\ tries \in [Mails -> 0 .. Attempts]
  /\ faults \in Nat

(* How a send ends: an error means no copy, or one whose answer was lost;   *)
(* without a lost answer there is at most one copy.                         *)
Well(copies, lost) == Ends(FALSE, copies, lost)
Badly(copies, lost) == Ends(TRUE, copies, lost)

LEMMA EndIs ==
  ASSUME NEW c, NEW l
  PROVE  /\ ~Well(c, l).thrown /\ Well(c, l).copies = c /\ Well(c, l).lost = l
         /\ Badly(c, l).thrown /\ Badly(c, l).copies = c /\ Badly(c, l).lost = l
BY DEF Ends, Well, Badly

LEMMA SendsEnd ==
  ASSUME NEW end \in Sends
  PROVE  /\ end.copies \in Nat /\ end.lost \in Nat
         /\ end.lost = 0 => end.copies <= 1
         /\ end.lost = 0 /\ end.thrown => end.copies = 0
         /\ ~Development /\ ~Simulate /\ ~end.thrown => end.copies > 0
<1>1. Development \in BOOLEAN
  BY ModesAssumption
<1>2. CASE Simulate /\ end = Well(0, 0)
  BY <1>2, EndIs
<1>3. ASSUME NEW a \in {0, 1}, end = Well(a + 1, a)
      PROVE  /\ end.copies \in Nat /\ end.lost \in Nat /\ ~end.thrown
             /\ (end.lost = 0 => end.copies <= 1) /\ end.copies > 0
  <2>1. end.copies = a + 1 /\ end.lost = a /\ ~end.thrown
    BY <1>3, EndIs
  <2> QED
    BY <2>1
<1>4. ASSUME NEW n \in {0, 1, 2}, (Development /\ end = Well(n, n)) \/ (~Development /\ end = Badly(n, n))
      PROVE  /\ end.copies = n /\ end.lost = n /\ (~Development => end.thrown)
  <2>1. CASE Development /\ end = Well(n, n)
    BY <2>1, EndIs
  <2>2. CASE ~Development /\ end = Badly(n, n)
    BY <2>2, EndIs
  <2> QED
    BY <1>4, <2>1, <2>2
<1>5. ASSUME NEW a \in {0, 1}, end \in SmtpSend(a, a)
      PROVE  \/ end = Well(a + 1, a)
             \/ \E n \in {0, 1, 2} : (Development /\ end = Well(n, n)) \/ (~Development /\ end = Badly(n, n))
  <2> DEFINE Thrown(n) == Ends(Throws, n, n)
  <2>1. \/ end = Well(a + 1, a)
        \/ \E c \in {0, 1} : end = Thrown(a + c)
        \/ end = Thrown(a)
    BY <1>5 DEF SmtpSend, Reported, Well
  <2>2. \A c \in {0, 1} : a + c \in {0, 1, 2} /\ a \in {0, 1, 2}
    OBVIOUS
  <2>3. ASSUME NEW n, Development PROVE Thrown(n) = Well(n, n)
    BY <2>3 DEF Throws, Well
  <2>4. ASSUME NEW n, ~Development PROVE Thrown(n) = Badly(n, n)
    <3>1. Throws = TRUE
      BY <2>4 DEF Throws
    <3> QED
      BY <3>1, Zenon DEF Badly
  <2>5. ASSUME NEW n \in {0, 1, 2}, end = Thrown(n)
        PROVE  (Development /\ end = Well(n, n)) \/ (~Development /\ end = Badly(n, n))
    <3> HIDE DEF Thrown
    <3> QED
      BY <2>3, <2>4, <2>5
  <2> HIDE DEF Thrown
  <2> QED
    BY <2>1, <2>2, <2>5
<1>6. \/ end = Well(0 + 1, 0)
      \/ Simulate /\ end = Well(0, 0)
      \/ \E a \in {0, 1} : end \in SmtpSend(a, a)
  <2>1. \A c \in Reported : c \in {0, 1}
    BY DEF Reported
  <2>2. 0 + 1 = 1
    OBVIOUS
  <2> QED
    BY <2>1, <2>2 DEF Sends, ResendSend, Well
<1> QED
  BY <1>2, <1>3, <1>4, <1>5, <1>6

(* What a send leaves. *)
LEMMA SentCounts ==
  ASSUME MailShape, NEW m \in Mails, NEW end \in Sends, Sent(m, end)
  PROVE  /\ delivered' \in [Mails -> 0 .. 2] /\ tries' \in [Mails -> 0 .. Attempts] /\ faults' \in Nat
         /\ \A n \in Mails \ {m} : delivered'[n] = delivered[n] /\ tries'[n] = tries[n]
         /\ delivered[m] <= delivered'[m] /\ delivered'[m] <= delivered[m] + end.copies
         /\ end.copies > 0 => delivered'[m] > 0
         /\ tries[m] <= tries'[m] /\ (tries[m] < Attempts => tries'[m] = tries[m] + 1)
         /\ faults' = 0 => faults = 0 /\ end.lost = 0
<1>1. /\ end.copies \in Nat /\ end.lost \in Nat
      /\ delivered[m] \in 0 .. 2 /\ tries[m] \in 0 .. Attempts /\ faults \in Nat /\ Attempts = 3
  BY SendsEnd DEF MailShape, Attempts
<1>2. /\ delivered'[m] = UpTo(2, delivered[m] + end.copies)
      /\ tries'[m] = UpTo(Attempts, tries[m] + 1)
      /\ faults' = faults + end.lost
  BY DEF Sent, MailShape
<1>3. /\ UpTo(2, delivered[m] + end.copies) \in 0 .. 2
      /\ delivered[m] <= UpTo(2, delivered[m] + end.copies)
      /\ UpTo(2, delivered[m] + end.copies) <= delivered[m] + end.copies
      /\ end.copies > 0 => UpTo(2, delivered[m] + end.copies) > 0
  BY <1>1 DEF UpTo
<1>4. /\ UpTo(Attempts, tries[m] + 1) \in 0 .. Attempts /\ tries[m] <= UpTo(Attempts, tries[m] + 1)
      /\ tries[m] < Attempts => UpTo(Attempts, tries[m] + 1) = tries[m] + 1
  BY <1>1 DEF UpTo
<1>5. /\ delivered' = [delivered EXCEPT ![m] = UpTo(2, delivered[m] + end.copies)]
      /\ tries' = [tries EXCEPT ![m] = UpTo(Attempts, tries[m] + 1)]
  BY DEF Sent
<1>6. delivered' \in [Mails -> 0 .. 2] /\ \A n \in Mails \ {m} : delivered'[n] = delivered[n]
  BY <1>3, <1>5 DEF MailShape
<1>7. tries' \in [Mails -> 0 .. Attempts] /\ \A n \in Mails \ {m} : tries'[n] = tries[n]
  BY <1>4, <1>5 DEF MailShape
<1> QED
  BY <1>1, <1>2, <1>3, <1>4, <1>6, <1>7

(* Jobs and the worker. *)
LEMMA JobFacts ==
  ASSUME MailShape
  PROVE  /\ \A j \in JobIds : job[j] = NoJob \/ job[j] \in JobRecord
         /\ \A j \in JobIds : job[j].state # "none" => job[j] \in JobRecord
         /\ \A m \in Resets : Queued(m) \in JobRecord /\ m \in Mails
         /\ NoJob.state = "none" /\ NoWork.at = "idle"
         /\ work.at # "idle" => work \in WorkRecord /\ work # NoWork
         /\ work # NoWork => work \in WorkRecord
         /\ work \in WorkRecord => work.at # "idle" /\ work # NoWork
BY DEF MailShape, JobRecord, NoJob, NoWork, WorkRecord, Queued, Mails

LEMMA ServeShape ==
  ASSUME MailShape, NEW m \in Mails, Ask(m) \/ Add(m) \/ AddCutOff(m) \/ AddFails(m) \/ SendDirectly(m)
  PROVE  MailShape'
<1>1. CASE Ask(m)
  BY <1>1 DEF Ask, MailShape
<1>2. CASE Add(m) \/ AddCutOff(m)
  <2>1. m \in Resets
    BY <1>2 DEF Add, AddCutOff, MailShape
  <2>2. PICK j \in JobIds : job' = [job EXCEPT ![j] = Queued(m)]
    BY <1>2 DEF Add, AddCutOff, Free
  <2>3. job' \in [JobIds -> JobRecord \cup {NoJob}]
    BY <2>1, <2>2, JobFacts DEF MailShape
  <2> QED
    BY <1>2, <2>3 DEF Add, AddCutOff, MailShape
<1>3. CASE AddFails(m)
  BY <1>3 DEF AddFails, MailShape
<1>4. CASE SendDirectly(m)
  <2>1. PICK end \in Sends : Sent(m, end) /\ (request' = [request EXCEPT ![m] = "failed"]
                                             \/ request' = [request EXCEPT ![m] = "accepted"])
    BY <1>4 DEF SendDirectly
  <2>2. delivered' \in [Mails -> 0 .. 2] /\ tries' \in [Mails -> 0 .. Attempts] /\ faults' \in Nat
    BY <2>1, SentCounts
  <2> QED
    BY <1>4, <2>1, <2>2 DEF SendDirectly, MailShape
<1> QED
  BY <1>1, <1>2, <1>3, <1>4

LEMMA WorkShape ==
  ASSUME MailShape, Work
  PROVE  MailShape'
<1>1. ASSUME NEW j \in JobIds, Take(j)
      PROVE  MailShape'
  <2>1. job[j] \in JobRecord
    BY <1>1, JobFacts DEF Take
  <2>2. job' \in [JobIds -> JobRecord \cup {NoJob}]
    BY <1>1, <2>1 DEF Take, MailShape, JobRecord
  <2>3. work' \in WorkRecord
    BY <1>1, <2>1 DEF Take, JobRecord, WorkRecord
  <2> QED
    BY <1>1, <2>2, <2>3 DEF Take, MailShape
<1>2. CASE Process
  <2>1. work \in WorkRecord /\ work.mail \in Mails
    BY <1>2, JobFacts DEF Process, WorkRecord, Mails
  <2>2. PICK end \in Sends : Sent(work.mail, end) /\ work' = [work EXCEPT !.at = Attempt(end)]
    BY <1>2 DEF Process
  <2>3. Attempt(end) \in {"failed", "sent"}
    BY DEF Attempt
  <2>4. work' \in WorkRecord
    BY <2>1, <2>2, <2>3 DEF WorkRecord
  <2>5. delivered' \in [Mails -> 0 .. 2] /\ tries' \in [Mails -> 0 .. Attempts] /\ faults' \in Nat
    BY <2>1, <2>2, SentCounts
  <2> QED
    BY <1>2, <2>4, <2>5 DEF Process, MailShape
<1>3. CASE Complete
  BY <1>3 DEF Complete, MailShape
<1>4. CASE Fail
  <2>1. work \in WorkRecord
    BY <1>4, JobFacts DEF Fail
  <2> DEFINE j == work.job
             new == [job[j] EXCEPT !.made = Made(j), !.state = IF Made(j) < Attempts THEN "delayed" ELSE "failed"]
  <2>2. job' = job \/ (job[j].state = "active" /\ job' = [job EXCEPT ![j] = new])
    BY <1>4 DEF Fail
  <2>3. ASSUME job[j].state = "active"
        PROVE  new \in JobRecord
    <3>1. job[j] \in JobRecord
      BY <2>1, <2>3, JobFacts DEF WorkRecord
    <3>2. Made(j) \in Nat /\ (IF Made(j) < Attempts THEN "delayed" ELSE "failed") \in {"delayed", "failed"}
      BY <3>1 DEF JobRecord, Made
    <3> HIDE DEF j
    <3> QED
      BY <3>1, <3>2 DEF JobRecord
  <2> HIDE DEF new
  <2>4. job' \in [JobIds -> JobRecord \cup {NoJob}]
    BY <2>2, <2>3 DEF MailShape
  <2> QED
    BY <1>4, <2>4 DEF Fail, MailShape
<1> QED
  BY <1>1, <1>2, <1>3, <1>4 DEF Work

LEMMA QueueShape ==
  ASSUME MailShape, NEW j \in JobIds, Promote(j) \/ Recover(j)
  PROVE  MailShape'
<1>1. job[j] \in JobRecord
  BY JobFacts DEF Promote, Recover, Orphan
<1>2. CASE Promote(j)
  BY <1>1, <1>2 DEF Promote, MailShape, JobRecord
<1>3. CASE Recover(j)
  <2> DEFINE new == [job[j] EXCEPT !.stalls = @ + 1, !.state = IF job[j].stalls = 0 THEN "wait" ELSE "failed"]
  <2>1. new \in JobRecord
    <3>1. /\ job[j].stalls + 1 \in Nat
          /\ (IF job[j].stalls = 0 THEN "wait" ELSE "failed") \in {"wait", "failed"}
      BY <1>1 DEF JobRecord
    <3> QED
      BY <1>1, <3>1 DEF JobRecord
  <2>2. job' = [job EXCEPT ![j] = new]
    BY <1>3 DEF Recover
  <2> HIDE DEF new
  <2> QED
    BY <1>3, <2>1, <2>2 DEF Recover, MailShape
<1> QED
  BY <1>2, <1>3

LEMMA FaultShape ==
  ASSUME MailShape, Lose \/ Reconnect \/ Crash \/ Restart \/ CleanQueue
  PROVE  MailShape'
<1>1. CASE Lose
  <2>1. work' \in WorkRecord \cup {NoWork}
    BY <1>1 DEF Lose, MailShape, WorkRecord
  <2> QED
    BY <1>1, <2>1 DEF Lose, MailShape
<1>2. CASE Reconnect
  BY <1>2 DEF Reconnect, MailShape
<1>3. CASE Crash \/ Restart
  BY <1>3 DEF Crash, Restart, Restarted, MailShape
<1>4. CASE CleanQueue
  BY <1>4 DEF CleanQueue, MailShape
<1> QED
  BY <1>1, <1>2, <1>3, <1>4

(* Every step of the queue. *)
LEMMA MailSteps ==
  ASSUME [Next]_vars
  PROVE  \/ UNCHANGED vars
         \/ \E m \in Mails : Ask(m) \/ Add(m) \/ AddCutOff(m) \/ AddFails(m) \/ SendDirectly(m)
         \/ Work
         \/ \E j \in JobIds : Promote(j) \/ Recover(j)
         \/ Lose \/ Reconnect \/ Crash \/ Restart \/ CleanQueue
BY DEF Next, Serve, Queue, Fault

LEMMA MailShapeStep == MailShape /\ [Next]_vars => MailShape'
<1> SUFFICES ASSUME MailShape, [Next]_vars PROVE MailShape'
  OBVIOUS
<1>1. CASE UNCHANGED vars
  BY <1>1 DEF vars, MailShape
<1> QED
  BY <1>1, MailSteps, ServeShape, WorkShape, QueueShape, FaultShape

LEMMA InitMailShape == Init => MailShape
BY DEF Init, MailShape, Attempts

-----------------------------------------------------------------------------
(* No mail twice.  Before the first fault every mail has at most one job,   *)
(* the worker holds the job that is active, and a mail that may still be    *)
(* sent has not been delivered.                                             *)
Running == work.at # "idle"
Calm ==
  /\ link = "up"
  /\ \A j \in JobIds : job[j].state # "none" => request[job[j].mail] = "accepted"
  /\ \A i, j \in JobIds : job[i].state # "none" /\ job[j].state # "none" /\ job[i].mail = job[j].mail => i = j
  /\ \A m \in Mails : delivered[m] <= 1 /\ (request[m] \in {"new", "adding", "sending"} => delivered[m] = 0)
  /\ \A j \in JobIds : job[j].state \in {"wait", "delayed", "failed"} => delivered[job[j].mail] = 0
  /\ \A j \in JobIds : job[j].state = "active" => Running /\ work.job = j
  /\ Running => /\ job[work.job].state = "active" /\ job[work.job].mail = work.mail /\ ~work.lapsed
                /\ work.at \in {"send", "failed"} => delivered[work.mail] = 0

(* A mail that was accepted is delivered, cleaned, or has a job; the job    *)
(* counts no more attempts than were made, and the worker has one more made *)
(* than its job counts when it comes to report a failure.                   *)
JobKept(j) ==
  job[j].state # "none" =>
    /\ job[j].made <= tries[job[j].mail]
    /\ job[j].state # "failed" => job[j].made < Attempts /\ job[j].stalls <= 1
    /\ job[j].state = "failed" => tries[job[j].mail] >= Attempts \/ job[j].stalls = 2
WorkKept ==
  Running /\ job[work.job].state = "active" =>
    /\ job[work.job].mail = work.mail
    /\ work.at = "failed" => job[work.job].made + 1 <= tries[work.mail]
    /\ work.at = "sent" => delivered[work.mail] > 0
Kept ==
  /\ \A j \in JobIds : JobKept(j)
  /\ WorkKept
  /\ \A m \in Mails : request[m] = "accepted" => delivered[m] > 0 \/ m \in cleaned \/ JobsOf(m) # {}

LEMMA InitCalmKept == Init => Calm /\ Kept
BY DEF Init, Calm, Kept, JobKept, WorkKept, Running, NoJob, NoWork

LEMMA FaultsGrow == MailShape /\ [Next]_vars /\ faults' = 0 => faults = 0
<1> SUFFICES ASSUME MailShape, [Next]_vars, faults' = 0 PROVE faults = 0
  OBVIOUS
<1>1. faults \in Nat
  BY DEF MailShape
<1>2. CASE Process
  <2>1. PICK end \in Sends : Sent(work.mail, end)
    BY <1>2 DEF Process
  <2>2. work.mail \in Mails
    BY <1>2, JobFacts DEF Process, WorkRecord, Mails
  <2> QED
    BY <2>1, <2>2, SentCounts
<1>3. ASSUME NEW m \in Mails, SendDirectly(m)
      PROVE  faults = 0
  <2>1. PICK end \in Sends : Sent(m, end)
    BY <1>3 DEF SendDirectly
  <2> QED
    BY <2>1, SentCounts
<1>4. ASSUME faults' = faults \/ faults' = faults + 1
      PROVE  faults = 0
  BY <1>1, <1>4
<1> QED
  BY <1>2, <1>3, <1>4, MailSteps DEF vars, Ask, Add, AddCutOff, AddFails, Work, Take, Complete, Fail, Promote,
     Recover, Lose, Reconnect, Crash, Restart, Restarted, CleanQueue

LEMMA ServeCalm ==
  ASSUME MailShape, MailShape', Calm, faults' = 0, NEW m \in Mails,
         Ask(m) \/ Add(m) \/ AddCutOff(m) \/ AddFails(m) \/ SendDirectly(m)
  PROVE  Calm'
<1>1. CASE Ask(m)
  <2>1. \A n \in Mails : request'[n] = IF n = m THEN request'[m] ELSE request[n]
    BY <1>1 DEF Ask, MailShape
  <2>2. \A j \in JobIds : job[j].state # "none" => job[j].mail # m /\ job[j].mail \in Mails
    BY <1>1, JobFacts DEF Ask, Calm, JobRecord
  <2>3. request[m] = "new"
    BY <1>1 DEF Ask
  <2>4. UNCHANGED <<job, work, link, delivered>>
    BY <1>1 DEF Ask
  <2> QED
    BY <2>1, <2>2, <2>3, <2>4 DEF Calm, Running
<1>2. CASE Add(m)
  <2>1. PICK j \in JobIds : job[j].state = "none" /\ job' = [job EXCEPT ![j] = Queued(m)]
    BY <1>2 DEF Add, Free
  <2>2. \A i \in JobIds : job'[i] = IF i = j THEN Queued(m) ELSE job[i]
    BY <2>1 DEF MailShape
  <2>3. Queued(m).state = "wait" /\ Queued(m).mail = m
    BY DEF Queued
  <2>4. \A n \in Mails : request'[n] = IF n = m THEN "accepted" ELSE request[n]
    BY <1>2 DEF Add, MailShape
  <2>5. request[m] = "adding" /\ delivered[m] = 0 /\ UNCHANGED <<work, link, delivered>>
    BY <1>2 DEF Add, Calm
  <2>6. \A i \in JobIds : job[i].state # "none" => job[i].mail # m /\ job[i].mail \in Mails
    BY <2>5, JobFacts DEF Calm, JobRecord
  <2>7. Running => work.job \in JobIds /\ work.job # j
    BY <2>1, JobFacts DEF Calm, Running, WorkRecord
  <2> HIDE DEF Queued
  <2>8. \A i, k \in JobIds : job'[i].state # "none" /\ job'[k].state # "none" /\ job'[i].mail = job'[k].mail => i = k
    BY <2>2, <2>3, <2>6 DEF Calm
  <2>9. \A i \in JobIds : /\ job'[i].state # "none" => request'[job'[i].mail] = "accepted"
                          /\ job'[i].state \in {"wait", "delayed", "failed"} => delivered[job'[i].mail] = 0
                          /\ job'[i].state = "active" => Running /\ work.job = i
    BY <2>2, <2>3, <2>4, <2>5, <2>6 DEF Calm
  <2>10. Running => job'[work.job] = job[work.job]
    BY <2>2, <2>7
  <2> QED
    BY <2>4, <2>5, <2>8, <2>9, <2>10 DEF Calm, Running
<1>3. CASE AddCutOff(m) \/ AddFails(m)
  BY <1>3 DEF AddCutOff, AddFails, Calm, MailShape
<1>4. CASE SendDirectly(m)
  <2>1. PICK end \in Sends : Sent(m, end) /\ (request' = [request EXCEPT ![m] = "failed"]
                                             \/ request' = [request EXCEPT ![m] = "accepted"])
    BY <1>4 DEF SendDirectly
  <2>2. /\ \A n \in Mails \ {m} : delivered'[n] = delivered[n] /\ request'[n] = request[n]
        /\ delivered'[m] <= delivered[m] + end.copies /\ end.lost = 0 /\ request'[m] \in {"failed", "accepted"}
    BY <2>1, SentCounts DEF MailShape
  <2>3. request[m] = "sending" /\ delivered[m] = 0
    BY <1>4 DEF SendDirectly, Calm
  <2>4. end.copies \in Nat /\ end.copies <= 1 /\ delivered'[m] \in Nat
    BY <2>2, SendsEnd DEF MailShape
  <2>5. delivered'[m] <= 1
    BY <2>2, <2>3, <2>4
  <2>6. \A i \in JobIds : job[i].state # "none" => job[i].mail # m /\ job[i].mail \in Mails
    BY <2>3, JobFacts DEF Calm, JobRecord, Mails
  <2>7. Running => work.mail \in Mails \ {m}
    BY <2>6, JobFacts DEF Calm, Running, WorkRecord
  <2>8. UNCHANGED <<job, work, link>>
    BY <1>4 DEF SendDirectly
  <2>9. \A i \in JobIds : /\ job[i].state # "none" => request'[job[i].mail] = "accepted"
                          /\ job[i].state \in {"wait", "delayed", "failed"} => delivered'[job[i].mail] = 0
    BY <2>2, <2>6 DEF Calm
  <2>10. \A n \in Mails : delivered'[n] <= 1 /\ (request'[n] \in {"new", "adding", "sending"} => delivered'[n] = 0)
    BY <2>2, <2>5 DEF Calm
  <2> QED
    BY <2>2, <2>7, <2>8, <2>9, <2>10 DEF Calm, Running
<1> QED
  BY <1>1, <1>2, <1>3, <1>4

LEMMA WorkCalm ==
  ASSUME MailShape, Calm, faults' = 0, Work
  PROVE  Calm'
<1>1. ASSUME NEW j \in JobIds, Take(j)
      PROVE  Calm'
  <2>1. /\ job[j] \in JobRecord /\ job[j].state = "wait" /\ job[j].mail \in Mails
        /\ delivered[job[j].mail] = 0 /\ ~Running
    BY <1>1, JobFacts DEF Take, Calm, JobRecord, Mails, Running
  <2>2. \A i \in JobIds : job'[i] = IF i = j THEN [job[j] EXCEPT !.state = "active"] ELSE job[i]
    BY <1>1 DEF Take, MailShape
  <2>3. /\ [job[j] EXCEPT !.state = "active"].state = "active"
        /\ [job[j] EXCEPT !.state = "active"].mail = job[j].mail
    BY <2>1 DEF JobRecord
  <2>4. /\ work'.at = "send" /\ work'.job = j /\ work'.mail = job[j].mail /\ ~work'.lapsed
        /\ UNCHANGED <<request, link, delivered>>
    BY <1>1 DEF Take
  <2>5. \A i \in JobIds : /\ job'[i].state # "none" <=> job[i].state # "none"
                          /\ job'[i].mail = job[i].mail
                          /\ job'[i].state # "active" => job'[i] = job[i]
                          /\ job'[i].state = "active" => i = j
    BY <2>1, <2>2, <2>3 DEF Calm
  <2>6. job'[j].state = "active" /\ job'[j].mail = job[j].mail
    BY <2>2, <2>3
  <2>7. \A i \in JobIds : /\ job'[i].state # "none" => request[job'[i].mail] = "accepted"
                          /\ job'[i].state \in {"wait", "delayed", "failed"} => delivered[job'[i].mail] = 0
    BY <2>5 DEF Calm
  <2>8. \A i, k \in JobIds : job'[i].state # "none" /\ job'[k].state # "none" /\ job'[i].mail = job'[k].mail => i = k
    BY <2>5 DEF Calm
  <2> QED
    BY <2>1, <2>4, <2>5, <2>6, <2>7, <2>8 DEF Calm, Running
<1>2. CASE Process
  <2>1. work \in WorkRecord /\ work.mail \in Mails /\ work.at = "send" /\ work.job \in JobIds
    BY <1>2, JobFacts DEF Process, WorkRecord, Mails
  <2>2. PICK end \in Sends : Sent(work.mail, end) /\ work' = [work EXCEPT !.at = Attempt(end)]
    BY <1>2 DEF Process
  <2>3. /\ job[work.job].state = "active" /\ job[work.job].mail = work.mail /\ ~work.lapsed
        /\ delivered[work.mail] = 0 /\ request[work.mail] = "accepted"
    BY <2>1 DEF Calm, Running
  <2>4. /\ \A n \in Mails \ {work.mail} : delivered'[n] = delivered[n]
        /\ delivered[work.mail] <= delivered'[work.mail]
        /\ delivered'[work.mail] <= delivered[work.mail] + end.copies /\ end.lost = 0
        /\ delivered'[work.mail] \in 0 .. 2
    BY <2>1, <2>2, SentCounts
  <2>5. end.copies \in Nat /\ end.copies <= 1 /\ (end.thrown => end.copies = 0)
    BY <2>4, SendsEnd
  <2>6. delivered'[work.mail] <= 1 /\ (end.thrown => delivered'[work.mail] = 0)
    BY <2>3, <2>4, <2>5
  <2>7. /\ work'.at = Attempt(end) /\ work'.job = work.job /\ work'.mail = work.mail /\ ~work'.lapsed
        /\ work'.at # "send" /\ (work'.at = "failed" => end.thrown) /\ work'.at # "idle"
    BY <2>1, <2>2, <2>3 DEF WorkRecord, Attempt
  <2>8. UNCHANGED <<request, job, link>>
    BY <1>2 DEF Process
  <2>9. \A i \in JobIds : job[i].state \in {"wait", "delayed", "failed"} =>
          job[i].mail \in Mails \ {work.mail}
    BY <2>1, <2>3, JobFacts DEF Calm, JobRecord, Mails
  <2> QED
    BY <2>1, <2>3, <2>4, <2>6, <2>7, <2>8, <2>9 DEF Calm, Running
<1>3. CASE Complete \/ Fail
  <2>1. work \in WorkRecord /\ work.job \in JobIds /\ Running
    BY <1>3, JobFacts DEF Complete, Fail, WorkRecord, Running
  <2> DEFINE j == work.job
  <2>2. job[j].state = "active" /\ job[j] \in JobRecord /\ job[j].mail = work.mail
    BY <2>1, JobFacts DEF Calm
  <2>3. work'.at = "idle" /\ UNCHANGED <<request, link, delivered>>
    BY <1>3 DEF Complete, Fail, NoWork
  <2>4. ASSUME NEW new, \A i \in JobIds : job'[i] = IF i = j THEN new ELSE job[i],
               \/ new.state = "none"
               \/ new.mail = job[j].mail /\ new.state \in {"delayed", "failed"} /\ delivered[work.mail] = 0
        PROVE  Calm'
    <3>1. \A i \in JobIds : i # j => job[i].state # "active"
      BY <2>1 DEF Calm
    <3> QED
      BY <2>1, <2>2, <2>3, <2>4, <3>1 DEF Calm, Running
  <2>5. CASE Complete
    <3>1. \A i \in JobIds : job'[i] = IF i = j THEN NoJob ELSE job[i]
      BY <2>1, <2>2, <2>5 DEF Complete, MailShape
    <3> QED
      BY <2>4, <3>1, JobFacts
  <2>6. CASE Fail
    <3> DEFINE new == [job[j] EXCEPT !.made = Made(j), !.state = IF Made(j) < Attempts THEN "delayed" ELSE "failed"]
    <3>1. \A i \in JobIds : job'[i] = IF i = j THEN new ELSE job[i]
      BY <2>1, <2>2, <2>6 DEF Fail, MailShape
    <3>2. new.mail = job[j].mail /\ new.state \in {"delayed", "failed"}
      BY <2>2 DEF JobRecord
    <3>3. delivered[work.mail] = 0
      BY <2>1, <2>6 DEF Fail, Calm, Running
    <3> HIDE DEF new
    <3> QED
      BY <2>4, <3>1, <3>2, <3>3
  <2> QED
    BY <1>3, <2>5, <2>6
<1> QED
  BY <1>1, <1>2, <1>3 DEF Work

LEMMA QueueCalm ==
  ASSUME MailShape, Calm, faults' = 0,
         Lose \/ Reconnect \/ Crash \/ Restart \/ CleanQueue \/ \E j \in JobIds : Promote(j) \/ Recover(j)
  PROVE  Calm'
<1>1. ~(Lose \/ Reconnect \/ Crash \/ Restart \/ CleanQueue)
  BY DEF Lose, Reconnect, Crash, Restart, CleanQueue, Calm, MailShape
<1>2. ASSUME NEW j \in JobIds, Recover(j)
      PROVE  FALSE
  BY <1>2, JobFacts DEF Recover, Orphan, Held, Calm, Running
<1>3. ASSUME NEW j \in JobIds, Promote(j)
      PROVE  Calm'
  <2>1. job[j] \in JobRecord /\ job[j].state = "delayed"
    BY <1>3, JobFacts DEF Promote
  <2>2. \A i \in JobIds : job'[i] = IF i = j THEN [job[j] EXCEPT !.state = "wait"] ELSE job[i]
    BY <1>3 DEF Promote, MailShape
  <2>3. /\ [job[j] EXCEPT !.state = "wait"].state = "wait"
        /\ [job[j] EXCEPT !.state = "wait"].mail = job[j].mail
    BY <2>1 DEF JobRecord
  <2>4. UNCHANGED <<request, work, link, delivered>>
    BY <1>3 DEF Promote
  <2>5. \A i \in JobIds : /\ job'[i].state # "none" <=> job[i].state # "none"
                          /\ job'[i].mail = job[i].mail
                          /\ job'[i].state = "active" => i # j /\ job'[i] = job[i]
                          /\ job'[i].state # "active" => i = j \/ job'[i] = job[i]
    BY <2>1, <2>2, <2>3
  <2>6. delivered[job[j].mail] = 0
    BY <2>1 DEF Calm
  <2>7. Running => work.job \in JobIds \ {j} /\ job'[work.job] = job[work.job]
    BY <2>1, <2>2, JobFacts DEF Calm, Running, WorkRecord
  <2> QED
    BY <2>1, <2>2, <2>3, <2>4, <2>5, <2>6, <2>7 DEF Calm, Running
<1> QED
  BY <1>1, <1>2, <1>3

LEMMA CalmStep == MailShape /\ (faults = 0 => Calm) /\ [Next]_vars => (faults' = 0 => Calm')
<1> SUFFICES ASSUME MailShape, faults = 0 => Calm, [Next]_vars, faults' = 0 PROVE Calm'
  OBVIOUS
<1>1. Calm /\ MailShape'
  BY FaultsGrow, MailShapeStep
<1>2. CASE UNCHANGED vars
  BY <1>1, <1>2 DEF vars, Calm, Running
<1> QED
  BY <1>1, <1>2, MailSteps, ServeCalm, WorkCalm, QueueCalm

-----------------------------------------------------------------------------
(* Accepted mails are kept.  Sends of a development or simulated server     *)
(* report success without a copy, so both modes are off here.               *)

(* A step that keeps the jobs, or that changes one job of a mail: what is   *)
(* known of the others stays, as attempts and copies are only added.        *)
Adds == \A m \in Mails : tries[m] <= tries'[m] /\ delivered[m] <= delivered'[m]

LEMMA SameAdds == MailShape /\ UNCHANGED <<tries, delivered>> => Adds
BY DEF MailShape, Adds, Attempts

LEMMA JobKeptOn ==
  ASSUME MailShape, MailShape', Adds, NEW j \in JobIds, JobKept(j), job'[j] = job[j]
  PROVE  JobKept(j)'
<1>1. CASE job[j].state = "none"
  BY <1>1 DEF JobKept
<1>2. CASE job[j].state # "none"
  <2>1. job[j] \in JobRecord /\ job[j].mail \in Mails
    BY <1>2, JobFacts DEF JobRecord, Mails
  <2> DEFINE m == job[j].mail
  <2>2. tries[m] \in Nat /\ tries'[m] \in Nat /\ tries[m] <= tries'[m] /\ job[j].made \in Nat
    BY <2>1 DEF MailShape, Adds, Attempts, JobRecord
  <2> QED
    BY <1>2, <2>2 DEF JobKept, Attempts
<1> QED
  BY <1>1, <1>2

(* Mails stay accepted for the same reasons while no job goes. *)
LEMMA AcceptedOn ==
  ASSUME MailShape, MailShape', Adds, Kept, NEW m \in Mails, request'[m] = request[m],
         cleaned \subseteq cleaned',
         \A j \in JobIds : job[j].state # "none" => job'[j].state # "none" /\ job'[j].mail = job[j].mail
  PROVE  request'[m] = "accepted" => delivered'[m] > 0 \/ m \in cleaned' \/ JobsOf(m)' # {}
<1>1. JobsOf(m) # {} => JobsOf(m)' # {}
  BY DEF JobsOf
<1>2. delivered[m] \in 0 .. 2 /\ delivered'[m] \in 0 .. 2
  BY DEF MailShape
<1>3. delivered[m] > 0 => delivered'[m] > 0
  BY <1>2 DEF Adds
<1> QED
  BY <1>1, <1>3 DEF Kept

LEMMA ServeKept ==
  ASSUME ~Development, ~Simulate, MailShape, MailShape', Kept, NEW m \in Mails,
         Ask(m) \/ Add(m) \/ AddCutOff(m) \/ AddFails(m) \/ SendDirectly(m)
  PROVE  Kept'
<1>1. CASE Ask(m) \/ AddFails(m)
  <2>1. UNCHANGED <<job, work, delivered, tries, cleaned>> /\ \A n \in Mails : request'[n] = "accepted" => request[n] = "accepted"
    BY <1>1 DEF Ask, AddFails, MailShape
  <2> QED
    BY <2>1 DEF Kept, JobKept, WorkKept, Running, JobsOf
<1>2. CASE Add(m) \/ AddCutOff(m)
  <2>1. PICK j \in JobIds : job[j].state = "none" /\ job' = [job EXCEPT ![j] = Queued(m)]
    BY <1>2 DEF Add, AddCutOff, Free
  <2>2. /\ UNCHANGED <<work, delivered, tries, cleaned>>
        /\ \A n \in Mails \ {m} : request'[n] = request[n]
    BY <1>2 DEF Add, AddCutOff, MailShape
  <2>3. Adds
    BY <2>2, SameAdds
  <2>4. job'[j] = Queued(m) /\ \A i \in JobIds \ {j} : job'[i] = job[i]
    BY <2>1 DEF MailShape
  <2>5. Queued(m).state = "wait" /\ Queued(m).mail = m /\ Queued(m).made = 0 /\ Queued(m).stalls = 0
    BY DEF Queued
  <2>6. ASSUME NEW i \in JobIds PROVE JobKept(i)'
    <3>1. CASE i # j
      BY <2>3, <2>4, <3>1, JobKeptOn DEF Kept
    <3>2. CASE i = j
      <4>1. tries'[m] \in Nat /\ 0 < Attempts
        BY DEF MailShape, Attempts
      <4> QED
        BY <2>4, <2>5, <3>2, <4>1 DEF JobKept
    <3> QED
      BY <3>1, <3>2
  <2>7. WorkKept'
    <3>1. Running => work.job \in JobIds
      BY JobFacts DEF Running, WorkRecord
    <3> QED
      BY <2>2, <2>4, <2>5, <3>1 DEF Kept, WorkKept, Running
  <2>8. ASSUME NEW n \in Mails, request'[n] = "accepted"
        PROVE  delivered'[n] > 0 \/ n \in cleaned' \/ JobsOf(n)' # {}
    <3>1. CASE n = m
      BY <2>4, <2>5, <3>1 DEF JobsOf
    <3>2. CASE n # m
      BY <2>1, <2>2, <2>3, <2>4, <2>8, <3>2, AcceptedOn
    <3> QED
      BY <3>1, <3>2
  <2> QED
    BY <2>6, <2>7, <2>8 DEF Kept
<1>3. CASE SendDirectly(m)
  <2>1. PICK end \in Sends : Sent(m, end) /\ request' = [request EXCEPT ![m] = IF end.thrown THEN "failed" ELSE "accepted"]
    BY <1>3 DEF SendDirectly
  <2>2. /\ \A n \in Mails \ {m} : delivered'[n] = delivered[n] /\ tries'[n] = tries[n]
        /\ delivered[m] <= delivered'[m] /\ tries[m] <= tries'[m]
        /\ end.copies > 0 => delivered'[m] > 0
    BY <2>1, SentCounts
  <2>3. Adds
    BY <2>2 DEF Adds, MailShape, Attempts
  <2>4. UNCHANGED <<job, work, cleaned>>
    BY <1>3 DEF SendDirectly
  <2>5. \A i \in JobIds : JobKept(i)'
    BY <2>3, <2>4, JobKeptOn DEF Kept
  <2>6. WorkKept'
    <3>1. Running => work.job \in JobIds /\ work.mail \in Mails
      BY JobFacts DEF Running, WorkRecord, Mails
    <3>2. job[work.job].state = "active" /\ Running => job[work.job] \in JobRecord
      BY <3>1, JobFacts
    <3>3. \A n \in Mails : /\ tries[n] \in Nat /\ tries'[n] \in Nat /\ tries[n] <= tries'[n]
                           /\ delivered[n] \in Nat /\ delivered'[n] \in Nat /\ delivered[n] <= delivered'[n]
      BY <2>3 DEF Adds, MailShape, Attempts
    <3> QED
      BY <2>4, <3>1, <3>2, <3>3 DEF Kept, WorkKept, Running, JobRecord
  <2>7. ASSUME NEW n \in Mails, request'[n] = "accepted"
        PROVE  delivered'[n] > 0 \/ n \in cleaned' \/ JobsOf(n)' # {}
    <3>1. CASE n = m
      <4>1. request'[m] = IF end.thrown THEN "failed" ELSE "accepted"
        BY <2>1 DEF MailShape
      <4>2. ~end.thrown
        BY <2>7, <3>1, <4>1
      <4>3. end.copies > 0
        BY <4>2, SendsEnd
      <4> QED
        BY <2>2, <3>1, <4>3
    <3>2. CASE n # m
      <4>1. request'[n] = request[n]
        BY <2>1, <3>2 DEF MailShape
      <4> QED
        BY <2>3, <2>4, <2>7, <4>1, AcceptedOn
    <3> QED
      BY <3>1, <3>2
  <2> QED
    BY <2>5, <2>6, <2>7 DEF Kept
<1> QED
  BY <1>1, <1>2, <1>3

(* One job moves on, or goes once its mail is delivered. *)
LEMMA JobMoves ==
  ASSUME MailShape, MailShape', Kept, UNCHANGED <<request, delivered, tries, cleaned>>, WorkKept',
         NEW j \in JobIds, \A i \in JobIds \ {j} : job'[i] = job[i], JobKept(j)',
         job[j].state # "none",
         \/ job'[j].state # "none" /\ job'[j].mail = job[j].mail
         \/ delivered[job[j].mail] > 0
  PROVE  Kept'
<1>1. Adds
  BY SameAdds
<1>2. \A i \in JobIds : JobKept(i)'
  BY <1>1, JobKeptOn DEF Kept
<1>3. ASSUME NEW n \in Mails, request'[n] = "accepted"
      PROVE  delivered'[n] > 0 \/ n \in cleaned' \/ JobsOf(n)' # {}
  <2>1. CASE n = job[j].mail /\ delivered[n] > 0
    BY <2>1
  <2>2. CASE JobsOf(n) # {} /\ ~(n = job[j].mail /\ delivered[n] > 0)
    <3>1. PICK i \in JobIds : job[i].state # "none" /\ job[i].mail = n
      BY <2>2 DEF JobsOf
    <3>2. job'[i].state # "none" /\ job'[i].mail = n
      BY <2>2, <3>1
    <3> QED
      BY <3>2 DEF JobsOf
  <2> QED
    BY <1>3, <2>1, <2>2 DEF Kept
<1> QED
  BY <1>2, <1>3 DEF Kept

LEMMA WorkKeeps ==
  ASSUME ~Development, ~Simulate, MailShape, MailShape', Kept, Work
  PROVE  Kept'
<1>1. ASSUME NEW j \in JobIds, Take(j)
      PROVE  Kept'
  <2>1. job[j] \in JobRecord /\ job[j].state = "wait"
    BY <1>1, JobFacts DEF Take
  <2>2. job'[j] = [job[j] EXCEPT !.state = "active"] /\ \A i \in JobIds \ {j} : job'[i] = job[i]
    BY <1>1 DEF Take, MailShape
  <2>3. /\ job'[j].state = "active" /\ job'[j].mail = job[j].mail /\ job'[j].made = job[j].made
        /\ job'[j].stalls = job[j].stalls
    BY <2>1, <2>2 DEF JobRecord
  <2>4. UNCHANGED <<request, delivered, tries, cleaned>>
    BY <1>1 DEF Take
  <2>5. JobKept(j)'
    BY <2>1, <2>3, <2>4 DEF Kept, JobKept
  <2>6. WorkKept'
    BY <1>1, <2>3 DEF Take, WorkKept
  <2> QED
    BY <2>1, <2>2, <2>3, <2>4, <2>5, <2>6, JobMoves
<1>2. CASE Process
  <2>1. work \in WorkRecord /\ work.mail \in Mails /\ work.at = "send" /\ work.job \in JobIds
    BY <1>2, JobFacts DEF Process, WorkRecord, Mails
  <2>2. PICK end \in Sends : Sent(work.mail, end) /\ work' = [work EXCEPT !.at = Attempt(end)]
    BY <1>2 DEF Process
  <2>3. /\ \A n \in Mails \ {work.mail} : delivered'[n] = delivered[n] /\ tries'[n] = tries[n]
        /\ delivered[work.mail] <= delivered'[work.mail] /\ tries[work.mail] <= tries'[work.mail]
        /\ end.copies > 0 => delivered'[work.mail] > 0
        /\ tries[work.mail] < Attempts => tries'[work.mail] = tries[work.mail] + 1
    BY <2>1, <2>2, SentCounts
  <2>4. Adds
    BY <2>3 DEF Adds, MailShape, Attempts
  <2>5. UNCHANGED <<request, job, cleaned>>
    BY <1>2 DEF Process
  <2>6. \A i \in JobIds : JobKept(i)'
    BY <2>4, <2>5, JobKeptOn DEF Kept
  <2>7. /\ work'.at = Attempt(end) /\ work'.job = work.job /\ work'.mail = work.mail
        /\ work'.at = "sent" => ~end.thrown
    BY <2>1, <2>2 DEF WorkRecord, Attempt
  <2>8. ASSUME job[work.job].state = "active"
        PROVE  /\ job[work.job].mail = work.mail
               /\ job[work.job].made + 1 <= tries'[work.mail]
               /\ work'.at = "sent" => delivered'[work.mail] > 0
    <3>1. job[work.job] \in JobRecord /\ job[work.job].mail = work.mail
      BY <2>1, <2>8, JobFacts DEF Kept, WorkKept, Running
    <3>2. job[work.job].made <= tries[work.mail] /\ job[work.job].made < Attempts
      BY <2>1, <2>8, <3>1 DEF Kept, JobKept
    <3>3. job[work.job].made \in Nat /\ tries[work.mail] \in 0 .. Attempts /\ tries'[work.mail] \in 0 .. Attempts
      BY <2>1, <3>1 DEF JobRecord, MailShape
    <3>4. job[work.job].made + 1 <= tries'[work.mail]
      BY <2>3, <3>2, <3>3 DEF Attempts
    <3>5. ~end.thrown => end.copies > 0
      BY SendsEnd
    <3> QED
      BY <2>3, <2>7, <3>1, <3>4, <3>5
  <2>9. WorkKept'
    BY <2>5, <2>7, <2>8 DEF WorkKept
  <2>10. \A n \in Mails : request'[n] = "accepted" => delivered'[n] > 0 \/ n \in cleaned' \/ JobsOf(n)' # {}
    BY <2>4, <2>5, AcceptedOn
  <2> QED
    BY <2>6, <2>9, <2>10 DEF Kept
<1>3. CASE Complete \/ Fail
  <2>1. work \in WorkRecord /\ work.job \in JobIds /\ Running
    BY <1>3, JobFacts DEF Complete, Fail, WorkRecord, Running
  <2> PICK j \in JobIds : j = work.job
    BY <2>1
  <2>2. ~Running' /\ UNCHANGED <<request, delivered, tries, cleaned>>
    BY <1>3 DEF Complete, Fail, NoWork, Running
  <2>3. WorkKept'
    BY <2>2 DEF WorkKept
  <2>4. CASE job' = job
    BY <2>2, <2>3, <2>4 DEF Kept, JobKept, JobsOf
  <2>5. CASE job[j].state = "active" /\ job' # job
    <3>1. job[j] \in JobRecord /\ job[j].mail = work.mail
      BY <2>1, <2>5, JobFacts DEF Kept, WorkKept
    <3>2. CASE Complete
      <4>1. job'[j] = NoJob /\ \A i \in JobIds \ {j} : job'[i] = job[i]
        BY <2>1, <2>5, <3>2 DEF Complete, MailShape
      <4>2. delivered[job[j].mail] > 0
        BY <2>1, <2>5, <3>1, <3>2 DEF Complete, Kept, WorkKept
      <4>3. JobKept(j)'
        BY <4>1 DEF JobKept, NoJob
      <4> QED
        BY <2>1, <2>2, <2>3, <2>5, <4>1, <4>2, <4>3, JobMoves
    <3>3. CASE Fail
      <4> DEFINE new == [job[j] EXCEPT !.made = Made(j), !.state = IF Made(j) < Attempts THEN "delayed" ELSE "failed"]
      <4>1. job'[j] = new /\ \A i \in JobIds \ {j} : job'[i] = job[i]
        BY <2>1, <2>5, <3>3 DEF Fail, MailShape
      <4>2. /\ new.mail = job[j].mail /\ new.made = job[j].made + 1 /\ new.stalls = job[j].stalls
            /\ new.state = IF job[j].made + 1 < Attempts THEN "delayed" ELSE "failed"
        BY <3>1 DEF JobRecord, Made
      <4> HIDE DEF new
      <4>3. job[j].made + 1 <= tries[work.mail] /\ job[j].stalls <= 1
        BY <2>1, <2>5, <3>1, <3>3 DEF Fail, Kept, WorkKept, JobKept
      <4>4. job[j].made \in Nat /\ tries[work.mail] \in Nat /\ job[j].stalls \in Nat
        BY <2>1, <3>1 DEF JobRecord, WorkRecord, MailShape, Attempts, Mails
      <4>5. JobKept(j)'
        BY <2>2, <3>1, <4>1, <4>2, <4>3, <4>4 DEF JobKept, Attempts
      <4>6. new.state # "none"
        BY <4>2
      <4> QED
        BY <2>1, <2>2, <2>3, <2>5, <4>1, <4>2, <4>5, <4>6, JobMoves
    <3> QED
      BY <1>3, <3>2, <3>3
  <2> QED
    BY <1>3, <2>4, <2>5 DEF Complete, Fail
<1> QED
  BY <1>1, <1>2, <1>3 DEF Work

LEMMA QueueKept ==
  ASSUME MailShape, MailShape', Kept, NEW j \in JobIds, Promote(j) \/ Recover(j)
  PROVE  Kept'
<1>1. job[j] \in JobRecord /\ UNCHANGED <<request, work, delivered, tries, cleaned>>
  BY JobFacts DEF Promote, Recover, Orphan
<1>2. Running => work.job \in JobIds
  BY JobFacts DEF Running, WorkRecord
<1>3. ASSUME NEW new, job' = [job EXCEPT ![j] = new], new.state # "active", new.state # "none",
             new.mail = job[j].mail, new.made = job[j].made,
             new.state # "failed" => job[j].state # "failed" /\ new.stalls <= 1,
             new.state = "failed" => new.stalls = 2
      PROVE  Kept'
  <2>1. job'[j] = new /\ \A i \in JobIds \ {j} : job'[i] = job[i]
    BY <1>3 DEF MailShape
  <2>2. JobKept(j)'
    BY <1>1, <1>3, <2>1 DEF Kept, JobKept, JobRecord
  <2>3. WorkKept'
    BY <1>1, <1>2, <1>3, <2>1 DEF Kept, WorkKept, Running
  <2> QED
    BY <1>1, <1>3, <2>1, <2>2, <2>3, JobMoves DEF JobRecord
<1>4. CASE Promote(j)
  <2>1. /\ [job[j] EXCEPT !.state = "wait"].state = "wait"
        /\ [job[j] EXCEPT !.state = "wait"].mail = job[j].mail
        /\ [job[j] EXCEPT !.state = "wait"].made = job[j].made
        /\ [job[j] EXCEPT !.state = "wait"].stalls = job[j].stalls
    BY <1>1 DEF JobRecord
  <2>2. job[j].state = "delayed" /\ job' = [job EXCEPT ![j] = [job[j] EXCEPT !.state = "wait"]]
    BY <1>4 DEF Promote
  <2>3. job[j].stalls <= 1
    BY <2>2 DEF Kept, JobKept
  <2> QED
    BY <1>3, <2>1, <2>2, <2>3
<1>5. CASE Recover(j)
  <2> DEFINE new == [job[j] EXCEPT !.stalls = @ + 1, !.state = IF job[j].stalls = 0 THEN "wait" ELSE "failed"]
  <2>1. /\ new.state = IF job[j].stalls = 0 THEN "wait" ELSE "failed"
        /\ new.mail = job[j].mail /\ new.made = job[j].made /\ new.stalls = job[j].stalls + 1
    BY <1>1 DEF JobRecord
  <2>2. job[j].state = "active" /\ job' = [job EXCEPT ![j] = new]
    BY <1>5 DEF Recover, Orphan
  <2>3. job[j].stalls \in Nat /\ job[j].stalls <= 1
    BY <1>1, <2>2 DEF Kept, JobKept, JobRecord
  <2> HIDE DEF new
  <2>4. CASE job[j].stalls = 0
    <3>1. new.state = "wait" /\ new.stalls = 1
      BY <2>1, <2>4
    <3>2. new.stalls <= 1 /\ new.state # "active" /\ new.state # "none" /\ new.state # "failed"
      BY <3>1
    <3>3. job[j].state # "failed"
      BY <2>2
    <3> QED
      BY <1>3, <2>1, <2>2, <3>2, <3>3
  <2>5. CASE job[j].stalls = 1
    <3>1. new.state = "failed" /\ new.stalls = 2
      BY <2>1, <2>5
    <3> QED
      BY <1>3, <2>1, <2>2, <3>1
  <2> QED
    BY <2>3, <2>4, <2>5
<1> QED
  BY <1>4, <1>5

LEMMA FaultKept ==
  ASSUME MailShape, MailShape', Kept, Lose \/ Reconnect \/ Crash \/ Restart \/ CleanQueue
  PROVE  Kept'
<1>1. CASE Lose \/ Reconnect
  <2>1. /\ UNCHANGED <<request, job, delivered, tries, cleaned>>
        /\ work' = work \/ (work # NoWork /\ work' = [work EXCEPT !.lapsed = TRUE])
    BY <1>1 DEF Lose, Reconnect
  <2>2. \/ work' = work
        \/ Running /\ work'.at = work.at /\ work'.job = work.job /\ work'.mail = work.mail
    BY <2>1, JobFacts DEF WorkRecord, Running
  <2> QED
    BY <2>1, <2>2 DEF Kept, JobKept, WorkKept, Running, JobsOf
<1>2. CASE Crash \/ Restart
  <2>1. /\ UNCHANGED <<job, delivered, tries, cleaned>> /\ ~Running'
        /\ \A m \in Mails : request'[m] = "accepted" => request[m] = "accepted"
    BY <1>2 DEF Crash, Restart, Restarted, Running, NoWork, MailShape
  <2> QED
    BY <2>1 DEF Kept, JobKept, WorkKept, JobsOf
<1>3. CASE CleanQueue
  <2>1. /\ \A j \in JobIds : job'[j].state = "none"
        /\ cleaned' = cleaned \cup {m \in Mails : JobsOf(m) # {}}
        /\ UNCHANGED <<request, work, delivered, tries>>
    BY <1>3 DEF CleanQueue, NoJob
  <2>2. Running => work.job \in JobIds
    BY JobFacts DEF Running, WorkRecord
  <2> QED
    BY <2>1, <2>2 DEF Kept, JobKept, WorkKept, Running
<1> QED
  BY <1>1, <1>2, <1>3

LEMMA KeptStep ==
  ASSUME ~Development, ~Simulate
  PROVE  MailShape /\ Kept /\ [Next]_vars => Kept'
<1> SUFFICES ASSUME MailShape, Kept, [Next]_vars PROVE Kept'
  OBVIOUS
<1>1. MailShape'
  BY MailShapeStep
<1>2. CASE UNCHANGED vars
  BY <1>2 DEF vars, Kept, JobKept, WorkKept, Running, JobsOf
<1> QED
  BY <1>1, <1>2, MailSteps, ServeKept, WorkKeeps, QueueKept, FaultKept

-----------------------------------------------------------------------------
(* The queue's behaviours among those that are model-checked. *)
LEMMA OfficeSteps == Spec \/ OfficeSpec => Init /\ [][Next]_vars
<1>1. OfficeInit => Init
  BY DEF OfficeInit
<1>2. [/\ \/ what = "queue" /\ Next /\ UNCHANGED notices
          \/ what = "trip" /\ AnyEvent /\ UNCHANGED vars
          \/ what = "orders" /\ OrderEvents /\ UNCHANGED vars
       /\ UNCHANGED what]_<<vars, notices, what>> => [Next]_vars
  OBVIOUS
<1> QED
  BY <1>1, <1>2, PTL DEF Spec, OfficeSpec

(* Until something breaks or an answer of a provider is lost, no mail is    *)
(* delivered twice (mailer.service returns after a success, the queue keeps *)
(* one job per reset and the worker runs it once at a time).                *)
THEOREM MailsComeOnce == Spec \/ OfficeSpec => []NoDuplicateWithoutFault
<1>1. Init => MailShape /\ (faults = 0 => Calm)
  BY InitMailShape, InitCalmKept
<1>2. MailShape /\ (faults = 0 => Calm) /\ [Next]_vars => (MailShape /\ (faults = 0 => Calm))'
  BY MailShapeStep, CalmStep
<1>3. MailShape /\ (faults = 0 => Calm) => NoDuplicateWithoutFault
  BY DEF NoDuplicateWithoutFault, Calm
<1> QED
  BY <1>1, <1>2, <1>3, OfficeSteps, PTL

(* On a server that really sends, a mail whose request was answered is      *)
(* delivered or still has its job, and a job is only given up after three   *)
(* attempts or two dead workers, whatever connections, workers and answers  *)
(* are lost (mail.service.ts, mail.processor.ts).                           *)
THEOREM AcceptedMailsAreKept ==
  ASSUME ~Development, ~Simulate
  PROVE  Spec \/ OfficeSpec => []AcceptedIsKept
<1>1. Init => MailShape /\ Kept
  BY InitMailShape, InitCalmKept
<1>2. MailShape /\ Kept /\ [Next]_vars => MailShape' /\ Kept'
  BY MailShapeStep, KeptStep
<1>3. MailShape /\ Kept => AcceptedIsKept
  BY DEF AcceptedIsKept, Kept, JobKept, JobsOf
<1> QED
  BY <1>1, <1>2, <1>3, OfficeSteps, PTL

-----------------------------------------------------------------------------
(* Notices.  What a sender has still to do and what it has done add up to    *)
(* at most one notice and one mail for each account; what it neither did nor *)
(* has left, failed.                                                        *)
SenderRecord ==
  [at : {"none", "check", "warn", "tell", "mail", "done", "lost"}, kind : {"none", "trip", "order"},
   ends : SUBSET Hubs, hubs : Seq(Hubs), list : [Users -> {0, 1}], admins : SUBSET Users,
   user : Users \cup {Desk!AnyUser}]
Tallies == [Users -> Nat]

Failed(e, u, channel) == <<e, u, channel>> \in failed

(* A sender that has not begun, or is through, has nothing left. *)
Idle(s) == s.at \in {"none", "done", "lost"} => s.list = Desk!Nobody
Unbegun(e) == sender[e].at = "none" =>
  /\ notice[e] = Desk!Nobody /\ mail[e] = Desk!Nobody
  /\ \A u \in Users : ~Failed(e, u, "notice") /\ ~Failed(e, u, "mail")

NoSecond(s, told, mailed) ==
  \A u \in Users :
    /\ told[u] + s.list[u] <= 1
    /\ mailed[u] + s.list[u] <= 1
    /\ s.at = "mail" /\ s.user = u => mailed[u] = 0 /\ s.list[u] = 0

(* A hub of the trip that nobody manages is still to be looked at, or its   *)
(* warnings are under way, or done.                                         *)
Reports(e, s, warned) ==
  /\ \A h \in s.ends : Desk!ManagersOf(h) = {} =>
       \/ \E i \in DOMAIN s.hubs : s.hubs[i] = h
       \/ \A a \in Desk!Admins : a \in s.admins \/ warned[a] >= 1
       \/ \E a \in Desk!Admins : Failed(e, a, "alert")
  /\ s.at \notin {"check", "warn"} => s.hubs = <<>>
  /\ s.at # "warn" => s.admins = {}
  /\ s.admins \subseteq Desk!Admins

NoticeOK(e) ==
  /\ sender[e] \in SenderRecord /\ notice[e] \in Tallies /\ mail[e] \in Tallies /\ alert[e] \in Tallies
  /\ Idle(sender[e]) /\ Unbegun(e)
  /\ NoSecond(sender[e], notice[e], mail[e])
  /\ Reports(e, sender[e], alert[e])

(* The sender of an order event: each channel of each account on its own. *)
Separate(e, s, told, mailed) ==
  /\ s.kind # "trip" /\ s.at \in {"none", "tell", "mail", "done"}
  /\ s.at # "none" => \A u \in Desk!Admins : s.list[u] = 1 \/ told[u] = 1 \/ Failed(e, u, "notice")
  /\ s.at # "none" => \A u \in Users \cap Mailbox : told[u] = 1 \/ Failed(e, u, "notice") =>
       mailed[u] = 1 \/ Failed(e, u, "mail") \/ (s.at = "mail" /\ s.user = u)

SeparateOK(e) == Separate(e, sender[e], notice[e], mail[e])

NoticesOK ==
  /\ DOMAIN sender = Events /\ DOMAIN notice = Events /\ DOMAIN mail = Events /\ DOMAIN alert = Events
  /\ \A e \in Events : NoticeOK(e)
  /\ what = "orders" => \A e \in Events : SeparateOK(e)

(* The columns of a sender after each kind of step. *)
SameWork(n, s) == n.kind = s.kind /\ n.ends = s.ends /\ n.hubs = s.hubs /\ n.admins = s.admins

LEMMA SenderToldIs ==
  ASSUME NEW e, sender[e] \in SenderRecord, NEW u \in Users, sender[e].list[u] = 1
  PROVE  /\ Desk!Told(e, u) \in SenderRecord /\ SameWork(Desk!Told(e, u), sender[e])
         /\ Desk!Told(e, u).at = "mail" /\ Desk!Told(e, u).user = u
         /\ Desk!Told(e, u).list = [sender[e].list EXCEPT ![u] = 0]
<1> DEFINE s == sender[e]
           less == [s.list EXCEPT ![u] = 0]
<1>1. s.list \in [Users -> {0, 1}] /\ less \in [Users -> {0, 1}]
  BY DEF SenderRecord
<1>2. [s.list EXCEPT ![u] = @ - 1] = less
  BY <1>1
<1>3. Desk!Told(e, u) = [s EXCEPT !.at = "mail", !.user = u, !.list = less]
  BY <1>2 DEF Desk!Told, SenderRecord
<1> HIDE DEF less
<1> QED
  BY <1>1, <1>3 DEF SenderRecord, SameWork, less

LEMMA SenderMailedIs ==
  ASSUME NEW e, sender[e] \in SenderRecord
  PROVE  /\ Desk!Mailed(e) \in SenderRecord /\ SameWork(Desk!Mailed(e), sender[e])
         /\ Desk!Mailed(e).at = "tell" /\ Desk!Mailed(e).list = sender[e].list
BY DEF Desk!Mailed, SenderRecord, SameWork

LEMMA SenderAsleepIs ==
  ASSUME NEW at \in {"none", "done", "lost"}, NEW ends \in SUBSET Hubs
  PROVE  /\ Desk!Asleep(at, ends) \in SenderRecord
         /\ Desk!Asleep(at, ends).at = at /\ Desk!Asleep(at, ends).kind = "none"
         /\ Desk!Asleep(at, ends).list = Desk!Nobody /\ Desk!Asleep(at, ends).hubs = <<>>
         /\ Desk!Asleep(at, ends).admins = {} /\ Desk!Asleep(at, ends).ends = ends
BY DEF Desk!Asleep, Desk!Sender, Desk!Nobody, SenderRecord

Begun(n, at, kind, ends, hubs, list) ==
  /\ n \in SenderRecord
  /\ n.at = at /\ n.kind = kind /\ n.list = list /\ n.hubs = hubs /\ n.admins = {} /\ n.ends = ends

LEMMA SenderBegunIs ==
  ASSUME NEW at \in {"check", "tell"}, NEW kind \in {"trip", "order"}, NEW ends \in SUBSET Hubs,
         NEW hubs \in Seq(Hubs), NEW list \in [Users -> {0, 1}]
  PROVE  Begun(Desk!Sender(at, kind, ends, hubs, list), at, kind, ends, hubs, list)
BY DEF Begun, Desk!Sender, SenderRecord

(* The list of a trip names an account at most once: a manager is in no     *)
(* other role.                                                              *)
LEMMA TripListNamesOnce ==
  ASSUME NEW from \in Hubs \cup {NoHub}, NEW to \in Hubs \cup {NoHub}
  PROVE  Desk!TripList(from, to) \in [Users -> {0, 1}]
<1>1. ASSUME NEW v \in Users
      PROVE  Desk!ManagerTimes(v, from, to) + Desk!Times(Role[v] \in {"DISPATCHER", "FLEET", "ADMIN"}) \in {0, 1}
  <2>1. Desk!ManagerTimes(v, from, to) \in {0, 1}
    BY DEF Desk!ManagerTimes, Desk!Times
  <2>2. Role[v] \in {"DISPATCHER", "FLEET", "ADMIN"} => Desk!ManagerTimes(v, from, to) = 0
    BY DEF Desk!ManagerTimes, Desk!Times
  <2>3. CASE Role[v] \in {"DISPATCHER", "FLEET", "ADMIN"}
    BY <2>2, <2>3 DEF Desk!Times
  <2>4. CASE Role[v] \notin {"DISPATCHER", "FLEET", "ADMIN"}
    BY <2>1, <2>4 DEF Desk!Times
  <2> QED
    BY <2>3, <2>4
<1> QED
  BY <1>1 DEF Desk!TripList

(* Every hub of the trip is looked at. *)
LEMMA HubsAreChecked ==
  ASSUME NEW from \in Hubs \cup {NoHub}, NEW to \in Hubs \cup {NoHub}
  PROVE  /\ Desk!HubsOf(from, to) \in SUBSET Hubs
         /\ Desk!HubsToCheck(from, to) \in Seq(Hubs)
         /\ \A h \in Desk!HubsOf(from, to) :
              \E i \in DOMAIN Desk!HubsToCheck(from, to) : Desk!HubsToCheck(from, to)[i] = h
<1>1. CASE from = NoHub /\ to = NoHub
  BY <1>1 DEF Desk!HubsOf, Desk!HubsToCheck
<1>2. CASE from = NoHub /\ to # NoHub
  <2>1. Desk!HubsToCheck(from, to) = <<to>>
    BY <1>2 DEF Desk!HubsToCheck
  <2>2. <<to>>[1] = to /\ DOMAIN <<to>> = {1}
    OBVIOUS
  <2>3. Desk!HubsOf(from, to) = {to} /\ to \in Hubs
    BY <1>2 DEF Desk!HubsOf
  <2> QED
    BY <2>1, <2>2, <2>3
<1>3. CASE from # NoHub /\ to = NoHub
  <2>1. Desk!HubsToCheck(from, to) = <<from>>
    BY <1>3 DEF Desk!HubsToCheck
  <2>2. <<from>>[1] = from /\ DOMAIN <<from>> = {1}
    OBVIOUS
  <2>3. Desk!HubsOf(from, to) = {from} /\ from \in Hubs
    BY <1>3 DEF Desk!HubsOf
  <2> QED
    BY <2>1, <2>2, <2>3
<1>4. CASE from # NoHub /\ to # NoHub
  <2> DEFINE q == <<from>> \o <<to>>
  <2>1. Desk!HubsToCheck(from, to) = q
    BY <1>4 DEF Desk!HubsToCheck
  <2>2. Desk!HubsOf(from, to) = {from, to} /\ from \in Hubs /\ to \in Hubs
    BY <1>4 DEF Desk!HubsOf
  <2>3. q \in Seq(Hubs) /\ Len(q) = 2 /\ q[1] = from /\ q[2] = to
    BY <2>2
  <2> HIDE DEF q
  <2>4. 1 \in DOMAIN q /\ 2 \in DOMAIN q
    BY <2>3
  <2> QED
    BY <2>1, <2>2, <2>3, <2>4
<1> QED
  BY <1>1, <1>2, <1>3, <1>4

(* A step of one event: nothing of another event changes. *)
Apart(e) ==
  /\ DOMAIN sender' = Events /\ DOMAIN notice' = Events /\ DOMAIN mail' = Events /\ DOMAIN alert' = Events
  /\ \A f \in Events \ {e} :
       /\ sender'[f] = sender[f] /\ notice'[f] = notice[f] /\ mail'[f] = mail[f] /\ alert'[f] = alert[f]
       /\ \A u, c : <<f, u, c>> \in failed' <=> <<f, u, c>> \in failed

(* What holds of an event after a step, in the worlds that take it. *)
StepOK(e) == NoticeOK(e) /\ (what = "orders" => SeparateOK(e))

LEMMA Advance ==
  ASSUME NoticesOK, NEW e \in Events, what' = what, Apart(e), StepOK(e)'
  PROVE  NoticesOK'
<1>1. ASSUME NEW f \in Events \ {e} PROVE NoticeOK(f)' /\ (SeparateOK(f) => SeparateOK(f)')
  <2>1. /\ sender'[f] = sender[f] /\ notice'[f] = notice[f] /\ mail'[f] = mail[f] /\ alert'[f] = alert[f]
        /\ \A u, c : Failed(f, u, c)' <=> Failed(f, u, c)
    BY DEF Apart, Failed
  <2>2. NoticeOK(f)
    BY DEF NoticesOK
  <2>3. Unbegun(f)'
    BY <2>1, <2>2 DEF NoticeOK, Unbegun
  <2>4. Reports(f, sender[f], alert[f])'
    BY <2>1, <2>2 DEF NoticeOK, Reports
  <2>5. Idle(sender[f])' /\ NoSecond(sender[f], notice[f], mail[f])'
    BY <2>1, <2>2 DEF NoticeOK, Idle, NoSecond
  <2>6. SeparateOK(f) => SeparateOK(f)'
    BY <2>1 DEF SeparateOK, Separate
  <2> QED
    BY <2>1, <2>2, <2>3, <2>4, <2>5, <2>6 DEF NoticeOK
<1>2. \A f \in Events : NoticeOK(f)' /\ (what = "orders" => SeparateOK(f)')
  BY <1>1 DEF StepOK, NoticesOK
<1> QED
  BY <1>2 DEF NoticesOK, Apart

(* Steps that leave the rows alone touch one sender only. *)
LEMMA SenderAlone ==
  ASSUME NoticesOK, NEW e \in Events, NEW s, Desk!Go(e, s), UNCHANGED <<notice, mail, alert, failed>>
  PROVE  Apart(e) /\ sender'[e] = s
BY DEF Apart, Desk!Go, NoticesOK

(* An event is confirmed or submitted. *)
LEMMA BeginOK ==
  ASSUME NoticesOK, NEW e \in Events, NEW s, Desk!Is(e, "none"), s \in SenderRecord, s.at \in {"check", "tell"},
         s.admins = {}, s.at = "tell" => s.hubs = <<>>,
         \A h \in s.ends : \E i \in DOMAIN s.hubs : s.hubs[i] = h,
         Desk!Go(e, s), UNCHANGED <<notice, mail, alert, failed>>, what' = what,
         what = "orders" => /\ s.kind = "order" /\ s.at = "tell"
                            /\ \A a \in Desk!Admins : s.list[a] = 1
  PROVE  NoticesOK'
<1>1. Apart(e) /\ sender'[e] = s
  BY SenderAlone
<1>2. NoticeOK(e) /\ sender[e].at = "none"
  BY DEF NoticesOK, Desk!Is
<1>3. /\ notice[e] = Desk!Nobody /\ mail[e] = Desk!Nobody
      /\ \A u \in Users : ~Failed(e, u, "notice") /\ ~Failed(e, u, "mail")
  BY <1>2 DEF NoticeOK, Unbegun
<1>4. NoSecond(s, notice[e], mail[e])
  BY <1>3 DEF NoSecond, Desk!Nobody, SenderRecord
<1>5. Reports(e, s, alert[e])
  BY DEF Reports
<1>6. NoticeOK(e)'
  <2>1. Idle(s) /\ s.at # "none"
    BY DEF Idle
  <2>2. Reports(e, s, alert[e])' /\ Unbegun(e)'
    BY <1>1, <1>5, <2>1 DEF Reports, Failed, Unbegun
  <2> QED
    BY <1>1, <1>2, <1>4, <2>1, <2>2 DEF NoticeOK
<1>7. what = "orders" => SeparateOK(e)'
  <2> SUFFICES ASSUME what = "orders" PROVE SeparateOK(e)'
    OBVIOUS
  <2>1. Separate(e, s, notice[e], mail[e])
    BY <1>3 DEF Separate, Desk!Nobody
  <2> QED
    BY <1>1, <2>1 DEF Separate, SeparateOK, Failed
<1> QED
  BY <1>1, <1>6, <1>7, Advance DEF StepOK

LEMMA TripConfirmedOK ==
  ASSUME NoticesOK, NEW e \in Events, Desk!Trip(e), what' = what, what # "orders"
  PROVE  NoticesOK'
<1> PICK from \in Desk!Places, to \in Desk!Places : Desk!TripConfirmed(e, from, to)
  BY DEF Desk!Trip
<1> DEFINE s == Desk!Sender("check", "trip", Desk!HubsOf(from, to), Desk!HubsToCheck(from, to),
                            Desk!TripList(from, to))
<1>1. from \in Hubs \cup {NoHub} /\ to \in Hubs \cup {NoHub}
  BY DEF Desk!Places
<1>2. /\ s \in SenderRecord /\ s.at = "check" /\ s.admins = {} /\ s.ends = Desk!HubsOf(from, to)
      /\ s.hubs = Desk!HubsToCheck(from, to)
  <2>1. /\ Desk!HubsOf(from, to) \in SUBSET Hubs /\ Desk!HubsToCheck(from, to) \in Seq(Hubs)
        /\ Desk!TripList(from, to) \in [Users -> {0, 1}]
        /\ "check" \in {"check", "tell"} /\ "trip" \in {"trip", "order"}
    BY <1>1, HubsAreChecked, TripListNamesOnce
  <2>2. Begun(s, "check", "trip", Desk!HubsOf(from, to), Desk!HubsToCheck(from, to), Desk!TripList(from, to))
    BY <2>1, SenderBegunIs, Zenon
  <2> HIDE DEF s
  <2> QED
    BY <2>2 DEF Begun
<1>3. Desk!Is(e, "none") /\ Desk!Go(e, s) /\ UNCHANGED <<notice, mail, alert, failed>>
  BY DEF Desk!TripConfirmed
<1> HIDE DEF s
<1>4. \A h \in s.ends : \E i \in DOMAIN s.hubs : s.hubs[i] = h
  <2>1. \A h \in Desk!HubsOf(from, to) :
          \E i \in DOMAIN Desk!HubsToCheck(from, to) : Desk!HubsToCheck(from, to)[i] = h
    BY <1>1, HubsAreChecked, Zenon
  <2>2. s.ends = Desk!HubsOf(from, to) /\ s.hubs = Desk!HubsToCheck(from, to)
    BY <1>2
  <2> QED
    BY <2>1, <2>2
<1> QED
  BY <1>2, <1>3, <1>4, BeginOK

LEMMA OrderEventOK ==
  ASSUME NoticesOK, NEW e \in Events, Desk!Order(e), what' = what
  PROVE  NoticesOK'
<1> DEFINE S(list) == Desk!Sender("tell", "order", {}, <<>>, list)
<1>1. PICK list : /\ list \in [Users -> {0, 1}] /\ \A a \in Desk!Admins : list[a] = 1
                  /\ Desk!Is(e, "none") /\ Desk!Go(e, S(list)) /\ UNCHANGED <<notice, mail, alert, failed>>
  <2>1. CASE Desk!OrderSubmitted(e)
    <3>1. Desk!PendingFleetList \in [Users -> {0, 1}] /\ \A a \in Desk!Admins : Desk!PendingFleetList[a] = 1
      BY DEF Desk!PendingFleetList, Desk!Times, Desk!Admins, Desk!Of
    <3>2. /\ Desk!Is(e, "none") /\ Desk!Go(e, S(Desk!PendingFleetList))
          /\ UNCHANGED <<notice, mail, alert, failed>>
      BY <2>1 DEF Desk!OrderSubmitted
    <3> QED
      BY <3>1, <3>2
  <2>2. CASE \E u \in Users : Desk!OrderWithoutVehicle(e, u)
    <3> PICK u \in Users : Desk!OrderWithoutVehicle(e, u)
      BY <2>2
    <3>1. Desk!NoVehicleList(u) \in [Users -> {0, 1}] /\ \A a \in Desk!Admins : Desk!NoVehicleList(u)[a] = 1
      BY DEF Desk!NoVehicleList, Desk!Times, Desk!Admins, Desk!Of
    <3>2. /\ Desk!Is(e, "none") /\ Desk!Go(e, S(Desk!NoVehicleList(u)))
          /\ UNCHANGED <<notice, mail, alert, failed>>
      BY DEF Desk!OrderWithoutVehicle
    <3> QED
      BY <3>1, <3>2
  <2> QED
    BY <2>1, <2>2 DEF Desk!Order
<1> DEFINE s == S(list)
<1>2. {} \in SUBSET Hubs /\ <<>> \in Seq(Hubs)
  OBVIOUS
<1>3. /\ s \in SenderRecord /\ s.at = "tell" /\ s.kind = "order" /\ s.hubs = <<>> /\ s.admins = {}
      /\ s.ends = {} /\ s.list = list
  <2>1. "tell" \in {"check", "tell"} /\ "order" \in {"trip", "order"}
    OBVIOUS
  <2>2. Begun(s, "tell", "order", {}, <<>>, list)
    BY <1>1, <1>2, <2>1, SenderBegunIs, Zenon
  <2> HIDE DEF s
  <2> QED
    BY <2>2 DEF Begun
<1> HIDE DEF s
<1>4. Desk!Go(e, s)
  BY <1>1 DEF s
<1> QED
  BY <1>1, <1>3, <1>4, BeginOK

LEMMA CheckHubOK ==
  ASSUME NoticesOK, NEW e \in Events, Desk!CheckHub(e), what' = what
  PROVE  NoticesOK'
<1> DEFINE s == sender[e]
           q == s.hubs
           told == [s EXCEPT !.at = "tell"]
           next == [s EXCEPT !.at = "warn", !.hubs = Tail(q),
                             !.admins = IF Desk!Unassigned(Head(q)) THEN Desk!Admins ELSE {}]
<1>1. s.at = "check" /\ UNCHANGED <<notice, mail, alert, failed>>
  BY DEF Desk!CheckHub, Desk!Is
<1> PICK n : n = (IF q = <<>> THEN told ELSE next) /\ Desk!Go(e, n)
  BY DEF Desk!CheckHub
<1>2. Apart(e) /\ sender'[e] = n
  BY <1>1, SenderAlone
<1>3. NoticeOK(e) /\ s \in SenderRecord /\ NoSecond(s, notice[e], mail[e]) /\ Reports(e, s, alert[e])
  BY DEF NoticesOK, NoticeOK
<1>4. what # "orders"
  BY <1>1 DEF NoticesOK, SeparateOK, Separate
<1>5. /\ n \in SenderRecord /\ n.at \in {"tell", "warn"} /\ n.list = s.list /\ n.ends = s.ends
      /\ n.at = "tell" => n.hubs = <<>> /\ n.admins = {}
      /\ n.admins \subseteq Desk!Admins
      /\ q # <<>> => n.hubs = Tail(q) /\ n.admins = IF Desk!Unassigned(Head(q)) THEN Desk!Admins ELSE {}
  <2>1. CASE q = <<>>
    BY <1>1, <1>3, <2>1 DEF Reports, SenderRecord
  <2>2. CASE q # <<>>
    <3>1. Desk!Admins \subseteq Users /\ q \in Seq(Hubs)
      BY <1>3 DEF Desk!Admins, Desk!Of, SenderRecord
    <3>2. Tail(q) \in Seq(Hubs)
      BY <2>2, <3>1
    <3>3. n = next /\ next \in SenderRecord
      BY <1>3, <2>2, <3>1, <3>2 DEF SenderRecord
    <3> QED
      BY <2>2, <3>3, <1>3 DEF SenderRecord
  <2> QED
    BY <2>1, <2>2
<1>6. ASSUME NEW h \in n.ends, Desk!ManagersOf(h) = {}
      PROVE  \/ \E i \in DOMAIN n.hubs : n.hubs[i] = h
             \/ \A a \in Desk!Admins : a \in n.admins \/ alert[e][a] >= 1
             \/ \E a \in Desk!Admins : Failed(e, a, "alert")
  <2>1. \/ \E i \in DOMAIN q : q[i] = h
        \/ \A a \in Desk!Admins : a \in s.admins \/ alert[e][a] >= 1
        \/ \E a \in Desk!Admins : Failed(e, a, "alert")
    BY <1>3, <1>5, <1>6 DEF Reports
  <2>2. s.admins = {}
    BY <1>1, <1>3 DEF Reports
  <2>3. CASE \E i \in DOMAIN q : q[i] = h
    <3> PICK i \in DOMAIN q : q[i] = h
      BY <2>3
    <3>1. q \in Seq(Hubs) /\ q # <<>> /\ i \in 1 .. Len(q)
      BY <1>3 DEF SenderRecord
    <3>2. CASE i = 1
      <4>1. Head(q) = h
        BY <3>1, <3>2
      <4> QED
        BY <1>5, <1>6, <3>1, <4>1 DEF Desk!Unassigned
    <3>3. CASE i # 1
      <4>1. i - 1 \in DOMAIN Tail(q) /\ Tail(q)[i - 1] = h
        BY <3>1, <3>3
      <4> QED
        BY <1>5, <3>1, <4>1
    <3> QED
      BY <3>2, <3>3
  <2> QED
    BY <2>1, <2>2, <2>3
<1> HIDE DEF s
<1>7. Reports(e, n, alert[e])
  BY <1>5, <1>6 DEF Reports
<1>8. NoSecond(n, notice[e], mail[e]) /\ Idle(n) /\ n.at # "none"
  BY <1>3, <1>5 DEF NoSecond, Idle
<1>9. NoticeOK(e)'
  <2>1. Reports(e, n, alert[e])' /\ Unbegun(e)'
    BY <1>1, <1>2, <1>7, <1>8 DEF Reports, Failed, Unbegun
  <2> QED
    BY <1>1, <1>2, <1>3, <1>5, <1>8, <2>1 DEF NoticeOK
<1> QED
  BY <1>2, <1>4, <1>9, Advance DEF StepOK

LEMMA WarnOK ==
  ASSUME NoticesOK, NEW e \in Events, Desk!Warn(e), what' = what
  PROVE  NoticesOK'
<1> DEFINE s == sender[e]
           back == Desk!Warned(e)
           less(a) == [s EXCEPT !.admins = @ \ {a}]
<1>1. s.at = "warn" /\ notice' = notice /\ mail' = mail
  BY DEF Desk!Warn, Desk!Is
<1>2. NoticeOK(e) /\ s \in SenderRecord /\ NoSecond(s, notice[e], mail[e]) /\ Reports(e, s, alert[e])
  BY DEF NoticesOK, NoticeOK
<1>3. what # "orders"
  BY <1>1 DEF NoticesOK, SeparateOK, Separate
<1>4. PICK n : /\ sender' = [sender EXCEPT ![e] = n]
               /\ \/ /\ s.admins = {} /\ n = back /\ UNCHANGED <<alert, failed>>
                  \/ \E a \in s.admins : alert' = [alert EXCEPT ![e][a] = @ + 1] /\ n = less(a) /\ failed' = failed
                  \/ \E a \in s.admins : failed' = failed \cup {<<e, a, "alert">>} /\ n = back /\ alert' = alert
  BY DEF Desk!Warn, Desk!Go
<1>5. /\ back \in SenderRecord /\ back.at = "check" /\ back.list = s.list /\ back.ends = s.ends
      /\ back.hubs = s.hubs /\ back.admins = {}
  BY <1>2 DEF SenderRecord, Desk!Warned
<1>6. ASSUME NEW a \in s.admins
      PROVE  /\ less(a) \in SenderRecord /\ less(a).at = "warn" /\ less(a).list = s.list
             /\ less(a).ends = s.ends /\ less(a).hubs = s.hubs /\ less(a).admins = s.admins \ {a}
  BY <1>1, <1>2 DEF SenderRecord
<1> HIDE DEF back, less
<1>7. /\ n \in SenderRecord /\ n.at \in {"check", "warn"} /\ n.list = s.list /\ n.ends = s.ends /\ n.hubs = s.hubs
      /\ n.at = "check" => n.admins = {}
      /\ n.admins \subseteq s.admins
  BY <1>4, <1>5, <1>6
<1>8. sender'[e] = n /\ DOMAIN alert = Events /\ DOMAIN sender = Events
  BY <1>4 DEF NoticesOK
<1>9. Apart(e) /\ alert'[e] \in Tallies
  <2>1. DOMAIN alert' = Events /\ \A f \in Events \ {e} : alert'[f] = alert[f]
    BY <1>4, <1>8
  <2>2. \A f \in Events \ {e} : \A u, c : <<f, u, c>> \in failed' <=> <<f, u, c>> \in failed
    BY <1>4
  <2>3. alert'[e] \in Tallies
    BY <1>2, <1>4, <1>8 DEF NoticeOK, Tallies
  <2> QED
    BY <1>1, <1>4, <1>8, <2>1, <2>2, <2>3 DEF Apart, NoticesOK
<1>10. /\ \A u, c : Failed(e, u, c) => Failed(e, u, c)'
       /\ \A u \in Users : \A c : Failed(e, u, c)' /\ c # "alert" => Failed(e, u, c)
       /\ \A a \in Users : alert[e][a] <= alert'[e][a]
       /\ \A a \in s.admins : a \in n.admins \/ alert'[e][a] >= 1 \/ \E b \in s.admins : Failed(e, b, "alert")'
  <2>1. alert[e] \in [Users -> Nat] /\ s.admins \subseteq Users
    BY <1>2 DEF NoticeOK, Tallies, SenderRecord
  <2> QED
    BY <1>4, <1>5, <1>6, <1>8, <2>1 DEF Failed
<1>11. Reports(e, n, alert[e])'
  <2>1. s.admins \subseteq Desk!Admins /\ Desk!Admins \subseteq Users
    BY <1>2 DEF Reports, Desk!Admins, Desk!Of
  <2>2. ASSUME NEW h \in n.ends, Desk!ManagersOf(h) = {}
        PROVE  \/ \E i \in DOMAIN n.hubs : n.hubs[i] = h
               \/ \A a \in Desk!Admins : a \in n.admins \/ alert'[e][a] >= 1
               \/ \E a \in Desk!Admins : Failed(e, a, "alert")'
    <3>1. \/ \E i \in DOMAIN s.hubs : s.hubs[i] = h
          \/ \A a \in Desk!Admins : a \in s.admins \/ alert[e][a] >= 1
          \/ \E a \in Desk!Admins : Failed(e, a, "alert")
      BY <1>2, <1>7, <2>2 DEF Reports
    <3>2. alert[e] \in [Users -> Nat] /\ alert'[e] \in [Users -> Nat]
      BY <1>2, <1>9 DEF NoticeOK, Tallies
    <3> QED
      BY <1>7, <1>10, <2>1, <3>1, <3>2
  <2> QED
    BY <1>7, <2>1, <2>2 DEF Reports
<1>12. NoticeOK(e)'
  <2>1. NoSecond(n, notice[e], mail[e]) /\ Idle(n) /\ n.at # "none"
    BY <1>2, <1>7 DEF NoSecond, Idle
  <2>2. Unbegun(e)'
    BY <1>8, <2>1 DEF Unbegun
  <2> QED
    BY <1>1, <1>2, <1>7, <1>8, <1>9, <1>11, <2>1, <2>2 DEF NoticeOK
<1> QED
  BY <1>3, <1>9, <1>12, Advance DEF StepOK

(* An account is told, or its notice fails and the sender goes on. *)
LEMMA ToldOK ==
  ASSUME NoticesOK, NEW e \in Events, NEW u \in Desk!Left(e), Desk!Is(e, "tell"), what' = what,
         Desk!Go(e, Desk!Told(e, u)), mail' = mail, alert' = alert,
         \/ notice' = [notice EXCEPT ![e][u] = @ + 1] /\ failed' = failed
         \/ notice' = notice /\ failed' = failed \cup {<<e, u, "notice">>}
  PROVE  NoticesOK'
<1> DEFINE s == sender[e]
<1>1. NoticeOK(e) /\ s \in SenderRecord /\ NoSecond(s, notice[e], mail[e]) /\ Reports(e, s, alert[e])
  BY DEF NoticesOK, NoticeOK
<1>2. s.at = "tell" /\ u \in Users /\ s.list[u] = 1
  BY <1>1 DEF Desk!Is, Desk!Left, SenderRecord
<1>3. PICK n : n = Desk!Told(e, u)
  OBVIOUS
<1>4. n \in SenderRecord /\ SameWork(n, s) /\ n.at = "mail" /\ n.user = u /\ n.list = [s.list EXCEPT ![u] = 0]
  BY <1>1, <1>2, <1>3, SenderToldIs, Zenon
<1>5. /\ sender'[e] = n /\ DOMAIN sender = Events /\ DOMAIN notice = Events
      /\ sender' = [sender EXCEPT ![e] = n]
  BY <1>3 DEF NoticesOK, Desk!Go
<1>6. notice[e] \in [Users -> Nat] /\ mail[e] \in [Users -> Nat]
  BY <1>1 DEF NoticeOK, Tallies
<1>7. notice[e][u] = 0 /\ mail[e][u] = 0
  BY <1>1, <1>2, <1>6 DEF NoSecond
<1>8. /\ notice'[e] \in [Users -> Nat] /\ notice'[e][u] <= 1
      /\ \A v \in Users \ {u} : notice'[e][v] = notice[e][v]
      /\ notice'[e][u] = 1 \/ Failed(e, u, "notice")'
      /\ \A v \in Users \ {u} : \A c : Failed(e, v, c)' <=> Failed(e, v, c)
      /\ \A v, c : c # "notice" => (Failed(e, v, c)' <=> Failed(e, v, c))
  BY <1>2, <1>5, <1>6, <1>7 DEF Failed
<1>9. Apart(e)
  <2>1. \A f \in Events \ {e} : \A v, c : <<f, v, c>> \in failed' <=> <<f, v, c>> \in failed
    OBVIOUS
  <2>2. DOMAIN notice' = Events /\ \A f \in Events \ {e} : notice'[f] = notice[f]
    BY <1>5
  <2> QED
    BY <1>5, <2>1, <2>2 DEF Apart, NoticesOK
<1>10. NoSecond(n, notice'[e], mail[e])
  <2>1. ASSUME NEW v \in Users
        PROVE  notice'[e][v] + n.list[v] <= 1 /\ mail[e][v] + n.list[v] <= 1
    <3>1. n.list[v] = IF v = u THEN 0 ELSE s.list[v]
      BY <1>1, <1>4 DEF SenderRecord
    <3> QED
      BY <1>1, <1>7, <1>8, <3>1 DEF NoSecond
  <2>2. n.list[u] = 0
    BY <1>1, <1>2, <1>4 DEF SenderRecord
  <2> QED
    BY <1>4, <1>7, <2>1, <2>2 DEF NoSecond
<1>11. Reports(e, n, alert[e])'
  BY <1>1, <1>2, <1>4, <1>8 DEF Reports, SameWork
<1>12. NoticeOK(e)'
  <2>1. Idle(n) /\ Unbegun(e)'
    BY <1>4, <1>5 DEF Idle, Unbegun
  <2> QED
    BY <1>1, <1>4, <1>5, <1>8, <1>10, <1>11, <2>1 DEF NoticeOK, Tallies
<1>13. what = "orders" => SeparateOK(e)'
  <2> SUFFICES ASSUME what = "orders" PROVE SeparateOK(e)'
    OBVIOUS
  <2>1. Separate(e, s, notice[e], mail[e])
    BY DEF NoticesOK, SeparateOK
  <2>2. ASSUME NEW a \in Desk!Admins PROVE n.list[a] = 1 \/ notice'[e][a] = 1 \/ Failed(e, a, "notice")'
    <3>1. a \in Users
      BY DEF Desk!Admins, Desk!Of
    <3>2. a # u => n.list[a] = s.list[a]
      BY <1>1, <1>4, <3>1 DEF SenderRecord
    <3> QED
      BY <1>2, <1>8, <2>1, <3>1, <3>2 DEF Separate
  <2>3. ASSUME NEW v \in Users \cap Mailbox, notice'[e][v] = 1 \/ Failed(e, v, "notice")'
        PROVE  mail[e][v] = 1 \/ Failed(e, v, "mail")' \/ (n.at = "mail" /\ n.user = v)
    BY <1>2, <1>4, <1>8, <2>1, <2>3 DEF Separate
  <2> QED
    BY <1>4, <1>5, <2>1, <2>2, <2>3 DEF Separate, SeparateOK, SameWork
<1> QED
  BY <1>9, <1>12, <1>13, Advance DEF StepOK

(* The account just told gets its mail, has no address, or its mail fails. *)
LEMMA MailedOK ==
  ASSUME NoticesOK, NEW e \in Events, NEW u, u = sender[e].user, Desk!Is(e, "mail"), what' = what,
         Desk!Go(e, Desk!Mailed(e)), notice' = notice, alert' = alert,
         \/ u \in Mailbox /\ mail' = [mail EXCEPT ![e][u] = @ + 1] /\ failed' = failed
         \/ u \notin Mailbox /\ mail' = mail /\ failed' = failed
         \/ mail' = mail /\ failed' = failed \cup {<<e, u, "mail">>}
  PROVE  NoticesOK'
<1> DEFINE s == sender[e]
<1>1. NoticeOK(e) /\ s \in SenderRecord /\ NoSecond(s, notice[e], mail[e]) /\ Reports(e, s, alert[e])
  BY DEF NoticesOK, NoticeOK
<1>2. s.at = "mail" /\ s.user = u
  BY DEF Desk!Is
<1>3. PICK n : n = Desk!Mailed(e)
  OBVIOUS
<1>4. n \in SenderRecord /\ SameWork(n, s) /\ n.at = "tell" /\ n.list = s.list
  BY <1>1, <1>3, SenderMailedIs, Zenon
<1>5. /\ sender'[e] = n /\ DOMAIN sender = Events /\ DOMAIN mail = Events
      /\ sender' = [sender EXCEPT ![e] = n]
  BY <1>3 DEF NoticesOK, Desk!Go
<1>6. notice[e] \in [Users -> Nat] /\ mail[e] \in [Users -> Nat]
  BY <1>1 DEF NoticeOK, Tallies
<1>7. u \in Users => mail[e][u] = 0 /\ s.list[u] = 0
  BY <1>1, <1>2 DEF NoSecond
<1>8. /\ mail'[e] \in [Users -> Nat]
      /\ \A v \in Users \ {u} : mail'[e][v] = mail[e][v]
      /\ u \in Users => mail'[e][u] <= 1
      /\ u \in Users \cap Mailbox => mail'[e][u] = 1 \/ Failed(e, u, "mail")'
      /\ \A v \in Users : \A c : Failed(e, v, c) => Failed(e, v, c)'
      /\ \A v, c : c # "mail" => (Failed(e, v, c)' <=> Failed(e, v, c))
  BY <1>5, <1>6, <1>7 DEF Failed
<1>9. Apart(e)
  <2>1. \A f \in Events \ {e} : \A v, c : <<f, v, c>> \in failed' <=> <<f, v, c>> \in failed
    OBVIOUS
  <2>2. DOMAIN mail' = Events /\ \A f \in Events \ {e} : mail'[f] = mail[f]
    BY <1>5
  <2> QED
    BY <1>5, <2>1, <2>2 DEF Apart, NoticesOK
<1>10. NoSecond(n, notice[e], mail'[e])
  BY <1>1, <1>4, <1>7, <1>8 DEF NoSecond
<1>11. Reports(e, n, alert[e])'
  BY <1>1, <1>2, <1>4, <1>8 DEF Reports, SameWork
<1>12. NoticeOK(e)'
  <2>1. Idle(n) /\ Unbegun(e)'
    BY <1>4, <1>5 DEF Idle, Unbegun
  <2> QED
    BY <1>1, <1>4, <1>5, <1>8, <1>10, <1>11, <2>1 DEF NoticeOK, Tallies
<1>13. what = "orders" => SeparateOK(e)'
  <2> SUFFICES ASSUME what = "orders" PROVE SeparateOK(e)'
    OBVIOUS
  <2>1. Separate(e, s, notice[e], mail[e])
    BY DEF NoticesOK, SeparateOK
  <2>2. \A a \in Desk!Admins : n.list[a] = 1 \/ notice[e][a] = 1 \/ Failed(e, a, "notice")'
    BY <1>2, <1>4, <1>8, <2>1 DEF Separate
  <2>3. ASSUME NEW v \in Users \cap Mailbox, notice[e][v] = 1 \/ Failed(e, v, "notice")'
        PROVE  mail'[e][v] = 1 \/ Failed(e, v, "mail")'
    BY <1>2, <1>8, <2>1, <2>3 DEF Separate
  <2> QED
    BY <1>4, <1>5, <2>1, <2>2, <2>3 DEF Separate, SeparateOK, SameWork
<1> QED
  BY <1>9, <1>12, <1>13, Advance DEF StepOK

(* A sender ends with its list, or the one of a trip with its first failure. *)
LEMMA EndsOK ==
  ASSUME NoticesOK, NEW e \in Events, sender[e].at \in {"tell", "mail"}, what' = what,
         Desk!Go(e, Desk!Done(e)), UNCHANGED <<notice, mail, alert>>,
         \A v, c : Failed(e, v, c) => Failed(e, v, c)',
         \A f \in Events \ {e} : \A v, c : <<f, v, c>> \in failed' <=> <<f, v, c>> \in failed,
         what = "orders" => sender[e].at = "tell" /\ Desk!Left(e) = {} /\ failed' = failed
  PROVE  NoticesOK'
<1> DEFINE s == sender[e]
<1>1. NoticeOK(e) /\ s \in SenderRecord /\ NoSecond(s, notice[e], mail[e]) /\ Reports(e, s, alert[e])
  BY DEF NoticesOK, NoticeOK
<1>2. PICK n : n = Desk!Done(e)
  OBVIOUS
<1>3. /\ n \in SenderRecord /\ n.at = "done" /\ n.kind = "none" /\ n.list = Desk!Nobody
      /\ n.hubs = <<>> /\ n.admins = {} /\ n.ends = s.ends
  <2>1. s.ends \in SUBSET Hubs
    BY <1>1 DEF SenderRecord
  <2>2. n = Desk!Asleep("done", s.ends)
    BY <1>2 DEF Desk!Done
  <2> QED
    BY <2>1, <2>2, SenderAsleepIs
<1>4. sender'[e] = n /\ Apart(e)
  BY <1>2 DEF NoticesOK, Desk!Go, Apart
<1>5. NoSecond(n, notice[e], mail[e])
  <2>1. notice[e] \in [Users -> Nat] /\ mail[e] \in [Users -> Nat] /\ s.list \in [Users -> {0, 1}]
    BY <1>1 DEF NoticeOK, Tallies, SenderRecord
  <2>2. ASSUME NEW v \in Users
        PROVE  notice[e][v] + n.list[v] <= 1 /\ mail[e][v] + n.list[v] <= 1
    <3>1. n.list[v] = 0
      BY <1>3 DEF Desk!Nobody
    <3> QED
      BY <1>1, <2>1, <3>1 DEF NoSecond
  <2> QED
    BY <1>3, <2>2 DEF NoSecond
<1>6. Reports(e, n, alert[e])'
  <2>1. s.hubs = <<>> /\ s.admins = {}
    BY <1>1 DEF Reports
  <2>2. ASSUME NEW h \in n.ends, Desk!ManagersOf(h) = {}
        PROVE  (\A a \in Desk!Admins : alert[e][a] >= 1) \/ \E a \in Desk!Admins : Failed(e, a, "alert")'
    BY <1>1, <1>3, <2>1, <2>2 DEF Reports
  <2> QED
    BY <1>3, <2>2 DEF Reports
<1>7. NoticeOK(e)'
  <2>1. Idle(n) /\ Unbegun(e)'
    BY <1>3, <1>4 DEF Idle, Unbegun
  <2> QED
    BY <1>1, <1>3, <1>4, <1>5, <1>6, <2>1 DEF NoticeOK
<1>8. what = "orders" => SeparateOK(e)'
  <2> SUFFICES ASSUME what = "orders" PROVE SeparateOK(e)'
    OBVIOUS
  <2>1. Separate(e, s, notice[e], mail[e])
    BY DEF NoticesOK, SeparateOK
  <2>2. \A a \in Desk!Admins : s.list[a] # 1
    BY <1>1 DEF Desk!Left, Desk!Admins, Desk!Of
  <2> QED
    BY <1>3, <1>4, <2>1, <2>2 DEF Separate, SeparateOK, Failed
<1> QED
  BY <1>4, <1>7, <1>8, Advance DEF StepOK

LEMMA TellingOK ==
  ASSUME NoticesOK, NEW e \in Events, NEW u \in Users, Desk!Tell(e, u) \/ Desk!TellFails(e, u), what' = what
  PROVE  NoticesOK'
<1>1. u \in Desk!Left(e) /\ Desk!Is(e, "tell") /\ sender[e].at = "tell" /\ mail' = mail /\ alert' = alert
  BY DEF Desk!Tell, Desk!TellFails, Desk!Is
<1>2. CASE Desk!Tell(e, u)
  <2>1. Desk!Go(e, Desk!Told(e, u)) /\ notice' = [notice EXCEPT ![e][u] = @ + 1] /\ failed' = failed
    BY <1>2 DEF Desk!Tell
  <2> QED
    BY <1>1, <2>1, ToldOK
<1>3. CASE Desk!TellFails(e, u) /\ sender[e].kind # "trip"
  <2>1. /\ Desk!Go(e, Desk!Told(e, u)) /\ notice' = notice
        /\ failed' = failed \cup {<<e, u, "notice">>}
    BY <1>3 DEF Desk!TellFails, Desk!AfterFailure
  <2> QED
    BY <1>1, <2>1, ToldOK
<1>4. CASE Desk!TellFails(e, u) /\ sender[e].kind = "trip"
  <2>1. /\ Desk!Go(e, Desk!Done(e)) /\ notice' = notice
        /\ failed' = failed \cup {<<e, u, "notice">>}
    BY <1>4 DEF Desk!TellFails, Desk!AfterFailure
  <2>2. what # "orders"
    BY <1>4 DEF NoticesOK, SeparateOK, Separate
  <2>3. /\ \A v, c : Failed(e, v, c) => Failed(e, v, c)'
        /\ \A f \in Events \ {e} : \A v, c : <<f, v, c>> \in failed' <=> <<f, v, c>> \in failed
    BY <2>1 DEF Failed
  <2> QED
    BY <1>1, <2>1, <2>2, <2>3, EndsOK
<1> QED
  BY <1>2, <1>3, <1>4

LEMMA MailingOK ==
  ASSUME NoticesOK, NEW e \in Events, Desk!Mail(e) \/ Desk!MailFails(e), what' = what
  PROVE  NoticesOK'
<1> PICK u : u = sender[e].user
  OBVIOUS
<1>1. Desk!Is(e, "mail") /\ sender[e].at = "mail" /\ notice' = notice /\ alert' = alert
  BY DEF Desk!Mail, Desk!MailFails, Desk!Is
<1>2. CASE Desk!Mail(e)
  <2>1. /\ Desk!Go(e, Desk!Mailed(e)) /\ failed' = failed
        /\ mail' = IF u \in Mailbox THEN [mail EXCEPT ![e][u] = @ + 1] ELSE mail
    BY <1>2 DEF Desk!Mail
  <2> QED
    BY <1>1, <2>1, MailedOK
<1>3. CASE Desk!MailFails(e) /\ sender[e].kind # "trip"
  <2>1. Desk!Go(e, Desk!Mailed(e)) /\ mail' = mail /\ failed' = failed \cup {<<e, u, "mail">>}
    BY <1>3 DEF Desk!MailFails, Desk!AfterFailure
  <2> QED
    BY <1>1, <2>1, MailedOK
<1>4. CASE Desk!MailFails(e) /\ sender[e].kind = "trip"
  <2>1. Desk!Go(e, Desk!Done(e)) /\ mail' = mail /\ failed' = failed \cup {<<e, u, "mail">>}
    BY <1>4 DEF Desk!MailFails, Desk!AfterFailure
  <2>2. what # "orders"
    BY <1>4 DEF NoticesOK, SeparateOK, Separate
  <2>3. /\ \A v, c : Failed(e, v, c) => Failed(e, v, c)'
        /\ \A f \in Events \ {e} : \A v, c : <<f, v, c>> \in failed' <=> <<f, v, c>> \in failed
    BY <2>1 DEF Failed
  <2> QED
    BY <1>1, <2>1, <2>2, <2>3, EndsOK
<1> QED
  BY <1>2, <1>3, <1>4

LEMMA FinishOK ==
  ASSUME NoticesOK, NEW e \in Events, Desk!Finish(e), what' = what
  PROVE  NoticesOK'
<1>1. /\ sender[e].at = "tell" /\ Desk!Left(e) = {} /\ Desk!Go(e, Desk!Done(e))
      /\ UNCHANGED <<notice, mail, alert>> /\ failed' = failed
  BY DEF Desk!Finish, Desk!Is
<1>2. /\ \A v, c : Failed(e, v, c) => Failed(e, v, c)'
      /\ \A f \in Events \ {e} : \A v, c : <<f, v, c>> \in failed' <=> <<f, v, c>> \in failed
  BY <1>1 DEF Failed
<1> QED
  BY <1>1, <1>2, EndsOK

LEMMA ProceedOK ==
  ASSUME NoticesOK, NEW e \in Events, Desk!Proceed(e), what' = what
  PROVE  NoticesOK'
<1>1. CASE \E u \in Users : Desk!Tell(e, u) \/ Desk!TellFails(e, u)
  BY <1>1, TellingOK
<1> QED
  BY <1>1, CheckHubOK, WarnOK, MailingOK, FinishOK DEF Desk!Proceed

(* A restart ends every sender that is under way. *)
LEMMA RestartOK ==
  ASSUME NoticesOK, Desk!Restart, what' = what, what # "orders"
  PROVE  NoticesOK'
<1>1. /\ UNCHANGED <<notice, mail, alert, failed>>
      /\ sender' = [e \in Events |->
           IF sender[e].at \in {"none", "done"} THEN sender[e] ELSE Desk!Asleep("lost", {})]
  BY DEF Desk!Restart
<1>2. PICK lost : lost = Desk!Asleep("lost", {})
  OBVIOUS
<1>3. /\ lost \in SenderRecord /\ lost.at = "lost" /\ lost.list = Desk!Nobody /\ lost.hubs = <<>>
      /\ lost.admins = {} /\ lost.ends = {}
  BY <1>2, SenderAsleepIs
<1>4. ASSUME NEW e \in Events PROVE NoticeOK(e)'
  <2>1. NoticeOK(e) /\ NoSecond(sender[e], notice[e], mail[e])
    BY DEF NoticesOK, NoticeOK
  <2>2. CASE sender[e].at \in {"none", "done"}
    <3>1. sender'[e] = sender[e]
      BY <1>1, <2>2
    <3> QED
      BY <1>1, <2>1, <3>1 DEF NoticeOK, Idle, Unbegun, NoSecond, Reports, Failed
  <2>3. CASE sender[e].at \notin {"none", "done"}
    <3>1. sender'[e] = lost
      BY <1>1, <1>2, <2>3
    <3>2. NoSecond(lost, notice[e], mail[e])
      <4>1. notice[e] \in [Users -> Nat] /\ mail[e] \in [Users -> Nat] /\ sender[e].list \in [Users -> {0, 1}]
        BY <2>1 DEF NoticeOK, Tallies, SenderRecord
      <4>2. ASSUME NEW v \in Users
            PROVE  notice[e][v] + lost.list[v] <= 1 /\ mail[e][v] + lost.list[v] <= 1
        <5>1. lost.list[v] = 0
          BY <1>3 DEF Desk!Nobody
        <5> QED
          BY <2>1, <4>1, <5>1 DEF NoSecond
      <4> QED
        BY <1>3, <4>2 DEF NoSecond
    <3>3. Reports(e, lost, alert[e])' /\ Idle(lost)
      BY <1>3 DEF Reports, Idle
    <3>4. Unbegun(e)'
      BY <1>3, <3>1 DEF Unbegun
    <3> QED
      BY <1>1, <1>3, <2>1, <3>1, <3>2, <3>3, <3>4 DEF NoticeOK
  <2> QED
    BY <2>2, <2>3
<1> QED
  BY <1>1, <1>4 DEF NoticesOK

LEMMA InitNoticesOK == OfficeInit => NoticesOK
<1> SUFFICES ASSUME OfficeInit PROVE NoticesOK
  OBVIOUS
<1> PICK none : none = Desk!Asleep("none", {})
  OBVIOUS
<1>1. /\ sender = [e \in Events |-> none] /\ failed = {}
      /\ notice = Desk!NoOne /\ mail = Desk!NoOne /\ alert = Desk!NoOne
  BY DEF OfficeInit, Desk!Init
<1>2. /\ none \in SenderRecord /\ none.at = "none" /\ none.kind = "none" /\ none.list = Desk!Nobody
      /\ none.hubs = <<>> /\ none.admins = {} /\ none.ends = {}
  BY SenderAsleepIs
<1>3. Desk!Nobody \in Tallies /\ \A e \in Events : Desk!NoOne[e] = Desk!Nobody
  BY DEF Desk!Nobody, Desk!NoOne, Tallies
<1>4. ASSUME NEW e \in Events PROVE NoticeOK(e) /\ SeparateOK(e)
  <2>1. sender[e] = none /\ notice[e] = Desk!Nobody /\ mail[e] = Desk!Nobody /\ alert[e] = Desk!Nobody
    BY <1>1, <1>3
  <2>2. NoSecond(none, Desk!Nobody, Desk!Nobody)
    BY <1>2 DEF NoSecond, Desk!Nobody
  <2>3. Idle(none) /\ Unbegun(e) /\ Reports(e, none, alert[e])
    BY <1>1, <1>2, <2>1 DEF Idle, Unbegun, Failed, Reports
  <2>4. Separate(e, none, notice[e], mail[e])
    BY <1>2 DEF Separate
  <2> QED
    BY <1>2, <1>3, <2>1, <2>2, <2>3, <2>4 DEF NoticeOK, SeparateOK
<1> QED
  BY <1>1, <1>4 DEF NoticesOK, Desk!NoOne

OfficeNext ==
  /\ \/ what = "queue" /\ Next /\ UNCHANGED notices
     \/ what = "trip" /\ AnyEvent /\ UNCHANGED vars
     \/ what = "orders" /\ OrderEvents /\ UNCHANGED vars
  /\ UNCHANGED what

LEMMA NoticesStep == NoticesOK /\ [OfficeNext]_<<vars, notices, what>> => NoticesOK'
<1> SUFFICES ASSUME NoticesOK, [OfficeNext]_<<vars, notices, what>> PROVE NoticesOK'
  OBVIOUS
<1>1. what' = what
  BY DEF OfficeNext
<1>2. CASE UNCHANGED notices
  <2>1. UNCHANGED <<sender, notice, mail, alert, failed>>
    BY <1>2 DEF notices
  <2> QED
    BY <1>1, <2>1 DEF NoticesOK, NoticeOK, SeparateOK, Separate, Idle, Unbegun, NoSecond, Reports, Failed
<1>3. CASE what = "trip" /\ AnyEvent
  <2>1. Single \in Events
    BY SingleAssumption
  <2> QED
    BY <1>1, <1>3, <2>1, RestartOK, TripConfirmedOK, OrderEventOK, ProceedOK DEF AnyEvent
<1>4. CASE what = "orders" /\ OrderEvents
  BY <1>1, <1>4, OrderEventOK, ProceedOK DEF OrderEvents
<1> QED
  BY <1>2, <1>3, <1>4 DEF OfficeNext

(* Nobody is told or mailed twice of one event; what fails for one account  *)
(* of an order event, or on one channel, keeps nothing from the others      *)
(* (orders.service.ts:980); and a trip through a hub nobody manages is      *)
(* reported to every admin, unless a warning failed (trips.service.ts).     *)
THEOREM NoticesComeOnce == OfficeSpec => []NoticesArriveOnce
<1>1. NoticesOK => NoticesArriveOnce
  <2> SUFFICES ASSUME NoticesOK PROVE NoticesArriveOnce
    OBVIOUS
  <2>1. ASSUME NEW e \in Events
        PROVE  /\ sender[e] \in SenderRecord /\ notice[e] \in [Users -> Nat] /\ mail[e] \in [Users -> Nat]
               /\ Idle(sender[e]) /\ NoSecond(sender[e], notice[e], mail[e])
               /\ Reports(e, sender[e], alert[e])
    BY DEF NoticesOK, NoticeOK, Tallies
  <2>2. Desk!ToldOnce
    <3> SUFFICES ASSUME NEW e \in Events, NEW u \in Users PROVE notice[e][u] <= 1 /\ mail[e][u] <= 1
      BY DEF Desk!ToldOnce
    <3>1. sender[e].list[u] \in {0, 1} /\ notice[e][u] \in Nat /\ mail[e][u] \in Nat
      BY <2>1 DEF SenderRecord
    <3>2. notice[e][u] + sender[e].list[u] <= 1 /\ mail[e][u] + sender[e].list[u] <= 1
      BY <2>1 DEF NoSecond
    <3> QED
      BY <3>1, <3>2
  <2>3. Desk!UnmanagedHubIsReported
    <3> SUFFICES ASSUME NEW e \in Events, sender[e].at = "done", NEW h \in sender[e].ends, Desk!ManagersOf(h) = {}
                 PROVE  (\A a \in Desk!Admins : alert[e][a] >= 1) \/ \E a \in Desk!Admins : Failed(e, a, "alert")
      BY DEF Desk!UnmanagedHubIsReported, Desk!Is, Failed
    <3>1. sender[e].hubs = <<>> /\ sender[e].admins = {}
      BY <2>1 DEF Reports
    <3> QED
      BY <2>1, <3>1 DEF Reports
  <2>4. CASE what = "orders"
    <3> SUFFICES ASSUME NEW e \in Events, sender[e].at = "done"
                 PROVE  /\ \A u \in Desk!Admins : notice[e][u] = 1 \/ Failed(e, u, "notice")
                        /\ \A u \in Users : (notice[e][u] = 1 \/ Failed(e, u, "notice")) /\ u \in Mailbox =>
                             mail[e][u] = 1 \/ Failed(e, u, "mail")
      BY <2>2, <2>4 DEF NoticesArriveOnce, Desk!ChannelsIndependent, Desk!Is, Failed
    <3>1. Separate(e, sender[e], notice[e], mail[e])
      BY <2>4 DEF NoticesOK, SeparateOK
    <3>2. \A u \in Desk!Admins : sender[e].list[u] = 0
      BY <2>1 DEF Idle, Desk!Nobody, Desk!Admins, Desk!Of
    <3> QED
      BY <3>1, <3>2 DEF Separate
  <2> QED
    BY <2>2, <2>3, <2>4 DEF NoticesArriveOnce
<1>2. OfficeSpec => OfficeInit /\ [][OfficeNext]_<<vars, notices, what>>
  BY PTL DEF OfficeSpec, OfficeNext
<1> QED
  BY <1>1, <1>2, InitNoticesOK, NoticesStep, PTL
=============================================================================
