----------------------------- MODULE MCAccounts -----------------------------
(***************************************************************************)
(* Accounts and sessions with two rows, addresses and requests.  A          *)
(* behaviour is one of four days, chosen at its start: every request about  *)
(* one account, without overlap; overlapping requests that create, edit and *)
(* remove two accounts; the sessions of one account, without and with lost  *)
(* answers.                                                                 *)
(***************************************************************************)
EXTENDS Accounts, TLC

CONSTANTS u1, u2, e1, e2, p1, s1, s2, c1, c2

TwoUsers == {u1, u2}
TwoEmails == {e1, e2}
OnePassword == {p1}
TwoSessions == {s1, s2}
TwoClerks == {c1, c2}
Interchangeable == Permutations(Clerks) \cup Permutations(Emails)

VARIABLE day

Busy == {c \in Clerks : ~IsIdle(c)}
OneAccount == Cardinality({u \in Users : user[u].born}) <= 1
OneAddress == Cardinality({user[u].email : u \in Users} \ {None}) <= 1
Opened == {s \in Sessions : session[s].state # "unused"}
RotatedOnce == \A s \in Sessions : session[s].hash <= 1

DayNext ==
  /\ \/ day = "no overlap" /\ Next
        /\ (Cardinality(Busy) <= 1 /\ Cardinality(Opened) <= 1 /\ OneAccount /\ RotatedOnce)'
     \/ day = "accounts" /\ ColumnsNext /\ (Opened = {})'
     \/ day = "sessions" /\ SessionNext /\ (OneAccount /\ OneAddress)'
     \/ day = "faults" /\ FaultNext /\ (OneAccount /\ OneAddress)'
  /\ UNCHANGED day

DayInit == Init /\ day \in {"no overlap", "accounts", "sessions", "faults"}
DaySpec ==
  /\ DayInit
  /\ [][DayNext]_<<vars, day>>

-----------------------------------------------------------------------------
(* As long as requests do not overlap, the stored password is the hash of   *)
(* what someone typed, through every sign-up, edit, reset, confirmation and *)
(* external login: never the word itself, and never the hash of a hash that *)
(* a handler read and handed back.                                          *)
PasswordAlwaysOpens == day = "no overlap" => PasswordOpens

(* As long as no answer is lost, the owner of a live session holds the      *)
(* token the session expects, however many tabs refresh it at once.         *)
OwnerKeepsToken == day = "sessions" => HeldTokenWorks
=============================================================================
