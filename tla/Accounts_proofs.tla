--------------------------- MODULE Accounts_proofs ---------------------------
(***************************************************************************)
(* What holds of accounts and sessions however many requests interleave,    *)
(* and whatever answers are lost: addresses stay unique, a refresh token is *)
(* exchanged at most once, a deleted session answers nobody.  Two more      *)
(* facts need less company: the stored password opens the account as long   *)
(* as requests do not overlap, and the owner of a session holds the token   *)
(* it expects as long as no answer is lost.                                 *)
(***************************************************************************)
EXTENDS MCAccounts, FiniteSetTheorems, TLAPS

(* Every request of every kind, and the server may restart at any time. *)
Anything == Next \/ \E c \in Clerks : Restart(c)

(* Every answer arrives, and no account is removed. *)
Attended ==
  Open \/ \E c \in Clerks : SignUp(c) \/ ByMail(c) \/ Edit(c) \/ Use(c) \/ External(c) \/ Server(c)

-----------------------------------------------------------------------------
(* The shapes of rows and requests. *)

Secret == [word : Passwords, hashed : Nat]
RowRecord ==
  [email : Emails, password : Secret \cup {None}, status : {"active", "inactive"},
   social : Emails \cup {None}, live : BOOLEAN, born : {TRUE}]
LiveRecord ==
  [email : Emails, password : Secret \cup {None}, status : {"active", "inactive"},
   social : Emails \cup {None}, live : {TRUE}, born : {TRUE}]
UserRecord == RowRecord \cup {NoUser}
SessionRecord ==
  [user : Users, hash : 0 .. MaxHash, state : {"live", "deleted"}] \cup {NoSession}

CreateRequest ==
  [at : {"insert"}, user : {None}, email : Emails, password : Secret \cup {None},
   status : {"active", "inactive"}, social : Emails \cup {None}, mail : BOOLEAN]
RestoreRequest ==
  [at : {"restore", "restored"}, user : Users, email : Emails, password : Secret \cup {None},
   status : {"active", "inactive"}, social : Emails \cup {None}, mail : BOOLEAN]
ChangeRequest ==
  [at : {"revoke", "update", "save"}, user : Users, email : Emails \cup {None},
   password : Secret \cup {None}, status : {"active", "inactive", None}, social : Emails \cup {None},
   open : BOOLEAN]
WriteRequest == [at : {"write"}, user : Users, row : LiveRecord, mail : BOOLEAN, open : BOOLEAN]
OpenRequest == [at : {"open"}, user : Users]
RefreshRequest ==
  [at : {"rotate", "reload", "owner"}, session : Sessions, hash : 0 .. MaxHash, late : BOOLEAN]
Requests ==
  CreateRequest \cup RestoreRequest \cup ChangeRequest \cup WriteRequest \cup OpenRequest
    \cup RefreshRequest \cup {Idle}

Shape ==
  /\ user \in [Users -> UserRecord]
  /\ session \in [Sessions -> SessionRecord]
  /\ handed \in [Sessions -> [0 .. MaxHash -> Nat]]
  /\ holds \in [Sessions -> (0 .. MaxHash) \cup {None}]
  /\ req \in [Clerks -> Requests]
  /\ \A c \in Clerks : At(c, "restore") => user[req[c].user].born

(* Where a request stands tells what it carries. *)
LEMMA Stages ==
  ASSUME Shape, NEW c \in Clerks
  PROVE  /\ req[c].at = "insert" => req[c] \in CreateRequest
         /\ req[c].at \in {"restore", "restored"} => req[c] \in RestoreRequest
         /\ req[c].at \in {"revoke", "update", "save"} => req[c] \in ChangeRequest
         /\ req[c].at = "open" => req[c] \in OpenRequest
         /\ req[c].at \in {"rotate", "reload", "owner"} => req[c] \in RefreshRequest
         /\ req[c].at = "write" => req[c] \in WriteRequest
<1>1. req[c] \in Requests
  BY DEF Shape
<1> QED
  BY <1>1 DEF Requests, CreateRequest, RestoreRequest, ChangeRequest, WriteRequest, OpenRequest,
     RefreshRequest, Idle

(* The columns of a row, used or not. *)
LEMMA Columns ==
  ASSUME Shape, NEW u \in Users
  PROVE  /\ user[u] \in UserRecord
         /\ user[u].born => user[u] \in RowRecord
         /\ user[u].live => user[u] \in LiveRecord
         /\ user[u].email \in Emails \cup {None}
         /\ user[u].password \in Secret \cup {None}
         /\ user[u].status \in {"active", "inactive"}
         /\ user[u].social \in Emails \cup {None}
<1>1. user[u] \in UserRecord
  BY DEF Shape
<1>2. CASE user[u] \in RowRecord
  <2>1. user[u].live => user[u] \in LiveRecord
    BY <1>2 DEF RowRecord, LiveRecord
  <2> QED
    BY <1>1, <1>2, <2>1 DEF RowRecord
<1>3. CASE user[u] = NoUser
  BY <1>1, <1>3 DEF NoUser
<1> QED
  BY <1>1, <1>2, <1>3 DEF UserRecord

LEMMA InitShape == Init => Shape
BY AccountsBoundsAssumption DEF Init, Shape, NoSession, UserRecord, SessionRecord, Requests, Idle, At

(* What requests ask for has the shape of a request. *)
LEMMA Asking ==
  ASSUME Shape, NEW u \in Users
  PROVE  /\ \A p \in Passwords : Typed(p) \in Secret /\ Hash(Typed(p)) \in Secret
         /\ user[u] \in UserRecord
         /\ Loaded(u) \in ChangeRequest
         /\ \A e \in Emails \cup {None}, q \in Secret \cup {None}, status \in {"active", "inactive", None} :
              Change(u, e, q, status) \in ChangeRequest
         /\ Opening(u) \in OpenRequest
<1>1. user[u] \in UserRecord
  BY DEF Shape
<1>2. \A p \in Passwords : Typed(p) \in Secret /\ Hash(Typed(p)) \in Secret
  BY DEF Typed, Hash, Secret
<1>3. \A e \in Emails \cup {None}, q \in Secret \cup {None}, status \in {"active", "inactive", None} :
        Change(u, e, q, status) \in ChangeRequest
  BY DEF Change, ChangeRequest
<1>4. Loaded(u) \in ChangeRequest
  BY Columns DEF Loaded, Change, ChangeRequest
<1>5. Opening(u) \in OpenRequest
  BY DEF Opening, OpenRequest
<1> QED
  BY <1>1, <1>2, <1>3, <1>4, <1>5

(* A request takes the place of clerk c's, nothing else changes shape. *)
LEMMA BecomeShape ==
  ASSUME Shape, NEW c \in Clerks, NEW r \in Requests, Become(c, r),
         r.at = "restore" => user[r.user].born,
         \A u \in Users : user[u].born => user'[u].born
  PROVE  /\ req' \in [Clerks -> Requests]
         /\ \A d \in Clerks : At(d, "restore")' => user'[req'[d].user].born
<1>1. r.at = "restore" => r.user \in Users
  BY DEF Requests, CreateRequest, ChangeRequest, RestoreRequest, WriteRequest, OpenRequest, RefreshRequest, Idle
<1>2. \A d \in Clerks : req[d].at = "restore" => req[d].user \in Users
  BY Stages DEF RestoreRequest
<1>3. \A d \in Clerks : req'[d] = IF d = c THEN r ELSE req[d]
  BY DEF Shape, Become
<1> QED
  BY <1>1, <1>2, <1>3 DEF Shape, Become, At

(* What an account's row becomes. *)
LEMMA AccountShape ==
  ASSUME Shape, NEW c \in Clerks, req[c] \in CreateRequest \cup RestoreRequest, NEW u \in Users
  PROVE  Account(c, u) \in LiveRecord /\ Account(c, u).email = req[c].email
<1>1. user[u].password \in Secret \cup {None}
  BY Columns
<1> QED
  BY <1>1 DEF Account, Given, CreateRequest, RestoreRequest, LiveRecord

LEMMA MergedShape ==
  ASSUME Shape, NEW r \in ChangeRequest, user[r.user].live
  PROVE  Merged(r) \in LiveRecord
<1>1. user[r.user] \in LiveRecord
  BY Columns DEF ChangeRequest
<1>2. /\ Given(r.email, user[r.user].email) \in Emails
      /\ Given(r.password, user[r.user].password) \in Secret \cup {None}
      /\ Given(r.status, user[r.user].status) \in {"active", "inactive"}
      /\ Given(r.social, user[r.user].social) \in Emails \cup {None}
  BY <1>1 DEF ChangeRequest, LiveRecord, Given
<1> QED
  BY <1>1, <1>2 DEF Merged, LiveRecord

(* A row that is live is one that has been used. *)
LEMMA RowShape ==
  ASSUME Shape
  PROVE  /\ LiveRecord \subseteq UserRecord
         /\ \A row \in LiveRecord : row.live /\ row.born
         /\ \A u \in Users : user[u].born => user[u] \in RowRecord
         /\ \A u \in Users : user[u].live => user[u] \in LiveRecord
         /\ \A row \in RowRecord : [row EXCEPT !.live = TRUE] \in LiveRecord
<1>1. LiveRecord \subseteq UserRecord
  BY DEF LiveRecord, RowRecord, UserRecord
<1>2. \A row \in LiveRecord : row.live /\ row.born
  BY DEF LiveRecord
<1>3. \A row \in RowRecord : [row EXCEPT !.live = TRUE] \in LiveRecord
  BY DEF RowRecord, LiveRecord
<1> QED
  BY <1>1, <1>2, <1>3, Columns

(* One row is written. *)
LEMMA RowWritten ==
  ASSUME Shape, NEW u \in Users, NEW row \in LiveRecord, user' = [user EXCEPT ![u] = row]
  PROVE  /\ user' \in [Users -> UserRecord]
         /\ \A v \in Users : user[v].born => user'[v].born
         /\ \A v \in Users : user[v].live => user'[v].live
         /\ user'[u].live
BY RowShape DEF Shape

(* The session opened is one not used yet. *)
Fresh == CHOOSE t \in Sessions : session[t].state = "unused"

LEMMA OpenedSession ==
  ASSUME Shape, NEW u \in Users, OpenSession(u)
  PROVE  /\ Fresh \in Sessions /\ session[Fresh].state = "unused"
         /\ session' = [session EXCEPT ![Fresh] = [user |-> u, hash |-> 0, state |-> "live"]]
         /\ holds' = [holds EXCEPT ![Fresh] = 0]
         /\ UNCHANGED <<user, links, handed>>
<1>1. \E t \in Sessions : session[t].state = "unused"
  BY DEF OpenSession
<1>2. Fresh \in Sessions /\ session[Fresh].state = "unused"
  BY <1>1 DEF Fresh
<1> QED
  BY <1>2 DEF OpenSession, Fresh

(* Sessions ended or opened keep their shape. *)
LEMMA SessionShape ==
  ASSUME Shape
  PROVE  /\ \A gone : (\A s \in gone : session[s].state = "live") => Ended(gone) \in [Sessions -> SessionRecord]
         /\ \A u \in Users : OpenSession(u) =>
              session' \in [Sessions -> SessionRecord] /\ holds' \in [Sessions -> (0 .. MaxHash) \cup {None}]
<1>1. ASSUME NEW gone, \A s \in gone : session[s].state = "live"
      PROVE  Ended(gone) \in [Sessions -> SessionRecord]
  <2>1. ASSUME NEW s \in Sessions, s \in gone
        PROVE  [session[s] EXCEPT !.state = "deleted"] \in SessionRecord
    <3>1. session[s] \in SessionRecord /\ session[s].state = "live"
      BY <1>1, <2>1 DEF Shape
    <3>2. session[s] \in [user : Users, hash : 0 .. MaxHash, state : {"live", "deleted"}]
      BY <3>1 DEF SessionRecord, NoSession
    <3> QED
      BY <3>2 DEF SessionRecord
  <2> QED
    BY <2>1 DEF Shape, Ended, SessionRecord
<1>2. ASSUME NEW u \in Users, OpenSession(u)
      PROVE  session' \in [Sessions -> SessionRecord] /\ holds' \in [Sessions -> (0 .. MaxHash) \cup {None}]
  <2>1. /\ session' = [session EXCEPT ![Fresh] = [user |-> u, hash |-> 0, state |-> "live"]]
        /\ holds' = [holds EXCEPT ![Fresh] = 0]
    BY <1>2, OpenedSession
  <2>2. 0 \in 0 .. MaxHash
    BY AccountsBoundsAssumption
  <2>3. [user |-> u, hash |-> 0, state |-> "live"] \in SessionRecord
    BY <2>2 DEF SessionRecord
  <2> QED
    BY <2>1, <2>2, <2>3 DEF Shape
<1> QED
  BY <1>1, <1>2

(* Signing up. *)
LEMMA CreateShape ==
  ASSUME Shape, NEW c \in Clerks, NEW e \in Emails, NEW q \in Secret \cup {None},
         NEW status \in {"active", "inactive"}, NEW social \in Emails \cup {None}, NEW mail \in BOOLEAN,
         Create(c, e, q, status, social, mail)
  PROVE  Shape'
<1> DEFINE r(u) == [at |-> IF u = None THEN "insert" ELSE "restore", user |-> u, email |-> e,
                    password |-> q, status |-> status, social |-> social, mail |-> mail]
<1>1. PICK u \in Removed(e) \cup {None} : Become(c, r(u))
  BY DEF Create
<1>2. u # None => u \in Users /\ user[u].born
  BY DEF Removed
<1>3. r(u) \in Requests /\ (r(u).at = "restore" => user[r(u).user].born)
  BY <1>2 DEF Requests, CreateRequest, RestoreRequest
<1> HIDE DEF r
<1> QED
  BY <1>1, <1>3, BecomeShape DEF Create, Shape

(* The handlers of an account: what each stores and leaves. *)
LEMMA AccountStepShape ==
  ASSUME Shape, NEW c \in Clerks, InsertUser(c) \/ RestoreUser(c) \/ WriteRow(c)
  PROVE  Shape'
<1>1. Idle \in Requests /\ Idle.at # "restore"
  BY DEF Requests, Idle
<1>2. \A u \in Users : Opening(u) \in Requests /\ Opening(u).at # "restore"
  BY Asking DEF Requests, Opening
<1>3. ASSUME UNCHANGED <<user, session, handed, holds>>, Finish(c)
      PROVE  Shape'
  BY <1>1, <1>3, BecomeShape DEF Shape, Finish
(* A row is written and the request goes on or ends. *)
<1>4. ASSUME NEW u \in Users, NEW row \in LiveRecord, user' = [user EXCEPT ![u] = row],
             UNCHANGED <<session, handed, holds>>,
             NEW r \in Requests, r.at # "restore", Become(c, r)
      PROVE  Shape'
  <2>1. user' \in [Users -> UserRecord] /\ \A v \in Users : user[v].born => user'[v].born
    BY <1>4, RowWritten
  <2> QED
    BY <1>4, <2>1, BecomeShape DEF Shape
<1>5. CASE InsertUser(c)
  <2> DEFINE u == CHOOSE v \in Unborn : TRUE
  <2>1. u \in Users /\ req[c] \in CreateRequest
    BY <1>5, Stages DEF InsertUser, Unborn, At
  <2>2. /\ UNCHANGED <<session, handed, holds>>
        /\ \/ UNCHANGED user /\ Finish(c)
           \/ user' = [user EXCEPT ![u] = Account(c, u)] /\ (Become(c, Opening(u)) \/ Finish(c))
    BY <1>5 DEF InsertUser, Leave
  <2> HIDE DEF u
  <2>3. Account(c, u) \in LiveRecord
    BY <2>1, AccountShape
  <2> QED
    BY <1>1, <1>2, <1>3, <1>4, <2>1, <2>2, <2>3 DEF Finish
<1>6. CASE RestoreUser(c)
  <2> DEFINE u == req[c].user
             new == [req[c] EXCEPT !.at = "restored"]
  <2>1. req[c] \in RestoreRequest /\ u \in Users /\ user[u].born
    BY <1>6, Stages DEF RestoreUser, At, RestoreRequest, Shape
  <2>2. /\ UNCHANGED <<session, handed, holds>>
        /\ \/ UNCHANGED user /\ Finish(c)
           \/ user' = [user EXCEPT ![u] = [user[u] EXCEPT !.live = TRUE]] /\ Become(c, new)
    BY <1>6 DEF RestoreUser, GoOn, Become, Shape
  <2>3. [user[u] EXCEPT !.live = TRUE] \in LiveRecord
    BY <2>1, RowShape
  <2>4. new \in Requests /\ new.at # "restore"
    BY <2>1 DEF RestoreRequest, Requests
  <2> HIDE DEF u, new
  <2> QED
    BY <1>3, <1>4, <2>1, <2>2, <2>3, <2>4
<1>7. CASE WriteRow(c)
  <2>1. req[c] \in WriteRequest
    BY <1>7, Stages DEF WriteRow, At
  <2>2. /\ UNCHANGED <<session, handed, holds>>
        /\ \/ UNCHANGED user /\ Finish(c)
           \/ /\ user' = [user EXCEPT ![req[c].user] = req[c].row]
              /\ Become(c, Opening(req[c].user)) \/ Finish(c)
    BY <1>7 DEF WriteRow, Leave
  <2>3. req[c].user \in Users /\ req[c].row \in LiveRecord
    BY <2>1 DEF WriteRequest
  <2> QED
    BY <1>1, <1>2, <1>3, <1>4, <2>2, <2>3 DEF Finish
<1> QED
  BY <1>5, <1>6, <1>7

(* UsersService.update and the revocation before it. *)
LEMMA UpdateStepShape ==
  ASSUME Shape, NEW c \in Clerks, PrepareUpdate(c) \/ LoadRow(c) \/ ResetRevoke(c)
  PROVE  Shape'
<1>1. PrepareUpdate(c) \/ ResetRevoke(c) => req[c] \in ChangeRequest
  BY Stages DEF PrepareUpdate, ResetRevoke, At
<1>2. Idle \in Requests /\ Idle.at # "restore"
  BY DEF Requests, Idle
<1>3. CASE PrepareUpdate(c)
  <2> DEFINE new == [req[c] EXCEPT !.at = "save", !.password = Stored(req[c].user, req[c].password)]
  <2>1. Stored(req[c].user, req[c].password) \in Secret \cup {None}
    BY <1>1, <1>3 DEF Stored, Hash, Secret, ChangeRequest
  <2>2. new \in ChangeRequest /\ new.at # "restore"
    BY <1>1, <1>3, <2>1 DEF ChangeRequest
  <2>3. Finish(c) \/ Become(c, new)
    BY <1>1, <1>3 DEF PrepareUpdate, ChangeRequest
  <2> HIDE DEF new
  <2> QED
    BY <1>2, <1>3, <2>2, <2>3, BecomeShape DEF PrepareUpdate, Finish, Requests, Shape
<1>4. CASE LoadRow(c)
  <2> DEFINE r == req[c]
  <2>1. UNCHANGED <<user, session, handed, holds>>
    BY <1>4 DEF LoadRow
  <2>2. ASSUME NEW row \in LiveRecord, NEW mail \in BOOLEAN, NEW open \in BOOLEAN, r.user \in Users,
               Become(c, Writing(r.user, row, mail, open))
        PROVE  Shape'
    <3>1. Writing(r.user, row, mail, open) \in Requests /\ Writing(r.user, row, mail, open).at # "restore"
      BY <2>2 DEF Writing, WriteRequest, Requests
    <3> QED
      BY <2>1, <2>2, <3>1, BecomeShape DEF Shape
  <2>3. CASE Finish(c)
    BY <1>2, <2>1, <2>3, BecomeShape DEF Shape, Finish
  <2>4. CASE At(c, "save") /\ user[r.user].live /\ Become(c, Writing(r.user, Merged(r), FALSE, r.open))
    <3>1. r \in ChangeRequest
      BY <2>4, Stages DEF At
    <3>2. Merged(r) \in LiveRecord /\ r.user \in Users /\ r.open \in BOOLEAN
      BY <2>4, <3>1, MergedShape DEF ChangeRequest
    <3> QED
      BY <2>2, <2>4, <3>2
  <2>5. CASE At(c, "restored") /\ Become(c, Writing(r.user, Account(c, r.user), r.mail, r.social # None))
    <3>1. r \in RestoreRequest
      BY <2>5, Stages DEF At
    <3>2. r.user \in Users /\ r.mail \in BOOLEAN /\ Account(c, r.user) \in LiveRecord
      BY <3>1, AccountShape DEF RestoreRequest
    <3> QED
      BY <2>2, <2>5, <3>2
  <2> QED
    BY <1>4, <2>3, <2>4, <2>5 DEF LoadRow, At
<1>5. CASE ResetRevoke(c)
  <2>1. session' \in [Sessions -> SessionRecord]
    BY <1>5, SessionShape DEF ResetRevoke, SessionsOf
  <2>2. [req[c] EXCEPT !.at = "update"] \in ChangeRequest
    BY <1>1, <1>5 DEF ChangeRequest
  <2>3. Become(c, [req[c] EXCEPT !.at = "update"])
    BY <1>5 DEF ResetRevoke, GoOn, Become, Shape
  <2>4. [req[c] EXCEPT !.at = "update"].at # "restore"
    BY <2>2 DEF ChangeRequest
  <2> QED
    BY <1>5, <2>1, <2>2, <2>3, <2>4, BecomeShape DEF ResetRevoke, Requests, Shape
<1> QED
  BY <1>3, <1>4, <1>5

(* Requests that ask for a change, and those that change nothing but links. *)
LEMMA AskStepShape ==
  ASSUME Shape, NEW c \in Clerks,
         ByMail(c) \/ Edit(c)
  PROVE  Shape'
<1>1. ASSUME NEW r \in ChangeRequest, Become(c, r), UNCHANGED user
      PROVE  /\ req' \in [Clerks -> Requests]
             /\ \A d \in Clerks : At(d, "restore")' => user'[req'[d].user].born
  <2>1. r \in Requests /\ r.at # "restore"
    BY DEF Requests, ChangeRequest
  <2> QED
    BY <1>1, <2>1, BecomeShape
<1>2. ASSUME NEW r \in ChangeRequest, Become(c, r), UNCHANGED <<user, handed, holds>>,
             session' \in [Sessions -> SessionRecord]
      PROVE  Shape'
  BY <1>1, <1>2 DEF Shape
<1>3. ASSUME NEW r \in ChangeRequest, Become(c, r), UNCHANGED <<user, session, links, handed, holds>>
      PROVE  Shape'
  BY <1>2, <1>3 DEF Shape
<1>4. ASSUME NEW u \in Users, ConfirmEmail(c, u)
      PROVE  Shape'
  <2>1. [Loaded(u) EXCEPT !.status = "active"] \in ChangeRequest
    BY Asking DEF ChangeRequest
  <2> QED
    BY <1>3, <1>4, <2>1 DEF ConfirmEmail
<1>5. ASSUME NEW u \in Users, NEW e \in Emails, ConfirmNewEmail(c, u, e)
      PROVE  Shape'
  <2>1. Loaded(u) \in ChangeRequest
    BY Asking
  <2>2. [Loaded(u) EXCEPT !.status = "active", !.email = e] \in ChangeRequest
    BY <2>1 DEF ChangeRequest
  <2> QED
    BY <1>3, <1>5, <2>2 DEF ConfirmNewEmail
<1>6. ASSUME NEW e \in Emails, ForgotPassword(c, e)
      PROVE  Shape'
  BY <1>6 DEF ForgotPassword, Shape, At
<1>7. ASSUME NEW u \in Users, NEW p \in Passwords, ResetPassword(c, u, p)
      PROVE  Shape'
  <2>1. Loaded(u) \in ChangeRequest /\ Typed(p) \in Secret
    BY Asking
  <2>2. [Loaded(u) EXCEPT !.at = "revoke", !.password = Typed(p)] \in ChangeRequest
    BY <2>1 DEF ChangeRequest
  <2> QED
    BY <1>3, <1>7, <2>2 DEF ResetPassword
<1>8. ASSUME NEW e \in Emails \cup {None}, NEW p \in Passwords \cup {None}, NEW u \in Users,
             NEW status \in {"active", "inactive", None}, UpdateUser(c, u, e, p, status)
      PROVE  Shape'
  <2>1. (IF p = None THEN None ELSE Typed(p)) \in Secret \cup {None}
    BY Asking
  <2>2. Change(u, e, IF p = None THEN None ELSE Typed(p), status) \in ChangeRequest
    BY <2>1, Asking
  <2> QED
    BY <1>3, <1>8, <2>2 DEF UpdateUser
<1>9. ASSUME NEW e \in Emails \cup {None}, NEW p \in Passwords \cup {None}, NEW s \in Sessions,
             NEW old \in Passwords, UpdateMe(c, s, old, p, e)
      PROVE  Shape'
  <2> DEFINE u == session[s].user
  <2>1. session[s] \in SessionRecord /\ session[s].state # "unused"
    BY <1>9 DEF UpdateMe, Shape
  <2>2. u \in Users
    BY <2>1 DEF SessionRecord, NoSession
  <2>3. (IF p = None THEN None ELSE Typed(p)) \in Secret \cup {None}
    BY <2>2, Asking
  <2>4. Change(u, None, IF p = None THEN None ELSE Typed(p), None) \in ChangeRequest
    BY <2>2, <2>3, Asking
  <2>5. session' \in [Sessions -> SessionRecord]
    <3>1. session' = session \/ session' = Ended(SessionsOf(u) \ {s})
      BY <1>9 DEF UpdateMe
    <3>2. \A t \in SessionsOf(u) \ {s} : session[t].state = "live"
      BY DEF SessionsOf
    <3>3. Ended(SessionsOf(u) \ {s}) \in [Sessions -> SessionRecord]
      BY <3>2, SessionShape
    <3> QED
      BY <3>1, <3>3 DEF Shape
  <2>6. Become(c, Change(u, None, IF p = None THEN None ELSE Typed(p), None)) /\ UNCHANGED <<user, handed, holds>>
    BY <1>9 DEF UpdateMe
  <2> QED
    BY <1>2, <2>4, <2>5, <2>6
<1> QED
  BY <1>4, <1>5, <1>6, <1>7, <1>8, <1>9 DEF ByMail, Edit

(* Tokens are held, and presented, of sessions that were opened. *)
Used ==
  /\ \A s \in Sessions : session[s].state = "unused" => holds[s] = None
  /\ \A c \in Clerks : req[c].at \in {"rotate", "reload", "owner"} => session[req[c].session].state # "unused"

(* Logins, refreshes and restarts. *)
LEMMA SessionStepShape ==
  ASSUME Shape, Used, NEW c \in Clerks,
         Open \/ Use(c) \/ External(c) \/ SocialSession(c) \/ RefreshRotate(c) \/ RefreshReload(c)
           \/ RefreshAnswer(c) \/ Restart(c)
  PROVE  Shape'
<1>1. ASSUME NEW r \in Requests, Become(c, r), r.at # "restore", UNCHANGED user
      PROVE  /\ req' \in [Clerks -> Requests]
             /\ \A d \in Clerks : At(d, "restore")' => user'[req'[d].user].born
  BY <1>1, BecomeShape
<1>2. Idle \in Requests /\ Idle.at # "restore"
  BY DEF Requests, Idle
<1>3. ASSUME UNCHANGED <<user, req>>
      PROVE  /\ req' \in [Clerks -> Requests]
             /\ \A d \in Clerks : At(d, "restore")' => user'[req'[d].user].born
  BY <1>3 DEF Shape, At
<1>4. ASSUME NEW u \in Users, OpenSession(u), UNCHANGED req \/ Finish(c)
      PROVE  Shape'
  <2>1. UNCHANGED <<user, links, handed>>
    BY <1>4 DEF OpenSession
  <2> QED
    BY <1>1, <1>2, <1>3, <1>4, <2>1, SessionShape DEF Shape, Finish
<1>5. CASE Open
  BY <1>4, <1>5 DEF Open, Login, LoginAs
<1>6. CASE SocialSession(c)
  <2>1. req[c].user \in Users
    BY <1>6, Stages DEF SocialSession, At, OpenRequest
  <2> QED
    BY <1>4, <1>6, <2>1 DEF SocialSession
<1>7. ASSUME NEW r \in Requests, r.at # "restore", Become(c, r), UNCHANGED <<user, session, links, handed, holds>>
      PROVE  Shape'
  BY <1>1, <1>7 DEF Shape
<1>8. CASE External(c)
  <2>1. PICK e \in Emails : SocialKnown(c, e) \/ SocialByEmail(c, e) \/ SocialNew(c, e)
    BY <1>8 DEF External
  <2>2. CASE SocialKnown(c, e)
    <3>1. PICK u \in Users : Become(c, [Loaded(u) EXCEPT !.open = TRUE,
                                                         !.email = IF WithEmail(e) = {} THEN e ELSE @])
      BY <2>2 DEF SocialKnown, WithIdentity, Live
    <3>1a. Loaded(u) \in ChangeRequest
      BY Asking
    <3>2. [Loaded(u) EXCEPT !.open = TRUE, !.email = IF WithEmail(e) = {} THEN e ELSE @] \in ChangeRequest
      BY <3>1a DEF ChangeRequest
    <3>3. \A r \in ChangeRequest : r \in Requests /\ r.at # "restore"
      BY DEF Requests, ChangeRequest
    <3> QED
      BY <1>7, <2>2, <3>1, <3>2, <3>3 DEF SocialKnown
  <2>3. CASE SocialByEmail(c, e)
    <3>1. PICK u \in Users : \/ Become(c, [Loaded(u) EXCEPT !.open = TRUE, !.social = e])
                             \/ Become(c, Opening(u))
      BY <2>3 DEF SocialByEmail, WithEmail, Live
    <3>1a. Loaded(u) \in ChangeRequest /\ Opening(u) \in OpenRequest
      BY Asking
    <3>2. [Loaded(u) EXCEPT !.open = TRUE, !.social = e] \in ChangeRequest
      BY <3>1a DEF ChangeRequest
    <3>3. \A r \in ChangeRequest \cup OpenRequest : r \in Requests /\ r.at # "restore"
      BY DEF Requests, ChangeRequest, OpenRequest
    <3> QED
      BY <1>7, <2>3, <3>1, <3>1a, <3>2, <3>3 DEF SocialByEmail
  <2>4. CASE SocialNew(c, e)
    BY <2>4, CreateShape DEF SocialNew
  <2> QED
    BY <2>1, <2>2, <2>3, <2>4
<1>9. CASE Use(c)
  <2>1. PICK s \in Sessions : Refresh(c, s) \/ Logout(s)
    BY <1>9 DEF Use
  <2>2. CASE Refresh(c, s)
    <3> DEFINE r == [at |-> "rotate", session |-> s, hash |-> holds[s], late |-> session[s].state = "deleted"]
    <3>1. holds[s] \in 0 .. MaxHash
      BY <2>2 DEF Refresh, Shape
    <3>2. r \in RefreshRequest
      BY <3>1 DEF RefreshRequest
    <3>3. r \in Requests /\ r.at # "restore"
      BY <3>2 DEF Requests
    <3>4. Become(c, r) /\ UNCHANGED <<user, session, links, handed, holds>>
      BY <2>2 DEF Refresh
    <3> HIDE DEF r
    <3> QED
      BY <1>7, <3>3, <3>4
  <2>3. CASE Logout(s)
    <3>1. session' \in [Sessions -> SessionRecord]
      BY <2>3, SessionShape DEF Logout
    <3> QED
      BY <1>3, <2>3, <3>1 DEF Logout, Shape
  <2> QED
    BY <2>1, <2>2, <2>3
<1>10. CASE RefreshRotate(c)
  <2> DEFINE s == req[c].session
             new == [req[c] EXCEPT !.at = "reload", !.hash = session[s].hash + 1]
  <2>1. req[c] \in RefreshRequest
    BY <1>10, Stages DEF RefreshRotate, At
  <2>2. CASE Finish(c) /\ UNCHANGED <<user, session, links, handed, holds>>
    BY <1>2, <1>7, <2>2 DEF Finish
  <2>3. CASE /\ session' = [session EXCEPT ![s].hash = @ + 1]
             /\ Become(c, new)
             /\ handed' = [handed EXCEPT ![s][req[c].hash] = @ + 1]
             /\ UNCHANGED <<user, links, holds>>
    <3>1. /\ s \in Sessions /\ session[s] \in SessionRecord /\ session[s].state # "unused"
          /\ session[s].hash < MaxHash
      BY <1>10, <2>1 DEF RefreshRequest, RefreshRotate, Shape, Used, At
    <3>2. session[s] \in [user : Users, hash : 0 .. MaxHash, state : {"live", "deleted"}]
      BY <3>1 DEF SessionRecord, NoSession
    <3>3. session[s].hash + 1 \in 0 .. MaxHash
      BY <3>1, <3>2, AccountsBoundsAssumption
    <3>4. new \in RefreshRequest
      BY <2>1, <3>3 DEF RefreshRequest
    <3>5. new \in Requests /\ new.at # "restore"
      BY <3>4 DEF Requests, RefreshRequest
    <3>6. handed' \in [Sessions -> [0 .. MaxHash -> Nat]]
      <4> DEFINE x == req[c].hash
      <4>1. x \in 0 .. MaxHash
        BY <2>1 DEF RefreshRequest
      <4>2. handed' = [handed EXCEPT ![s] = [handed[s] EXCEPT ![x] = handed[s][x] + 1]]
        BY <2>3
      <4> HIDE DEF x
      <4>3. handed[s] \in [0 .. MaxHash -> Nat]
        BY <3>1 DEF Shape
      <4>4. \A f \in [0 .. MaxHash -> Nat] : [f EXCEPT ![x] = f[x] + 1] \in [0 .. MaxHash -> Nat]
        BY <4>1
      <4>5. [handed[s] EXCEPT ![x] = handed[s][x] + 1] \in [0 .. MaxHash -> Nat]
        BY <4>3, <4>4
      <4> QED
        BY <3>1, <4>2, <4>5 DEF Shape
    <3>7. [session[s] EXCEPT !.hash = session[s].hash + 1] \in SessionRecord
      BY <3>2, <3>3 DEF SessionRecord
    <3>8. session' \in [Sessions -> SessionRecord]
      BY <2>3, <3>1, <3>7 DEF Shape
    <3> HIDE DEF new
    <3> QED
      BY <1>1, <2>3, <3>5, <3>6, <3>8 DEF Shape
  <2> QED
    BY <1>10, <2>2, <2>3 DEF RefreshRotate
<1>11. CASE RefreshReload(c)
  <2>1. [req[c] EXCEPT !.at = "owner"] \in RefreshRequest
    BY <1>11, Stages DEF RefreshReload, At, RefreshRequest
  <2>2. [req[c] EXCEPT !.at = "owner"] \in Requests /\ [req[c] EXCEPT !.at = "owner"].at # "restore"
    BY <2>1 DEF Requests, RefreshRequest
  <2>3. GoOn(c, "owner") \/ Finish(c)
    BY <1>11 DEF RefreshReload
  <2>4. GoOn(c, "owner") => Become(c, [req[c] EXCEPT !.at = "owner"])
    BY DEF GoOn, Become, Shape
  <2> QED
    BY <1>2, <1>7, <1>11, <2>2, <2>3, <2>4 DEF RefreshReload, Finish
<1>12. CASE RefreshAnswer(c)
  <2>1. req[c] \in RefreshRequest
    BY <1>12, Stages DEF RefreshAnswer, At
  <2>2. holds' \in [Sessions -> (0 .. MaxHash) \cup {None}]
    BY <1>12, <2>1 DEF RefreshAnswer, RefreshRequest, Signed, Shape
  <2> QED
    BY <1>1, <1>2, <1>12, <2>2 DEF RefreshAnswer, Finish, Shape
<1>13. CASE Restart(c)
  BY <1>2, <1>7, <1>13 DEF Restart, Finish
<1> QED
  BY <1>5, <1>6, <1>8, <1>9, <1>10, <1>11, <1>12, <1>13

(* Every step, whoever takes it: what a clerk's request may do. *)
LEMMA Steps ==
  ASSUME Anything
  PROVE  \/ Open \/ Remove
         \/ \E c \in Clerks : SignUp(c) \/ ByMail(c) \/ Edit(c) \/ Use(c) \/ External(c) \/ Server(c) \/ Restart(c)
BY DEF Anything, Next

LEMMA ShapeStep == Shape /\ Used /\ [Anything]_vars => Shape'
<1> SUFFICES ASSUME Shape, Used, [Anything]_vars PROVE Shape'
  OBVIOUS
<1>1. CASE UNCHANGED vars
  BY <1>1 DEF vars, Shape, At
<1>2. ASSUME NEW c \in Clerks, SignUp(c)
      PROVE  Shape'
  <2>1. PICK e \in Emails, p \in Passwords : Register(c, e, p) \/ AddUser(c, e, p)
    BY <1>2 DEF SignUp
  <2>2. Hash(Typed(p)) \in Secret
    BY DEF Typed, Hash, Secret
  <2>3. CASE Register(c, e, p)
    BY <2>2, <2>3, CreateShape DEF Register
  <2>4. CASE AddUser(c, e, p)
    BY <2>2, <2>4, CreateShape DEF AddUser
  <2> QED
    BY <2>1, <2>3, <2>4
<1>3. ASSUME NEW c \in Clerks, Server(c)
      PROVE  Shape'
  BY <1>3, AccountStepShape, UpdateStepShape, SessionStepShape DEF Server
<1>4. ASSUME NEW c \in Clerks, ByMail(c) \/ Edit(c) \/ Use(c) \/ External(c) \/ Restart(c)
      PROVE  Shape'
  BY <1>4, AskStepShape, SessionStepShape
<1>5. CASE Open
  <2>1. CASE Clerks = {}
    <3>1. PICK u \in Users : OpenSession(u) /\ UNCHANGED req
      BY <1>5 DEF Open, Login, LoginAs
    <3>2. UNCHANGED <<user, links, handed>>
      BY <3>1 DEF OpenSession
    <3> QED
      BY <2>1, <3>1, <3>2, SessionShape DEF Shape
  <2> QED
    BY <1>5, <2>1, SessionStepShape
<1>6. ASSUME NEW u \in Users, RemoveUser(u)
      PROVE  Shape'
  <2>1. user[u] \in RowRecord
    BY <1>6, RowShape DEF RemoveUser, LiveRecord, RowRecord
  <2>2. /\ user' = [user EXCEPT ![u] = [user[u] EXCEPT !.live = FALSE]]
        /\ [user[u] EXCEPT !.live = FALSE] \in RowRecord
    BY <1>6, <2>1 DEF RemoveUser, RowRecord
  <2>3. user' \in [Users -> UserRecord] /\ \A v \in Users : user[v].born => user'[v].born
    BY <2>2 DEF Shape, UserRecord, RowRecord
  <2>4. \A d \in Clerks : req[d].at = "restore" => req[d].user \in Users
    BY Stages DEF RestoreRequest
  <2> QED
    BY <1>6, <2>3, <2>4 DEF RemoveUser, Shape, At
<1> QED
  BY <1>1, <1>2, <1>3, <1>4, <1>5, <1>6, Steps DEF Remove

-----------------------------------------------------------------------------
(* Addresses. *)

(* No two live accounts share an address, and each has one. *)
Addresses ==
  /\ \A u \in Live : user[u].email \in Emails
  /\ EmailIsUnique

(* Who writes accounts. *)
AccountWritten ==
  user' = user \/ \E c \in Clerks : InsertUser(c) \/ RestoreUser(c) \/ WriteRow(c)

LEMMA Writers ==
  /\ [Attended]_vars => AccountWritten
  /\ [Anything]_vars => AccountWritten \/ Remove
<1>1. ASSUME NEW c \in Clerks, SignUp(c) \/ External(c)
      PROVE  user' = user
  BY <1>1 DEF SignUp, Register, AddUser, External, SocialKnown, SocialByEmail, SocialNew, Create
<1>2. ASSUME NEW c \in Clerks, ByMail(c)
      PROVE  user' = user
  BY <1>2 DEF ByMail, ConfirmEmail, ConfirmNewEmail, ForgotPassword, ResetPassword
<1>3. ASSUME NEW c \in Clerks, Edit(c)
      PROVE  user' = user
  BY <1>3 DEF Edit, UpdateUser, UpdateMe
<1>4. ASSUME NEW c \in Clerks, Use(c) \/ Restart(c)
      PROVE  user' = user
  BY <1>4 DEF Use, Refresh, Logout, Restart
<1>5. ASSUME NEW c \in Clerks, Server(c)
      PROVE  user' = user \/ InsertUser(c) \/ RestoreUser(c) \/ WriteRow(c)
  BY <1>5 DEF Server, PrepareUpdate, LoadRow, ResetRevoke, SocialSession, OpenSession, RefreshRotate, RefreshReload,
     RefreshAnswer
<1>6. ASSUME Open
      PROVE  user' = user
  BY <1>6 DEF Open, Login, LoginAs, OpenSession
<1>7. CASE Attended
  BY <1>1, <1>2, <1>3, <1>4, <1>5, <1>6, <1>7 DEF Attended, AccountWritten
<1>8. CASE UNCHANGED vars
  BY <1>8 DEF vars, AccountWritten
<1>9. Anything => Attended \/ Remove \/ \E c \in Clerks : Restart(c)
  BY Steps DEF Attended
<1> QED
  BY <1>4, <1>7, <1>8, <1>9 DEF AccountWritten

(* The account inserted is a row not used. *)
LEMMA ChosenRows ==
  ASSUME NEW c \in Clerks, InsertUser(c)
  PROVE  (CHOOSE v \in Unborn : TRUE) \in Unborn
BY DEF InsertUser

LEMMA AddressesStep == Shape /\ Addresses /\ [Anything]_vars => Addresses'
<1> SUFFICES ASSUME Shape, Addresses, [Anything]_vars PROVE Addresses'
  OBVIOUS
<1>1. CASE user' = user
  BY <1>1 DEF Addresses, EmailIsUnique, Live
(* One account changes; its new address is nobody else's. *)
<1>2. ASSUME NEW u \in Users, NEW row \in UserRecord, user' = [user EXCEPT ![u] = row],
             row.live => row.email \in Emails /\ WithEmail(row.email) \ {u} = {}
      PROVE  Addresses'
  <2>1. \A v \in Users : user'[v] = IF v = u THEN row ELSE user[v]
    BY <1>2 DEF Shape
  <2>2. \A v \in Live' : v # u => v \in Live
    BY <2>1 DEF Live
  <2>3. \A v \in Live' : user'[v].email \in Emails
    BY <1>2, <2>1, <2>2 DEF Live, Addresses
  <2>4. \A v, w \in Live' : user'[v].email = user'[w].email => v = w
    BY <1>2, <2>1, <2>2 DEF Live, WithEmail, Addresses, EmailIsUnique
  <2> QED
    BY <2>3, <2>4 DEF Addresses, EmailIsUnique
<1>2a. ASSUME NEW u \in Users, NEW row \in LiveRecord, user' = [user EXCEPT ![u] = row],
              ~Taken(u, row.email)
       PROVE  Addresses'
  <2>1. row.email \in Emails /\ row \in UserRecord
    BY RowShape DEF LiveRecord
  <2>2. WithEmail(row.email) \ {u} = {}
    BY <1>2a, <2>1, AccountsAssumption DEF Taken
  <2> QED
    BY <1>2, <1>2a, <2>1, <2>2
<1>3. ASSUME NEW c \in Clerks, InsertUser(c)
      PROVE  Addresses'
  <2> DEFINE u == CHOOSE v \in Unborn : TRUE
  <2>1. u \in Users
    BY <1>3, ChosenRows DEF Unborn
  <2>2. req[c] \in CreateRequest
    BY <1>3, Stages DEF InsertUser, At
  <2>3. \/ user' = user
        \/ user' = [user EXCEPT ![u] = Account(c, u)] /\ WithEmail(req[c].email) = {}
    BY <1>3 DEF InsertUser
  <2> HIDE DEF u
  <2>4. Account(c, u) \in LiveRecord /\ Account(c, u).email = req[c].email
    BY <2>1, <2>2, AccountShape
  <2> QED
    BY <1>1, <1>2a, <2>1, <2>3, <2>4 DEF Taken
<1>4. ASSUME NEW c \in Clerks, RestoreUser(c)
      PROVE  Addresses'
  <2> DEFINE u == req[c].user
             row == [user[u] EXCEPT !.live = TRUE]
  <2>1. u \in Users /\ user[u].born
    BY <1>4, Stages DEF RestoreUser, At, RestoreRequest, Shape
  <2>2. user[u] \in RowRecord /\ row \in LiveRecord
    BY <2>1, RowShape
  <2>3. row.email = user[u].email /\ (user[u].live => row = user[u])
    BY <2>2 DEF RowRecord
  <2>4. \/ user' = user
        \/ user' = [user EXCEPT ![u] = row] /\ (user[u].live \/ ~Taken(u, user[u].email))
    BY <1>4 DEF RestoreUser
  <2> HIDE DEF u, row
  <2>5. CASE user' = [user EXCEPT ![u] = row] /\ user[u].live
    BY <1>1, <2>1, <2>3, <2>5 DEF Shape
  <2> QED
    BY <1>1, <1>2a, <2>1, <2>2, <2>3, <2>4, <2>5
<1>5. ASSUME NEW c \in Clerks, WriteRow(c)
      PROVE  Addresses'
  <2>1. req[c].user \in Users /\ req[c].row \in LiveRecord
    BY <1>5, Stages DEF WriteRow, At, WriteRequest
  <2>2. \/ user' = user
        \/ user' = [user EXCEPT ![req[c].user] = req[c].row] /\ ~Taken(req[c].user, req[c].row.email)
    BY <1>5 DEF WriteRow
  <2> QED
    BY <1>1, <1>2a, <2>1, <2>2
<1>7. ASSUME NEW u \in Users, RemoveUser(u)
      PROVE  Addresses'
  <2>1. /\ user' = [user EXCEPT ![u] = [user[u] EXCEPT !.live = FALSE]]
        /\ [user[u] EXCEPT !.live = FALSE] \in UserRecord /\ ~[user[u] EXCEPT !.live = FALSE].live
    <3>1. user[u] \in RowRecord
      BY <1>7, Columns DEF RemoveUser, LiveRecord, RowRecord
    <3> QED
      BY <1>7, <3>1 DEF RemoveUser, UserRecord, RowRecord
  <2> QED
    BY <1>2, <2>1
<1> QED
  BY <1>1, <1>3, <1>4, <1>5, <1>7, Writers DEF Remove, AccountWritten

-----------------------------------------------------------------------------
(* Sessions. *)

(* What a step that refreshes nothing does: it leaves the requests of       *)
(* refresh alone, or ends them; it opens a session or ends live ones.       *)
Stage == {"rotate", "reload", "owner"}
Keeps == \A d \in Clerks : req'[d].at \in Stage => req'[d] = req[d]
Ends == \E gone \in SUBSET Sessions : (\A s \in gone : session[s].state = "live") /\ session' = Ended(gone)
Opens == Open \/ \E c \in Clerks : SocialSession(c)
QuietStep == Keeps /\ UNCHANGED <<handed, holds>> /\ (session' = session \/ Ends)

LEMMA KeepsAs ==
  ASSUME Shape, NEW c \in Clerks
  PROVE  /\ UNCHANGED req => Keeps
         /\ Finish(c) => Keeps
         /\ \A r : Become(c, r) /\ r.at \notin Stage => Keeps
         /\ \A u, e, p, status : Change(u, e, p, status).at \notin Stage
         /\ \A u \in Users : Loaded(u) \in ChangeRequest /\ Opening(u).at \notin Stage
         /\ \A r \in ChangeRequest : r.at \notin Stage
<1>1. UNCHANGED req => Keeps
  BY DEF Keeps
<1>2. ASSUME NEW r, Become(c, r), r.at \notin Stage
      PROVE  Keeps
  BY <1>2 DEF Keeps, Become, Shape
<1>3. Idle.at \notin Stage
  BY DEF Idle, Stage
<1>4. Finish(c) => Keeps
  BY <1>2, <1>3 DEF Finish
<1>5. \A u, e, p, status : Change(u, e, p, status).at \notin Stage
  BY DEF Change, Stage
<1>6. \A u \in Users : Loaded(u) \in ChangeRequest /\ Opening(u).at \notin Stage
  BY Asking DEF Opening, Stage
<1>7. \A r \in ChangeRequest : r.at \notin Stage
  BY DEF ChangeRequest, Stage
<1> QED
  BY <1>1, <1>2, <1>4, <1>5, <1>6, <1>7

LEMMA CreateQuiet ==
  ASSUME Shape, NEW c \in Clerks, NEW e, NEW q, NEW status, NEW social, NEW mail,
         Create(c, e, q, status, social, mail)
  PROVE  QuietStep
<1> DEFINE r(u) == [at |-> IF u = None THEN "insert" ELSE "restore", user |-> u, email |-> e,
                    password |-> q, status |-> status, social |-> social, mail |-> mail]
<1>1. \A u : r(u).at \notin Stage
  BY DEF Stage
<1>2. (\E u : Become(c, r(u))) /\ UNCHANGED <<session, handed, holds>>
  BY DEF Create
<1> HIDE DEF r
<1> QED
  BY <1>1, <1>2, KeepsAs DEF QuietStep

(* Every step refreshes, opens, or does neither. *)
LEMMA SessionSteps ==
  ASSUME Shape, [Anything]_vars
  PROVE  \/ QuietStep
         \/ Keeps /\ Opens
         \/ \E c \in Clerks, s \in Sessions : Refresh(c, s)
         \/ \E c \in Clerks : RefreshRotate(c) \/ RefreshReload(c) \/ RefreshAnswer(c)
<1>1. CASE UNCHANGED vars
  BY <1>1 DEF vars, QuietStep, Keeps
<1>2. ASSUME NEW c \in Clerks, SignUp(c)
      PROVE  QuietStep
  BY <1>2, CreateQuiet DEF SignUp, Register, AddUser
<1>3. ASSUME NEW c \in Clerks, ByMail(c)
      PROVE  QuietStep
  <2>1. ASSUME NEW u \in Users, ConfirmEmail(c, u)
        PROVE  QuietStep
    <3>1. [Loaded(u) EXCEPT !.status = "active"].at \notin Stage
      BY KeepsAs DEF ChangeRequest
    <3> QED
      BY <2>1, <3>1, KeepsAs DEF ConfirmEmail, QuietStep
  <2>2. ASSUME NEW u \in Users, NEW e \in Emails, ConfirmNewEmail(c, u, e)
        PROVE  QuietStep
    <3>1. Loaded(u) \in ChangeRequest /\ Loaded(u).at \notin Stage
      BY KeepsAs
    <3>2. [Loaded(u) EXCEPT !.status = "active", !.email = e].at \notin Stage
      BY <3>1 DEF ChangeRequest
    <3> QED
      BY <2>2, <3>2, KeepsAs DEF ConfirmNewEmail, QuietStep
  <2>3. ASSUME NEW e \in Emails, ForgotPassword(c, e)
        PROVE  QuietStep
    BY <2>3, KeepsAs DEF ForgotPassword, QuietStep
  <2>4. ASSUME NEW u \in Users, NEW p \in Passwords, ResetPassword(c, u, p)
        PROVE  QuietStep
    <3>1. Loaded(u) \in ChangeRequest /\ Loaded(u).at \notin Stage
      BY KeepsAs
    <3>2. [Loaded(u) EXCEPT !.at = "revoke", !.password = Typed(p)].at \notin Stage
      BY <3>1 DEF ChangeRequest, Stage
    <3> QED
      BY <2>4, <3>2, KeepsAs DEF ResetPassword, QuietStep
  <2> QED
    BY <1>3, <2>1, <2>2, <2>3, <2>4 DEF ByMail
<1>4. ASSUME NEW c \in Clerks, Edit(c)
      PROVE  QuietStep
  <2>1. \A u, e, p, status : Change(u, e, p, status).at \notin Stage
    BY DEF Change, Stage
  <2>2. ASSUME NEW u, NEW e, NEW p, NEW status, UpdateUser(c, u, e, p, status)
        PROVE  QuietStep
    BY <2>1, <2>2, KeepsAs DEF UpdateUser, QuietStep
  <2>3. ASSUME NEW s \in Sessions, NEW old, NEW p, NEW e, UpdateMe(c, s, old, p, e)
        PROVE  QuietStep
    <3> DEFINE gone == SessionsOf(session[s].user) \ {s}
    <3>1. session' = session \/ session' = Ended(gone)
      BY <2>3 DEF UpdateMe
    <3>2. gone \in SUBSET Sessions /\ \A t \in gone : session[t].state = "live"
      BY DEF SessionsOf
    <3> HIDE DEF gone
    <3>3. session' = session \/ Ends
      BY <3>1, <3>2 DEF Ends
    <3>4. Keeps /\ UNCHANGED <<handed, holds>>
      BY <2>1, <2>3, KeepsAs DEF UpdateMe
    <3> QED
      BY <3>3, <3>4 DEF QuietStep
  <2> QED
    BY <1>4, <2>2, <2>3 DEF Edit
<1>5. ASSUME NEW c \in Clerks, Use(c)
      PROVE  QuietStep \/ \E s \in Sessions : Refresh(c, s)
  <2>1. ASSUME NEW s \in Sessions, Logout(s)
        PROVE  QuietStep
    <3>1. Ends
      BY <2>1 DEF Logout, Ends
    <3> QED
      BY <2>1, <3>1, KeepsAs DEF Logout, QuietStep
  <2> QED
    BY <1>5, <2>1 DEF Use
<1>6. ASSUME NEW c \in Clerks, External(c)
      PROVE  QuietStep
  <2>1. PICK e \in Emails : SocialKnown(c, e) \/ SocialByEmail(c, e) \/ SocialNew(c, e)
    BY <1>6 DEF External
  <2>2. CASE SocialKnown(c, e)
    <3>1. PICK u \in Users : Become(c, [Loaded(u) EXCEPT !.open = TRUE,
                                                         !.email = IF WithEmail(e) = {} THEN e ELSE @])
      BY <2>2 DEF SocialKnown, WithIdentity, Live
    <3>2. Loaded(u) \in ChangeRequest /\ Loaded(u).at \notin Stage
      BY KeepsAs
    <3>3. [Loaded(u) EXCEPT !.open = TRUE, !.email = IF WithEmail(e) = {} THEN e ELSE @].at \notin Stage
      BY <3>2 DEF ChangeRequest
    <3> QED
      BY <2>2, <3>1, <3>3, KeepsAs DEF SocialKnown, QuietStep
  <2>3. CASE SocialByEmail(c, e)
    <3>1. PICK u \in Users : \/ Become(c, [Loaded(u) EXCEPT !.open = TRUE, !.social = e])
                             \/ Become(c, Opening(u))
      BY <2>3 DEF SocialByEmail, WithEmail, Live
    <3>2. Loaded(u) \in ChangeRequest /\ Loaded(u).at \notin Stage /\ Opening(u).at \notin Stage
      BY KeepsAs
    <3>3. [Loaded(u) EXCEPT !.open = TRUE, !.social = e].at \notin Stage
      BY <3>2 DEF ChangeRequest
    <3> QED
      BY <2>3, <3>1, <3>2, <3>3, KeepsAs DEF SocialByEmail, QuietStep
  <2> QED
    BY <2>1, <2>2, <2>3, CreateQuiet DEF SocialNew
<1>7. ASSUME NEW c \in Clerks, InsertUser(c) \/ RestoreUser(c) \/ WriteRow(c)
      PROVE  QuietStep
  <2>1. UNCHANGED <<session, handed, holds>>
    BY <1>7 DEF InsertUser, RestoreUser, WriteRow
  <2>2. \A u : Opening(u).at \notin Stage
    BY DEF Opening, Stage
  <2>3. ASSUME RestoreUser(c)
        PROVE  Keeps
    <3>1. req[c] \in RestoreRequest
      BY <2>3, Stages DEF RestoreUser, At
    <3>2. [req[c] EXCEPT !.at = "restored"].at \notin Stage
      BY <3>1 DEF RestoreRequest, Stage
    <3>3. Finish(c) \/ Become(c, [req[c] EXCEPT !.at = "restored"])
      BY <2>3 DEF RestoreUser, GoOn, Become, Shape
    <3> QED
      BY <3>2, <3>3, KeepsAs
  <2>4. InsertUser(c) \/ WriteRow(c) => Finish(c) \/ \E u : Become(c, Opening(u))
    BY DEF InsertUser, WriteRow, Leave
  <2>5. Keeps
    BY <1>7, <2>2, <2>3, <2>4, KeepsAs
  <2> QED
    BY <2>1, <2>5 DEF QuietStep
<1>8. ASSUME NEW c \in Clerks, PrepareUpdate(c) \/ LoadRow(c) \/ ResetRevoke(c)
      PROVE  QuietStep
  <2>1. PrepareUpdate(c) \/ ResetRevoke(c) => req[c] \in ChangeRequest
    BY Stages DEF PrepareUpdate, ResetRevoke, At
  <2>2. CASE PrepareUpdate(c)
    <3>1. \A q : [req[c] EXCEPT !.at = "save", !.password = q].at \notin Stage
      BY <2>1, <2>2 DEF ChangeRequest, Stage
    <3>2. Finish(c) \/ \E q : Become(c, [req[c] EXCEPT !.at = "save", !.password = q])
      BY <2>2 DEF PrepareUpdate
    <3> QED
      BY <2>2, <3>1, <3>2, KeepsAs DEF PrepareUpdate, QuietStep
  <2>3. CASE LoadRow(c)
    <3>1. \A u, row, mail, open : Writing(u, row, mail, open).at \notin Stage
      BY DEF Writing, Stage
    <3>2. Finish(c) \/ \E u, row, mail, open : Become(c, Writing(u, row, mail, open))
      BY <2>3 DEF LoadRow
    <3> QED
      BY <2>3, <3>1, <3>2, KeepsAs DEF LoadRow, QuietStep
  <2>4. CASE ResetRevoke(c)
    <3>1. Become(c, [req[c] EXCEPT !.at = "update"])
      BY <2>4 DEF ResetRevoke, GoOn, Become, Shape
    <3>2. [req[c] EXCEPT !.at = "update"].at \notin Stage
      BY <2>1, <2>4 DEF ChangeRequest, Stage
    <3>3. Ends
      BY <2>4 DEF ResetRevoke, Ends, SessionsOf
    <3> QED
      BY <2>4, <3>1, <3>2, <3>3, KeepsAs DEF ResetRevoke, QuietStep
  <2> QED
    BY <1>8, <2>2, <2>3, <2>4
<1>9. ASSUME NEW c \in Clerks, SocialSession(c)
      PROVE  Keeps /\ Opens
  BY <1>9, KeepsAs DEF SocialSession, Opens
<1>10. CASE Open
  BY <1>10 DEF Open, Login, LoginAs, Opens, Keeps
<1>11. CASE Remove
  BY <1>11 DEF Remove, RemoveUser, QuietStep, Keeps
<1>12. ASSUME NEW c \in Clerks, Restart(c)
       PROVE  QuietStep
  BY <1>12, KeepsAs DEF Restart, QuietStep
<1> QED
  BY <1>1, <1>2, <1>3, <1>4, <1>5, <1>6, <1>7, <1>8, <1>9, <1>10, <1>11, <1>12, Steps DEF Server

(* What is known of each refresh token and of each refresh under way.       *)
Exchanges ==
  /\ OneExchange
  /\ \A s \in Sessions, h \in 0 .. MaxHash : handed[s][h] > 0 => h < session[s].hash
Deafness ==
  /\ DeletedIsDeaf
  /\ \A c \in Clerks : req[c].at \in Stage /\ req[c].late => session[req[c].session].state = "deleted"
Tokens == Used /\ Exchanges /\ Deafness

(* Sessions are used once, ended for good, and never rotated back.          *)
Onward ==
  \A s \in Sessions :
    /\ session[s].state # "unused" => session'[s].state # "unused"
    /\ session[s].state = "deleted" => session'[s].state = "deleted"
    /\ session[s].hash <= session'[s].hash

(* One request of refresh moves; the others stay or end. *)
Others(c) == \A d \in Clerks \ {c} : req'[d] = req[d]

LEMMA RowFacts ==
  ASSUME Shape, NEW s \in Sessions
  PROVE  /\ session[s] = NoSession \/ session[s] \in [user : Users, hash : 0 .. MaxHash, state : {"live", "deleted"}]
         /\ session[s].hash \in 0 .. MaxHash /\ session[s].state \in {"unused", "live", "deleted"}
         /\ session[s].state = "unused" => session[s] = NoSession
         /\ session[s].state # "unused" => session[s].user \in Users
         /\ \A h \in 0 .. MaxHash : handed[s][h] \in Nat
<1>1. session[s] \in SessionRecord
  BY DEF Shape
<1>2. session[s] = NoSession \/ session[s] \in [user : Users, hash : 0 .. MaxHash, state : {"live", "deleted"}]
  BY <1>1 DEF SessionRecord
<1>3. 0 \in 0 .. MaxHash
  BY AccountsBoundsAssumption
<1>4. \A h \in 0 .. MaxHash : handed[s][h] \in Nat
  BY DEF Shape
<1> QED
  BY <1>2, <1>3, <1>4 DEF NoSession

LEMMA QuietOnward ==
  ASSUME Shape, QuietStep
  PROVE  Onward /\ \A s \in Sessions : session'[s].hash = session[s].hash
<1>1. CASE session' = session
  <2>1. \A s \in Sessions : session[s].hash \in 0 .. MaxHash
    BY RowFacts
  <2> QED
    BY <1>1, <2>1, AccountsBoundsAssumption DEF Onward
<1>2. CASE Ends
  <2>1. PICK gone \in SUBSET Sessions : (\A s \in gone : session[s].state = "live") /\ session' = Ended(gone)
    BY <1>2 DEF Ends
  <2>2. ASSUME NEW s \in Sessions
        PROVE  /\ session'[s].hash = session[s].hash
               /\ session'[s].state = IF s \in gone THEN "deleted" ELSE session[s].state
    <3>1. session'[s] = IF s \in gone THEN [session[s] EXCEPT !.state = "deleted"] ELSE session[s]
      BY <2>1 DEF Ended
    <3>2. session[s] = NoSession \/ session[s] \in [user : Users, hash : 0 .. MaxHash, state : {"live", "deleted"}]
      BY RowFacts
    <3> QED
      BY <3>1, <3>2 DEF NoSession
  <2>3. \A s \in Sessions : session[s].hash \in 0 .. MaxHash
    BY RowFacts
  <2> QED
    BY <2>1, <2>2, <2>3, AccountsBoundsAssumption DEF Onward
<1> QED
  BY <1>1, <1>2 DEF QuietStep

LEMMA OpensOnward ==
  ASSUME Shape, NEW u \in Users, OpenSession(u)
  PROVE  /\ Onward
         /\ Fresh \in Sessions /\ session[Fresh] = NoSession
         /\ session'[Fresh] = [user |-> u, hash |-> 0, state |-> "live"] /\ holds'[Fresh] = 0
         /\ \A s \in Sessions \ {Fresh} : session'[s] = session[s] /\ holds'[s] = holds[s]
<1>1. Fresh \in Sessions /\ session[Fresh] = NoSession
  BY OpenedSession, RowFacts
<1>2. /\ session'[Fresh] = [user |-> u, hash |-> 0, state |-> "live"] /\ holds'[Fresh] = 0
      /\ \A s \in Sessions \ {Fresh} : session'[s] = session[s] /\ holds'[s] = holds[s]
  BY <1>1, OpenedSession DEF Shape
<1>3. \A s \in Sessions : session[s].hash \in 0 .. MaxHash
  BY RowFacts
<1> HIDE DEF Fresh
<1> QED
  BY <1>1, <1>2, <1>3, AccountsBoundsAssumption DEF Onward, NoSession

(* A step that lets the requests of refresh stay keeps what is known of them. *)
LEMMA KeepsRequests ==
  ASSUME Shape, Tokens, Onward, NEW d \in Clerks, req'[d] = req[d]
  PROVE  /\ req'[d].at \in Stage => session'[req'[d].session].state # "unused"
         /\ req'[d].at = "owner" => ~req'[d].late
         /\ req'[d].at \in Stage /\ req'[d].late => session'[req'[d].session].state = "deleted"
<1>1. req[d].at \in Stage => req[d].session \in Sessions
  BY Stages DEF Stage, RefreshRequest
<1>2. req[d].at = "owner" => ~req[d].late
  BY DEF Tokens, Deafness, DeletedIsDeaf, At
<1> QED
  BY <1>1, <1>2 DEF Tokens, Used, Deafness, Onward, Stage

LEMMA QuietTokens ==
  ASSUME Shape, Tokens, Shape', QuietStep
  PROVE  Tokens'
<1>1. Onward /\ \A s \in Sessions : session'[s].hash = session[s].hash
  BY QuietOnward
<1>2. ASSUME NEW d \in Clerks
      PROVE  /\ req'[d].at \in Stage => session'[req'[d].session].state # "unused"
             /\ req'[d].at = "owner" => ~req'[d].late
             /\ req'[d].at \in Stage /\ req'[d].late => session'[req'[d].session].state = "deleted"
  <2>1. req'[d].at \in Stage => req'[d] = req[d]
    BY DEF QuietStep, Keeps
  <2> QED
    BY <1>1, <2>1, KeepsRequests DEF Stage
<1>3. handed' = handed /\ holds' = holds
  BY DEF QuietStep
<1>4. Exchanges'
  BY <1>1, <1>3 DEF Tokens, Exchanges, OneExchange
<1>5. Used'
  BY <1>1, <1>2, <1>3 DEF Tokens, Used, Onward, Stage
<1>6. Deafness'
  BY <1>2 DEF Deafness, DeletedIsDeaf, At
<1> QED
  BY <1>4, <1>5, <1>6 DEF Tokens

(* Whose session it is. *)
LEMMA OpensWhose ==
  ASSUME Shape, Opens
  PROVE  \E u \in Users :
           /\ OpenSession(u)
           /\ user[u].live \/ \E c \in Clerks : req[c].at = "open" /\ req[c].user = u
<1>1. CASE Open
  BY <1>1 DEF Open, Login, LoginAs
<1>2. ASSUME NEW c \in Clerks, SocialSession(c)
      PROVE  req[c].user \in Users /\ req[c].at = "open" /\ OpenSession(req[c].user)
  BY <1>2, Stages DEF SocialSession, At, OpenRequest
<1> QED
  BY <1>1, <1>2 DEF Opens

LEMMA OpensTokens ==
  ASSUME Shape, Tokens, Shape', Keeps, NEW u \in Users, OpenSession(u)
  PROVE  Tokens'
<1>1. /\ Onward
      /\ Fresh \in Sessions /\ session[Fresh] = NoSession
      /\ session'[Fresh] = [user |-> u, hash |-> 0, state |-> "live"] /\ holds'[Fresh] = 0
      /\ \A s \in Sessions \ {Fresh} : session'[s] = session[s] /\ holds'[s] = holds[s]
  BY OpensOnward
<1> HIDE DEF Fresh
<1>2. ASSUME NEW d \in Clerks
      PROVE  /\ req'[d].at \in Stage => session'[req'[d].session].state # "unused"
             /\ req'[d].at = "owner" => ~req'[d].late
             /\ req'[d].at \in Stage /\ req'[d].late => session'[req'[d].session].state = "deleted"
  <2>1. req'[d].at \in Stage => req'[d] = req[d]
    BY DEF Keeps
  <2> QED
    BY <1>1, <2>1, KeepsRequests DEF Stage
<1>3. handed' = handed
  BY DEF OpenSession
<1>4. Exchanges'
  <2>1. OneExchange'
    BY <1>3 DEF Tokens, Exchanges, OneExchange
  <2>2. ASSUME NEW s \in Sessions, NEW h \in 0 .. MaxHash, handed'[s][h] > 0
        PROVE  h < session'[s].hash
    <3>1. h < session[s].hash
      BY <1>3, <2>2 DEF Tokens, Exchanges
    <3>2. session[s].hash <= session'[s].hash
      BY <1>1 DEF Onward
    <3>3. session[s].hash \in Nat /\ session'[s].hash \in Nat
      BY RowFacts, <1>1, AccountsBoundsAssumption
    <3> QED
      BY <3>1, <3>2, <3>3, AccountsBoundsAssumption
  <2> QED
    BY <2>1, <2>2 DEF Exchanges
<1>5. Used'
  BY <1>1, <1>2 DEF Tokens, Used, Stage
<1>6. Deafness'
  BY <1>2 DEF Deafness, DeletedIsDeaf, At
<1> QED
  BY <1>4, <1>5, <1>6 DEF Tokens

(* One request moves on: what is known of the others stays, so it is enough *)
(* to look at that one.                                                     *)
LEMMA OneMoves ==
  ASSUME Shape, Tokens, Onward, NEW c \in Clerks, Others(c),
         req'[c].at \in Stage => session'[req'[c].session].state # "unused",
         req'[c].at = "owner" => ~req'[c].late,
         req'[c].at \in Stage /\ req'[c].late => session'[req'[c].session].state = "deleted",
         \A s \in Sessions : session'[s].state = "unused" => holds'[s] = None
  PROVE  Used' /\ Deafness'
<1>1. ASSUME NEW d \in Clerks
      PROVE  /\ req'[d].at \in Stage => session'[req'[d].session].state # "unused"
             /\ req'[d].at = "owner" => ~req'[d].late
             /\ req'[d].at \in Stage /\ req'[d].late => session'[req'[d].session].state = "deleted"
  <2>1. CASE d = c
    BY <2>1
  <2>2. CASE d # c
    <3>1. req'[d] = req[d]
      BY <2>2 DEF Others
    <3> QED
      BY <3>1, KeepsRequests
  <2> QED
    BY <2>1, <2>2
<1>2. Used'
  BY <1>1 DEF Used, Stage
<1>3. Deafness'
  BY <1>1 DEF Deafness, DeletedIsDeaf, At
<1> QED
  BY <1>2, <1>3

LEMMA BecomeOthers ==
  ASSUME Shape, NEW c \in Clerks, NEW r, Become(c, r)
  PROVE  req'[c] = r /\ Others(c)
BY DEF Shape, Become, Others

LEMMA SameOnward == Shape /\ session' = session => Onward
<1> SUFFICES ASSUME Shape, session' = session PROVE Onward
  OBVIOUS
<1>1. \A s \in Sessions : session[s].hash \in 0 .. MaxHash
  BY RowFacts
<1> QED
  BY <1>1, AccountsBoundsAssumption DEF Onward

LEMMA RefreshTokens ==
  ASSUME Shape, Tokens, Shape', NEW c \in Clerks, NEW s \in Sessions, Refresh(c, s)
  PROVE  Tokens'
<1> DEFINE r == [at |-> "rotate", session |-> s, hash |-> holds[s], late |-> session[s].state = "deleted"]
<1>1. Become(c, r) /\ UNCHANGED <<session, handed, holds>>
  BY DEF Refresh
<1>2. req'[c] = r /\ Others(c) /\ Onward
  BY <1>1, BecomeOthers, SameOnward
<1>3. session[s].state # "unused"
  BY DEF Refresh, Tokens, Used
<1>4. r.at = "rotate" /\ r.session = s /\ (r.late <=> session[s].state = "deleted")
  OBVIOUS
<1> HIDE DEF r
<1>5. Used' /\ Deafness'
  BY <1>1, <1>2, <1>3, <1>4, OneMoves DEF Tokens, Used
<1>6. Exchanges'
  BY <1>1 DEF Tokens, Exchanges, OneExchange
<1> QED
  BY <1>5, <1>6 DEF Tokens

(* The UPDATE matches the presented hash, so the token it exchanges is the  *)
(* one that was never exchanged yet.                                        *)
LEMMA RotateTokens ==
  ASSUME Shape, Tokens, Shape', NEW c \in Clerks, RefreshRotate(c)
  PROVE  Tokens'
<1> DEFINE s == req[c].session
           h == req[c].hash
<1>1. req[c] \in RefreshRequest /\ req[c].at = "rotate"
  BY Stages DEF RefreshRotate, At
<1>2. s \in Sessions /\ h \in 0 .. MaxHash /\ session[s].state # "unused"
  BY <1>1 DEF RefreshRequest, Tokens, Used
<1>3. req[c].late => session[s].state = "deleted"
  BY <1>1 DEF Tokens, Deafness, Stage
<1>4. CASE Finish(c) /\ UNCHANGED <<session, handed, holds>>
  <2>1. req'[c] = Idle /\ Others(c) /\ Onward
    BY <1>4, BecomeOthers, SameOnward DEF Finish
  <2>2. Used' /\ Deafness'
    BY <1>4, <2>1, OneMoves DEF Tokens, Used, Idle, Stage
  <2>3. Exchanges'
    BY <1>4 DEF Tokens, Exchanges, OneExchange
  <2> QED
    BY <2>2, <2>3 DEF Tokens
<1>5. CASE /\ session[s].hash = h
           /\ session' = [session EXCEPT ![s].hash = @ + 1]
           /\ Become(c, [req[c] EXCEPT !.at = "reload", !.hash = session[s].hash + 1])
           /\ handed' = [handed EXCEPT ![s][h] = @ + 1]
           /\ UNCHANGED holds
  <2> DEFINE r == [req[c] EXCEPT !.at = "reload", !.hash = session[s].hash + 1]
  <2>1. session[s] \in [user : Users, hash : 0 .. MaxHash, state : {"live", "deleted"}]
    BY <1>2, RowFacts DEF NoSession
  <2>2. /\ session'[s].hash = h + 1 /\ session'[s].state = session[s].state
        /\ \A t \in Sessions \ {s} : session'[t] = session[t]
    BY <1>2, <1>5, <2>1 DEF Shape
  <2>2a. \A t \in Sessions : session[t].hash \in 0 .. MaxHash
    BY RowFacts
  <2>3. Onward
    BY <1>2, <1>5, <2>2, <2>2a, AccountsBoundsAssumption DEF Onward
  <2>4. r.at = "reload" /\ r.session = s /\ r.late = req[c].late
    BY <1>1 DEF RefreshRequest
  <2>5. req'[c] = r /\ Others(c)
    BY <1>5, BecomeOthers
  <2> HIDE DEF r
  <2>6. ASSUME r.late PROVE session'[s].state = "deleted"
    BY <1>3, <2>2, <2>4, <2>6
  <2>7. \A t \in Sessions : session'[t].state = "unused" => holds'[t] = None
    BY <1>2, <1>5, <2>2 DEF Tokens, Used
  <2>8. Used' /\ Deafness'
    BY <1>2, <2>2, <2>3, <2>4, <2>5, <2>6, <2>7, OneMoves
  <2>9. Exchanges'
    <3>1. handed[s][h] = 0
      <4>1. handed[s][h] \in Nat /\ ~(handed[s][h] > 0)
        BY <1>2, <1>5, RowFacts DEF Tokens, Exchanges
      <4> QED
        BY <4>1
    <3>2. ASSUME NEW t \in Sessions, NEW k \in 0 .. MaxHash
          PROVE  handed'[t][k] = IF t = s /\ k = h THEN 1 ELSE handed[t][k]
      <4>1. handed[s] \in [0 .. MaxHash -> Nat]
        BY <1>2 DEF Shape
      <4>2. handed' = [handed EXCEPT ![s] = [handed[s] EXCEPT ![h] = handed[s][h] + 1]]
        BY <1>5
      <4>3. handed'[t] = IF t = s THEN [handed[s] EXCEPT ![h] = handed[s][h] + 1] ELSE handed[t]
        BY <1>2, <4>2 DEF Shape
      <4>4. [handed[s] EXCEPT ![h] = handed[s][h] + 1][k] = IF k = h THEN handed[s][h] + 1 ELSE handed[s][k]
        BY <4>1
      <4> QED
        BY <3>1, <4>3, <4>4
    <3>3. OneExchange'
      BY <3>2 DEF Tokens, Exchanges, OneExchange
    <3>4. ASSUME NEW t \in Sessions, NEW k \in 0 .. MaxHash, handed'[t][k] > 0
          PROVE  k < session'[t].hash
      <4>1. CASE t = s /\ k = h
        BY <1>2, <2>2, <4>1, AccountsBoundsAssumption
      <4>2. CASE ~(t = s /\ k = h)
        <5>1. k < session[t].hash
          BY <3>2, <3>4, <4>2 DEF Tokens, Exchanges
        <5>2. session[t].hash \in 0 .. MaxHash /\ (session'[t].hash = session[t].hash + 1 \/ session'[t] = session[t])
          BY <1>5, <2>2, <2>2a
        <5> QED
          BY <5>1, <5>2, AccountsBoundsAssumption
      <4> QED
        BY <4>1, <4>2
    <3> QED
      BY <3>3, <3>4 DEF Exchanges
  <2> QED
    BY <2>8, <2>9 DEF Tokens
<1> QED
  BY <1>4, <1>5 DEF RefreshRotate, Rotates

(* The look-up after it finds live sessions only. *)
LEMMA ReloadTokens ==
  ASSUME Shape, Tokens, Shape', NEW c \in Clerks, RefreshReload(c)
  PROVE  Tokens'
<1>1. req[c] \in RefreshRequest /\ req[c].at = "reload"
  BY Stages DEF RefreshReload, At
<1>2. UNCHANGED <<session, handed, holds>>
  BY DEF RefreshReload
<1>3. Exchanges'
  BY <1>2 DEF Tokens, Exchanges, OneExchange
<1>4. CASE Finish(c)
  <2>1. req'[c] = Idle /\ Others(c) /\ Onward
    BY <1>2, <1>4, BecomeOthers, SameOnward DEF Finish
  <2> QED
    BY <1>2, <1>3, <2>1, OneMoves DEF Tokens, Used, Idle, Stage
<1>5. CASE session[req[c].session].state = "live" /\ GoOn(c, "owner")
  <2> DEFINE r == [req[c] EXCEPT !.at = "owner"]
  <2>1. Become(c, r)
    BY <1>5 DEF GoOn, Become, Shape
  <2>2. req'[c] = r /\ Others(c) /\ Onward
    BY <1>2, <2>1, BecomeOthers, SameOnward
  <2>3. r.at = "owner" /\ r.session = req[c].session /\ r.late = req[c].late
    BY <1>1 DEF RefreshRequest
  <2> HIDE DEF r
  <2>4. ~req[c].late
    BY <1>1, <1>5 DEF Tokens, Deafness, Stage
  <2>5. ~r.late
    BY <2>3, <2>4
  <2> QED
    BY <1>2, <1>3, <1>5, <2>2, <2>3, <2>5, OneMoves DEF Tokens, Used
<1> QED
  BY <1>4, <1>5 DEF RefreshReload, Reloads

LEMMA AnswerTokens ==
  ASSUME Shape, Tokens, Shape', NEW c \in Clerks, RefreshAnswer(c)
  PROVE  Tokens'
<1> DEFINE s == req[c].session
<1>1. req[c] \in RefreshRequest /\ req[c].at = "owner"
  BY Stages DEF RefreshAnswer, At
<1>2. s \in Sessions /\ session[s].state # "unused"
  BY <1>1 DEF RefreshRequest, Tokens, Used
<1>3. UNCHANGED <<session, handed>> /\ Finish(c)
  BY DEF RefreshAnswer
<1>4. req'[c] = Idle /\ Others(c) /\ Onward
  BY <1>3, BecomeOthers, SameOnward DEF Finish
<1>5. \A t \in Sessions \ {s} : holds'[t] = holds[t]
  BY DEF RefreshAnswer, Shape
<1>6. \A t \in Sessions : session'[t].state = "unused" => holds'[t] = None
  BY <1>2, <1>3, <1>5 DEF Tokens, Used
<1>7. Exchanges'
  BY <1>3 DEF Tokens, Exchanges, OneExchange
<1> QED
  BY <1>4, <1>6, <1>7, OneMoves DEF Tokens, Idle, Stage

LEMMA InitTokens == Init => Tokens /\ Addresses
<1> SUFFICES ASSUME Init PROVE Tokens /\ Addresses
  OBVIOUS
<1>1. Used /\ Deafness
  BY DEF Init, Used, Deafness, DeletedIsDeaf, At, Idle, Stage
<1>2. Exchanges
  BY DEF Init, Exchanges, OneExchange
<1>3. Addresses
  BY DEF Init, Addresses, EmailIsUnique, Live, NoUser
<1> QED
  BY <1>1, <1>2, <1>3 DEF Tokens

LEMMA TokensStep == Shape /\ Tokens /\ [Anything]_vars => Shape' /\ Tokens'
<1> SUFFICES ASSUME Shape, Tokens, [Anything]_vars PROVE Shape' /\ Tokens'
  OBVIOUS
<1>1. Shape'
  BY ShapeStep DEF Tokens
<1>2. CASE QuietStep
  BY <1>1, <1>2, QuietTokens
<1>3. CASE Keeps /\ Opens
  BY <1>1, <1>3, OpensWhose, OpensTokens
<1> QED
  BY <1>1, <1>2, <1>3, SessionSteps, RefreshTokens, RotateTokens, ReloadTokens, AnswerTokens

-----------------------------------------------------------------------------
(* The steps of every day of MCAccounts, and of the server that restarts,   *)
(* are among them.                                                          *)
LEMMA EveryDay ==
  /\ Next => Anything
  /\ SessionNext => Anything
  /\ FaultNext => Anything
  /\ [DayNext]_<<vars, day>> => [Anything]_vars
<1>1. Next => Anything
  BY DEF Anything
<1>2. SessionNext => Anything
  <2>1. ASSUME NEW c \in Clerks, \E e \in Emails, p \in Passwords : AddUser(c, e, p)
        PROVE  SignUp(c)
    BY <2>1 DEF SignUp
  <2> QED
    BY <2>1 DEF SessionNext, Anything, Next
<1>3. FaultNext => Anything
  BY <1>2 DEF FaultNext, Anything
<1>4. ColumnsNext => Anything
  BY DEF ColumnsNext, Anything, Next
<1>5. DayNext => Anything
  BY <1>1, <1>2, <1>3, <1>4 DEF DayNext
<1> QED
  BY <1>1, <1>2, <1>3, <1>5 DEF vars

AccountsInvariant == Shape /\ Tokens /\ Addresses

LEMMA Invariant == Init /\ [][Anything]_vars => []AccountsInvariant
<1>1. Init => AccountsInvariant
  BY InitShape, InitTokens DEF AccountsInvariant
<1>2. AccountsInvariant /\ [Anything]_vars => AccountsInvariant'
  BY TokensStep, AddressesStep DEF AccountsInvariant
<1> QED
  BY <1>1, <1>2, PTL

LEMMA InvariantOfADay == DaySpec => []AccountsInvariant
<1>1. [DayNext]_<<vars, day>> => [Anything]_vars
  BY EveryDay
<1>2. DayInit => Init
  BY DEF DayInit
<1> QED
  BY <1>1, <1>2, Invariant, PTL DEF DaySpec

(* Whatever sign-ups, restorations, edits, confirmations and external       *)
(* logins overlap, and whenever the server restarts, two live accounts      *)
(* never answer to the same address: each write of users.service checks the *)
(* unique index, not only the look-up before it.                            *)
THEOREM AddressesStayUnique == Init /\ [][Anything]_vars => []EmailIsUnique
<1>1. AccountsInvariant => EmailIsUnique
  BY DEF AccountsInvariant, Addresses
<1> QED
  BY <1>1, Invariant, PTL

(* The conditional UPDATE of auth.service's refreshToken lets at most one   *)
(* of the requests that present a token exchange it, restarts included.     *)
THEOREM TokensExchangedOnce == Init /\ [][Anything]_vars => []OneExchange
<1>1. AccountsInvariant => OneExchange
  BY DEF AccountsInvariant, Tokens, Exchanges
<1> QED
  BY <1>1, Invariant, PTL

(* A refresh that begins after its session was deleted is never answered.   *)
THEOREM DeletedSessionsAnswerNobody == Init /\ [][Anything]_vars => []DeletedIsDeaf
<1>1. AccountsInvariant => DeletedIsDeaf
  BY DEF AccountsInvariant, Tokens, Deafness
<1> QED
  BY <1>1, Invariant, PTL

(* The same of the specifications that are model-checked, and of the server *)
(* whose requests are fairly served.                                        *)
THEOREM EveryDayIsSafe ==
  /\ Spec => [](EmailIsUnique /\ OneExchange /\ DeletedIsDeaf)
  /\ FaultSpec => [](EmailIsUnique /\ OneExchange /\ DeletedIsDeaf)
  /\ DaySpec => [](EmailIsUnique /\ OneExchange /\ DeletedIsDeaf)
<1>1. AccountsInvariant => EmailIsUnique /\ OneExchange /\ DeletedIsDeaf
  BY DEF AccountsInvariant, Addresses, Tokens, Exchanges, Deafness
<1>2. ([Next]_vars => [Anything]_vars) /\ ([FaultNext]_vars => [Anything]_vars)
  BY EveryDay
<1>3. Spec => [](EmailIsUnique /\ OneExchange /\ DeletedIsDeaf)
  BY <1>1, <1>2, Invariant, PTL DEF Spec
<1>4. FaultSpec => [](EmailIsUnique /\ OneExchange /\ DeletedIsDeaf)
  BY <1>1, <1>2, Invariant, PTL DEF FaultSpec
<1>5. DaySpec => [](EmailIsUnique /\ OneExchange /\ DeletedIsDeaf)
  BY <1>1, InvariantOfADay, PTL
<1> QED
  BY <1>3, <1>4, <1>5

-----------------------------------------------------------------------------
(* The owner's token. *)

(* Sessions, and logins under way, are of accounts that exist. *)
Owned ==
  /\ \A s \in Sessions : session[s].state = "live" => user[session[s].user].live
  /\ \A c \in Clerks : req[c].at = "open" => user[req[c].user].live

(* At most one refresh of a session has rotated it and not answered yet:    *)
(* it carries the hash the session expects, all others present older ones.  *)
Pending(s) == {c \in Clerks : req[c].at \in {"reload", "owner"} /\ req[c].session = s}
HeldBy(s) ==
  /\ holds[s] \in 0 .. session[s].hash
  /\ \A c \in Clerks : req[c].at = "rotate" /\ req[c].session = s => req[c].hash <= holds[s]
  /\ \A c \in Pending(s) : req[c].hash = session[s].hash /\ holds[s] < session[s].hash
  /\ \A c, d \in Pending(s) : c = d
  /\ Pending(s) = {} => holds[s] = session[s].hash
Held == \A s \in Sessions : session[s].state = "live" => HeldBy(s)

(* A step that serves no refresh leaves those under way where they are, and *)
(* asks for a session of a live account only.                               *)
Stays == \A d \in Clerks : req[d].at \in Stage => req'[d] = req[d]
AsksForLive == \A d \in Clerks : req'[d].at = "open" => req'[d] = req[d] \/ user'[req'[d].user].live

LEMMA StaysAs ==
  ASSUME Shape, NEW c \in Clerks, NEW r, Become(c, r)
  PROVE  /\ IsIdle(c) => Stays
         /\ req[c].at \notin Stage => Stays
         /\ (r.at = "open" => user'[r.user].live) => AsksForLive
<1>1. req'[c] = r /\ Others(c)
  BY BecomeOthers
<1> QED
  BY <1>1 DEF Others, Stays, AsksForLive, IsIdle, Stage

LEMMA CreateStays ==
  ASSUME Shape, NEW c \in Clerks, NEW e, NEW q, NEW status, NEW social, NEW mail,
         Create(c, e, q, status, social, mail)
  PROVE  Stays /\ AsksForLive
<1> DEFINE r(u) == [at |-> IF u = None THEN "insert" ELSE "restore", user |-> u, email |-> e,
                    password |-> q, status |-> status, social |-> social, mail |-> mail]
<1>1. \A u : r(u).at # "open"
  OBVIOUS
<1>2. (\E u : Become(c, r(u))) /\ IsIdle(c)
  BY DEF Create
<1> HIDE DEF r
<1> QED
  BY <1>1, <1>2, StaysAs

(* A request for a change. *)
LEMMA ChangeStays ==
  ASSUME Shape, NEW c \in Clerks, ByMail(c) \/ Edit(c)
  PROVE  Stays /\ AsksForLive
<1>1. ASSUME NEW r, Become(c, r), IsIdle(c), r.at # "open"
      PROVE  Stays /\ AsksForLive
  BY <1>1, StaysAs
<1>2. ASSUME UNCHANGED req
      PROVE  Stays /\ AsksForLive
  BY <1>2 DEF Stays, AsksForLive
<1>3. ASSUME NEW u \in Users
      PROVE  Loaded(u) \in ChangeRequest /\ Loaded(u).at # "open"
  BY Asking DEF ChangeRequest
<1>4. ASSUME NEW u \in Users, ConfirmEmail(c, u)
      PROVE  Stays /\ AsksForLive
  <2>1. [Loaded(u) EXCEPT !.status = "active"].at # "open"
    BY <1>3 DEF ChangeRequest
  <2> QED
    BY <1>1, <1>4, <2>1 DEF ConfirmEmail
<1>5. ASSUME NEW u \in Users, NEW e \in Emails, ConfirmNewEmail(c, u, e)
      PROVE  Stays /\ AsksForLive
  <2>1. [Loaded(u) EXCEPT !.status = "active", !.email = e].at # "open"
    BY <1>3 DEF ChangeRequest
  <2> QED
    BY <1>1, <1>5, <2>1 DEF ConfirmNewEmail
<1>6. ASSUME NEW u \in Users, NEW p \in Passwords, ResetPassword(c, u, p)
      PROVE  Stays /\ AsksForLive
  <2>1. [Loaded(u) EXCEPT !.at = "revoke", !.password = Typed(p)].at # "open"
    BY <1>3 DEF ChangeRequest
  <2> QED
    BY <1>1, <1>6, <2>1 DEF ResetPassword
<1>7. ASSUME NEW e, ForgotPassword(c, e)
      PROVE  Stays /\ AsksForLive
  BY <1>2, <1>7 DEF ForgotPassword
<1>8. \A u, e, p, status : Change(u, e, p, status).at # "open"
  BY DEF Change
<1>9. ASSUME NEW u, NEW e, NEW p, NEW status, UpdateUser(c, u, e, p, status)
      PROVE  Stays /\ AsksForLive
  BY <1>1, <1>8, <1>9 DEF UpdateUser
<1>10. ASSUME NEW s, NEW old, NEW p, NEW e, UpdateMe(c, s, old, p, e)
       PROVE  Stays /\ AsksForLive
  BY <1>1, <1>8, <1>10 DEF UpdateMe
<1> QED
  BY <1>4, <1>5, <1>6, <1>7, <1>9, <1>10 DEF ByMail, Edit

(* An external login. *)
LEMMA ExternalStays ==
  ASSUME Shape, NEW c \in Clerks, External(c)
  PROVE  Stays /\ AsksForLive
<1>1. PICK e \in Emails : SocialKnown(c, e) \/ SocialByEmail(c, e) \/ SocialNew(c, e)
  BY DEF External
<1>2. ASSUME NEW u \in Users
      PROVE  Loaded(u) \in ChangeRequest /\ Loaded(u).at # "open"
  BY Asking DEF ChangeRequest
<1>3. CASE SocialKnown(c, e)
  <2>1. PICK u \in Users : Become(c, [Loaded(u) EXCEPT !.open = TRUE,
                                                       !.email = IF WithEmail(e) = {} THEN e ELSE @])
    BY <1>3 DEF SocialKnown, WithIdentity, Live
  <2>2. [Loaded(u) EXCEPT !.open = TRUE, !.email = IF WithEmail(e) = {} THEN e ELSE @].at # "open"
    BY <1>2 DEF ChangeRequest
  <2> QED
    BY <1>3, <2>1, <2>2, StaysAs DEF SocialKnown
<1>4. CASE SocialByEmail(c, e)
  <2>1. PICK u \in Users : /\ user[u].live
                           /\ \/ Become(c, [Loaded(u) EXCEPT !.open = TRUE, !.social = e])
                              \/ Become(c, Opening(u))
    BY <1>4 DEF SocialByEmail, WithEmail, Live
  <2>2. [Loaded(u) EXCEPT !.open = TRUE, !.social = e].at # "open"
    BY <1>2 DEF ChangeRequest
  <2>3. user'[Opening(u).user].live
    BY <1>4, <2>1 DEF SocialByEmail, Opening
  <2>4. IsIdle(c)
    BY <1>4 DEF SocialByEmail
  <2>5. ASSUME NEW r, Become(c, r), r.at = "open" => user'[r.user].live
        PROVE  Stays /\ AsksForLive
    BY <2>4, <2>5, StaysAs
  <2> QED
    BY <2>1, <2>2, <2>3, <2>5
<1>5. CASE SocialNew(c, e)
  BY <1>5, CreateStays DEF SocialNew
<1> QED
  BY <1>1, <1>3, <1>4, <1>5

(* The server's statements about accounts; those of a login. *)
LEMMA ServerStays ==
  ASSUME Shape, NEW c \in Clerks,
         InsertUser(c) \/ RestoreUser(c) \/ PrepareUpdate(c) \/ LoadRow(c) \/ WriteRow(c)
           \/ ResetRevoke(c) \/ SocialSession(c)
  PROVE  Stays /\ AsksForLive
<1>1. req[c].at \notin Stage
  BY DEF InsertUser, RestoreUser, PrepareUpdate, LoadRow, WriteRow, ResetRevoke, SocialSession, At, Stage
<1>2. Finish(c) => Stays /\ AsksForLive
  BY <1>1, StaysAs DEF Finish, Idle
<1>3. ASSUME NEW r, Become(c, r), r.at = "open" => user'[r.user].live
      PROVE  Stays /\ AsksForLive
  BY <1>1, <1>3, StaysAs
<1>4. ASSUME NEW u \in Users, Become(c, Opening(u)), NEW row \in LiveRecord, user' = [user EXCEPT ![u] = row]
      PROVE  Stays /\ AsksForLive
  <2>1. Opening(u).user = u
    BY DEF Opening
  <2>2. user'[u].live
    BY <1>4, RowWritten
  <2> QED
    BY <1>3, <1>4, <2>1, <2>2
<1>5. CASE InsertUser(c)
  <2> DEFINE u == CHOOSE v \in Unborn : TRUE
  <2>1. u \in Users
    BY <1>5, ChosenRows DEF Unborn
  <2>2. req[c] \in CreateRequest
    BY <1>5, Stages DEF InsertUser, At
  <2>3. Finish(c) \/ (user' = [user EXCEPT ![u] = Account(c, u)] /\ Become(c, Opening(u)))
    BY <1>5 DEF InsertUser, Leave
  <2> HIDE DEF u
  <2>4. Account(c, u) \in LiveRecord
    BY <2>1, <2>2, AccountShape
  <2> QED
    BY <1>2, <1>4, <2>1, <2>3, <2>4
<1>6. CASE RestoreUser(c)
  <2>1. req[c] \in RestoreRequest
    BY <1>6, Stages DEF RestoreUser, At
  <2>2. [req[c] EXCEPT !.at = "restored"].at # "open"
    BY <2>1 DEF RestoreRequest
  <2>3. Finish(c) \/ Become(c, [req[c] EXCEPT !.at = "restored"])
    BY <1>6 DEF RestoreUser, GoOn, Become, Shape
  <2> QED
    BY <1>2, <1>3, <2>2, <2>3
<1>7. CASE WriteRow(c)
  <2>1. req[c].user \in Users /\ req[c].row \in LiveRecord
    BY <1>7, Stages DEF WriteRow, At, WriteRequest
  <2>2. \/ Finish(c)
        \/ user' = [user EXCEPT ![req[c].user] = req[c].row] /\ Become(c, Opening(req[c].user))
    BY <1>7 DEF WriteRow, Leave
  <2> QED
    BY <1>2, <1>4, <2>1, <2>2
<1>8. CASE LoadRow(c)
  <2>1. \A u, row, mail, open : Writing(u, row, mail, open).at # "open"
    BY DEF Writing
  <2>2. Finish(c) \/ \E u, row, mail, open : Become(c, Writing(u, row, mail, open))
    BY <1>8 DEF LoadRow
  <2> QED
    BY <1>2, <1>3, <2>1, <2>2
<1>9. CASE PrepareUpdate(c) \/ ResetRevoke(c)
  <2>1. req[c] \in ChangeRequest
    BY <1>9, Stages DEF PrepareUpdate, ResetRevoke, At
  <2>2. \A q : [req[c] EXCEPT !.at = "save", !.password = q].at # "open"
    BY <2>1 DEF ChangeRequest
  <2>3. [req[c] EXCEPT !.at = "update"].at # "open"
    BY <2>1 DEF ChangeRequest
  <2>4. \/ Finish(c)
        \/ \E q : Become(c, [req[c] EXCEPT !.at = "save", !.password = q])
        \/ Become(c, [req[c] EXCEPT !.at = "update"])
    BY <1>9 DEF PrepareUpdate, ResetRevoke, GoOn, Become, Shape
  <2> QED
    BY <1>2, <1>3, <2>2, <2>3, <2>4
<1>10. CASE SocialSession(c)
  BY <1>2, <1>10 DEF SocialSession
<1> QED
  BY <1>5, <1>6, <1>7, <1>8, <1>9, <1>10

(* While every answer arrives, a step serves one refresh or leaves them all *)
(* alone.                                                                   *)
LEMMA AttendedSteps ==
  ASSUME Shape, [Attended]_vars
  PROVE  /\ [Anything]_vars
         /\ AsksForLive
         /\ Stays \/ \E c \in Clerks : RefreshRotate(c) \/ RefreshReload(c) \/ RefreshAnswer(c)
<1>0. [Anything]_vars
  BY DEF Attended, Anything, Next
<1>1. ASSUME UNCHANGED req
      PROVE  Stays /\ AsksForLive
  BY <1>1 DEF Stays, AsksForLive
<1>2. CASE UNCHANGED vars
  BY <1>0, <1>1, <1>2 DEF vars
<1>3. CASE Open
  BY <1>0, <1>1, <1>3 DEF Open, Login, LoginAs
<1>4. ASSUME NEW c \in Clerks, SignUp(c)
      PROVE  Stays /\ AsksForLive
  BY <1>4, CreateStays DEF SignUp, Register, AddUser
<1>5. ASSUME NEW c \in Clerks, Use(c)
      PROVE  Stays /\ AsksForLive
  <2>1. ASSUME NEW s \in Sessions, Refresh(c, s)
        PROVE  Stays /\ AsksForLive
    <3> DEFINE r == [at |-> "rotate", session |-> s, hash |-> holds[s], late |-> session[s].state = "deleted"]
    <3>1. Become(c, r) /\ IsIdle(c)
      BY <2>1 DEF Refresh
    <3>2. r.at # "open"
      OBVIOUS
    <3> HIDE DEF r
    <3> QED
      BY <3>1, <3>2, StaysAs
  <2> QED
    BY <1>1, <1>5, <2>1 DEF Use, Logout
<1>6. ASSUME NEW c \in Clerks, RefreshRotate(c) \/ RefreshReload(c) \/ RefreshAnswer(c)
      PROVE  AsksForLive
  <2>1. req[c] \in RefreshRequest
    BY <1>6, Stages DEF RefreshRotate, RefreshReload, RefreshAnswer, At
  <2>2. /\ \A h : [req[c] EXCEPT !.at = "reload", !.hash = h].at # "open"
        /\ [req[c] EXCEPT !.at = "owner"].at # "open" /\ Idle.at # "open"
    BY <2>1 DEF RefreshRequest, Idle
  <2>3. \/ \E h : Become(c, [req[c] EXCEPT !.at = "reload", !.hash = h])
        \/ Become(c, [req[c] EXCEPT !.at = "owner"])
        \/ Become(c, Idle)
    BY <1>6 DEF RefreshRotate, RefreshReload, RefreshAnswer, Finish, GoOn, Become, Shape
  <2> QED
    BY <2>2, <2>3, StaysAs
<1> QED
  BY <1>0, <1>2, <1>3, <1>4, <1>5, <1>6, ChangeStays, ExternalStays, ServerStays DEF Attended, Server

(* No account goes. *)
LEMMA LiveStays ==
  ASSUME Shape, [Attended]_vars
  PROVE  \A u \in Users : user[u].live => user'[u].live
<1>1. ASSUME NEW u \in Users, NEW row \in LiveRecord, user' = [user EXCEPT ![u] = row]
      PROVE  \A v \in Users : user[v].live => user'[v].live
  BY <1>1, RowWritten
<1>2. CASE user' = user
  BY <1>2
<1>3. ASSUME NEW c \in Clerks, InsertUser(c)
      PROVE  \A v \in Users : user[v].live => user'[v].live
  <2>1. req[c] \in CreateRequest
    BY <1>3, Stages DEF InsertUser, At
  <2>2. (CHOOSE v \in Unborn : TRUE) \in Users
    BY <1>3, ChosenRows DEF Unborn
  <2>3. user' = user \/ \E u \in Users : user' = [user EXCEPT ![u] = Account(c, u)]
    BY <1>3, <2>2 DEF InsertUser
  <2>4. \A u \in Users : Account(c, u) \in LiveRecord
    BY <2>1, AccountShape
  <2> QED
    BY <1>1, <2>3, <2>4
<1>4. ASSUME NEW c \in Clerks, RestoreUser(c)
      PROVE  \A v \in Users : user[v].live => user'[v].live
  <2>1. user' = user \/ \E u : user' = [user EXCEPT ![u].live = TRUE]
    BY <1>4 DEF RestoreUser
  <2> QED
    BY <2>1 DEF Shape, UserRecord, RowRecord, NoUser
<1>5. ASSUME NEW c \in Clerks, WriteRow(c)
      PROVE  \A v \in Users : user[v].live => user'[v].live
  <2>1. req[c].user \in Users /\ req[c].row \in LiveRecord
    BY <1>5, Stages DEF WriteRow, At, WriteRequest
  <2>2. user' = user \/ user' = [user EXCEPT ![req[c].user] = req[c].row]
    BY <1>5 DEF WriteRow
  <2> QED
    BY <1>1, <2>1, <2>2
<1> QED
  BY <1>2, <1>3, <1>4, <1>5, Writers DEF AccountWritten

LEMMA OwnedStep == Shape /\ Tokens /\ Owned /\ [Attended]_vars => Owned'
<1> SUFFICES ASSUME Shape, Tokens, Owned, [Attended]_vars PROVE Owned'
  OBVIOUS
<1>1. /\ \A u \in Users : user[u].live => user'[u].live
      /\ AsksForLive /\ Shape'
  BY AttendedSteps, LiveStays, ShapeStep DEF Tokens
<1>2. ASSUME NEW d \in Clerks, req'[d].at = "open"
      PROVE  user'[req'[d].user].live
  <2>1. CASE req'[d] = req[d]
    <3>1. req[d].user \in Users
      BY <1>2, <2>1, Stages DEF OpenRequest
    <3> QED
      BY <1>1, <1>2, <2>1, <3>1 DEF Owned
  <2> QED
    BY <1>1, <1>2, <2>1 DEF AsksForLive
<1>3. ASSUME NEW s \in Sessions, session'[s].state = "live",
             session'[s].user = session[s].user, session[s].state = "live"
      PROVE  user'[session'[s].user].live
  <2>1. session[s].user \in Users
    BY <1>3, RowFacts
  <2> QED
    BY <1>1, <1>3, <2>1 DEF Owned
<1>4. ASSUME NEW s \in Sessions, session'[s].state = "live"
      PROVE  user'[session'[s].user].live
  <2>1. CASE session'[s] = session[s]
    BY <1>3, <1>4, <2>1
  <2>2. CASE Ends
    <3>1. PICK gone \in SUBSET Sessions : session' = Ended(gone)
      BY <2>2 DEF Ends
    <3>2. session'[s] = IF s \in gone THEN [session[s] EXCEPT !.state = "deleted"] ELSE session[s]
      BY <3>1 DEF Ended
    <3>3. [session[s] EXCEPT !.state = "deleted"].state # "live"
      BY RowFacts DEF NoSession
    <3> QED
      BY <1>4, <2>1, <3>2, <3>3
  <2>3. CASE Opens
    <3>1. PICK u \in Users :
            /\ OpenSession(u)
            /\ user[u].live \/ \E c \in Clerks : req[c].at = "open" /\ req[c].user = u
      BY <2>3, OpensWhose
    <3>2. user[u].live
      BY <3>1 DEF Owned
    <3>3. /\ session'[Fresh] = [user |-> u, hash |-> 0, state |-> "live"]
          /\ \A t \in Sessions \ {Fresh} : session'[t] = session[t]
      BY <3>1, OpensOnward
    <3> QED
      BY <1>1, <2>1, <3>2, <3>3
  <2>4. CASE \E c \in Clerks : RefreshRotate(c) \/ RefreshReload(c) \/ RefreshAnswer(c)
    <3>1. session' = session \/ \E c \in Clerks : session' = [session EXCEPT ![req[c].session].hash = @ + 1]
      BY <2>4 DEF RefreshRotate, RefreshReload, RefreshAnswer
    <3>2. session[s] = NoSession \/ session[s] \in [user : Users, hash : 0 .. MaxHash, state : {"live", "deleted"}]
      BY RowFacts
    <3>3. session'[s] = session[s] \/ session'[s] = [session[s] EXCEPT !.hash = session[s].hash + 1]
      BY <3>1 DEF Shape
    <3>4. session'[s].user = session[s].user /\ session'[s].state = session[s].state
      BY <3>2, <3>3 DEF NoSession
    <3> QED
      BY <1>3, <1>4, <3>4
  <2>5. CASE \E c \in Clerks, t \in Sessions : Refresh(c, t)
    BY <2>1, <2>5 DEF Refresh
  <2> QED
    BY <2>1, <2>2, <2>3, <2>4, <2>5, AttendedSteps, SessionSteps DEF QuietStep
<1> QED
  BY <1>2, <1>4 DEF Owned

LEMMA InitHeld == Init => Owned /\ Held
BY DEF Init, Owned, Held, NoSession, Idle

(* A session whose refreshes stay, or are only presented, is held as before. *)
LEMMA HeldOn ==
  ASSUME NEW s \in Sessions, HeldBy(s), session'[s] = session[s], holds'[s] = holds[s],
         \A d \in Clerks : req'[d].at = "rotate" /\ req'[d].session = s => req'[d].hash <= holds[s],
         \A d \in Clerks : d \in Pending(s)' <=> d \in Pending(s),
         \A d \in Pending(s) : req'[d].hash = req[d].hash
  PROVE  HeldBy(s)'
<1>1. Pending(s)' = Pending(s)
  BY DEF Pending
<1> QED
  BY <1>1 DEF HeldBy

LEMMA StaysHeld ==
  ASSUME Stays, Keeps, NEW s \in Sessions, HeldBy(s), session'[s] = session[s], holds'[s] = holds[s]
  PROVE  HeldBy(s)'
<1>1. \A d \in Clerks : req[d].at \in Stage \/ req'[d].at \in Stage => req'[d] = req[d]
  BY DEF Stays, Keeps
<1>2. \A d \in Clerks : req'[d].at = "rotate" /\ req'[d].session = s => req'[d].hash <= holds[s]
  BY <1>1 DEF HeldBy, Stage
<1>3. \A d \in Clerks : d \in Pending(s)' <=> d \in Pending(s)
  BY <1>1 DEF Pending, Stage
<1>4. \A d \in Pending(s) : req'[d].hash = req[d].hash
  BY <1>1 DEF Pending, Stage
<1> QED
  BY <1>2, <1>3, <1>4, HeldOn

LEMMA QuietHeld ==
  ASSUME Shape, Held, Stays, QuietStep
  PROVE  Held'
<1>1. SUFFICES ASSUME NEW s \in Sessions, session'[s].state = "live" PROVE HeldBy(s)'
  BY DEF Held
<1>2. session'[s] = session[s]
  <2>1. CASE Ends
    <3>1. PICK gone \in SUBSET Sessions : session' = Ended(gone)
      BY <2>1 DEF Ends
    <3>2. session'[s] = IF s \in gone THEN [session[s] EXCEPT !.state = "deleted"] ELSE session[s]
      BY <3>1 DEF Ended
    <3>3. [session[s] EXCEPT !.state = "deleted"].state # "live"
      BY RowFacts DEF NoSession
    <3> QED
      BY <1>1, <3>2, <3>3
  <2> QED
    BY <2>1 DEF QuietStep
<1>3. Keeps /\ holds' = holds
  BY DEF QuietStep
<1> QED
  BY <1>1, <1>2, <1>3, StaysHeld DEF Held

(* The owner of a new session holds its first token, and nobody refreshes it. *)
LEMMA OpensHeld ==
  ASSUME Shape, Tokens, Held, Stays, Keeps, NEW u \in Users, OpenSession(u)
  PROVE  Held'
<1>1. SUFFICES ASSUME NEW s \in Sessions, session'[s].state = "live" PROVE HeldBy(s)'
  BY DEF Held
<1>2. /\ Fresh \in Sessions /\ session[Fresh] = NoSession
      /\ session'[Fresh] = [user |-> u, hash |-> 0, state |-> "live"] /\ holds'[Fresh] = 0
      /\ \A t \in Sessions \ {Fresh} : session'[t] = session[t] /\ holds'[t] = holds[t]
  BY OpensOnward
<1>3. CASE s # Fresh
  BY <1>1, <1>2, <1>3, StaysHeld DEF Held
<1>4. CASE s = Fresh
  <2>1. \A d \in Clerks : req'[d].at \in Stage => req'[d].session # s
    BY <1>2, <1>4 DEF Keeps, Tokens, Used, Stage, NoSession
  <2>2. Pending(s)' = {}
    BY <2>1 DEF Pending, Stage
  <2>3. \A d \in Clerks : req'[d].at = "rotate" => req'[d].session # s
    BY <2>1 DEF Stage
  <2>4. holds'[s] = 0 /\ session'[s].hash = 0
    BY <1>2, <1>4
  <2> QED
    BY <2>2, <2>3, <2>4 DEF HeldBy
<1> QED
  BY <1>3, <1>4

(* The owner presents what the owner holds. *)
LEMMA RefreshHeld ==
  ASSUME Shape, Held, NEW c \in Clerks, NEW s0 \in Sessions, Refresh(c, s0)
  PROVE  Held'
<1> DEFINE r == [at |-> "rotate", session |-> s0, hash |-> holds[s0], late |-> session[s0].state = "deleted"]
<1>1. SUFFICES ASSUME NEW s \in Sessions, session'[s].state = "live" PROVE HeldBy(s)'
  BY DEF Held
<1>2. Become(c, r) /\ UNCHANGED <<session, holds>> /\ req[c].at = "idle"
  BY DEF Refresh, IsIdle
<1>3. req'[c] = r /\ Others(c)
  BY <1>2, BecomeOthers
<1>4. r.at = "rotate" /\ r.session = s0 /\ r.hash = holds[s0]
  OBVIOUS
<1> HIDE DEF r
<1>5. HeldBy(s)
  BY <1>1, <1>2 DEF Held
<1>6. holds[s] \in 0 .. session[s].hash /\ session[s].hash \in 0 .. MaxHash
  BY <1>5, RowFacts DEF HeldBy
<1>7. \A d \in Clerks : req'[d].at = "rotate" /\ req'[d].session = s => req'[d].hash <= holds[s]
  BY <1>3, <1>4, <1>5, <1>6, AccountsBoundsAssumption DEF HeldBy, Others
<1>8. \A d \in Clerks : d \in Pending(s)' <=> d \in Pending(s)
  BY <1>2, <1>3, <1>4 DEF Pending, Others
<1>9. \A d \in Pending(s) : req'[d].hash = req[d].hash
  BY <1>2, <1>3 DEF Pending, Others
<1> QED
  BY <1>2, <1>5, <1>7, <1>8, <1>9, HeldOn

(* A request that ends without having rotated its session. *)
LEMMA GivesUpHeld ==
  ASSUME Shape, Held, NEW c \in Clerks, Finish(c), UNCHANGED <<session, holds>>,
         \/ req[c].at = "rotate"
         \/ req[c].at = "reload" /\ session[req[c].session].state # "live"
  PROVE  Held'
<1>1. SUFFICES ASSUME NEW s \in Sessions, session'[s].state = "live" PROVE HeldBy(s)'
  BY DEF Held
<1>2. req'[c].at = "idle" /\ Others(c)
  BY BecomeOthers DEF Finish, Idle
<1>3. HeldBy(s)
  BY <1>1 DEF Held
<1>4. \A d \in Clerks : req'[d].at = "rotate" /\ req'[d].session = s => req'[d].hash <= holds[s]
  BY <1>2, <1>3 DEF HeldBy, Others
<1>5. \A d \in Clerks : d \in Pending(s)' <=> d \in Pending(s)
  BY <1>1, <1>2 DEF Pending, Others
<1>6. \A d \in Pending(s) : req'[d].hash = req[d].hash
  BY <1>1, <1>2 DEF Pending, Others
<1> QED
  BY <1>3, <1>4, <1>5, <1>6, HeldOn

(* Who rotates presents the hash the session expects, so nobody else has    *)
(* rotated it and not answered.                                             *)
LEMMA RotateHeld ==
  ASSUME Shape, Tokens, Held, NEW c \in Clerks, RefreshRotate(c)
  PROVE  Held'
<1> DEFINE s0 == req[c].session
           h == req[c].hash
<1>1. req[c] \in RefreshRequest /\ req[c].at = "rotate"
  BY Stages DEF RefreshRotate, At
<1>2. s0 \in Sessions /\ h \in 0 .. MaxHash /\ session[s0].state # "unused"
  BY <1>1 DEF RefreshRequest, Tokens, Used
<1>3. CASE Finish(c) /\ UNCHANGED <<session, holds>>
  BY <1>1, <1>3, GivesUpHeld
<1>4. CASE /\ session[s0].hash = h
           /\ session' = [session EXCEPT ![s0].hash = @ + 1]
           /\ Become(c, [req[c] EXCEPT !.at = "reload", !.hash = session[s0].hash + 1])
           /\ UNCHANGED holds
  <2> DEFINE r == [req[c] EXCEPT !.at = "reload", !.hash = session[s0].hash + 1]
  <2>1. SUFFICES ASSUME NEW s \in Sessions, session'[s].state = "live" PROVE HeldBy(s)'
    BY DEF Held
  <2>2. session[s0] \in [user : Users, hash : 0 .. MaxHash, state : {"live", "deleted"}]
    BY <1>2, RowFacts DEF NoSession
  <2>3. /\ session'[s0].hash = h + 1 /\ session'[s0].state = session[s0].state
        /\ \A t \in Sessions \ {s0} : session'[t] = session[t]
    BY <1>2, <1>4, <2>2 DEF Shape
  <2>4. r.at = "reload" /\ r.session = s0 /\ r.hash = h + 1
    BY <1>1, <1>4 DEF RefreshRequest
  <2>5. req'[c] = r /\ Others(c)
    BY <1>4, BecomeOthers
  <2> HIDE DEF r
  <2>6. HeldBy(s) /\ holds' = holds
    BY <1>4, <2>1, <2>3 DEF Held
  <2>7. CASE s # s0
    <3>1. \A d \in Clerks : req'[d].at = "rotate" /\ req'[d].session = s => req'[d].hash <= holds[s]
      BY <2>4, <2>5, <2>6 DEF HeldBy, Others
    <3>2. \A d \in Clerks : d \in Pending(s)' <=> d \in Pending(s)
      BY <1>1, <2>4, <2>5, <2>7 DEF Pending, Others
    <3>3. \A d \in Pending(s) : req'[d].hash = req[d].hash
      BY <1>1, <2>5 DEF Pending, Others
    <3> QED
      BY <2>3, <2>6, <2>7, <3>1, <3>2, <3>3, HeldOn
  <2>8. CASE s = s0
    <3>1. h <= holds[s] /\ holds[s] \in 0 .. h
      BY <1>1, <1>4, <2>6, <2>8 DEF HeldBy
    <3>2. holds[s] = h
      BY <1>2, <3>1, AccountsBoundsAssumption
    <3>3. Pending(s) = {}
      BY <1>2, <1>4, <2>6, <2>8, <3>2, AccountsBoundsAssumption DEF HeldBy
    <3>4. Pending(s)' = {c}
      BY <2>4, <2>5, <2>8, <3>3 DEF Pending, Others
    <3>5. \A d \in Clerks : req'[d].at = "rotate" /\ req'[d].session = s => req'[d].hash <= holds[s]
      BY <2>4, <2>5, <2>6 DEF HeldBy, Others
    <3> QED
      BY <1>2, <2>3, <2>4, <2>5, <2>6, <2>8, <3>2, <3>4, <3>5, AccountsBoundsAssumption DEF HeldBy
  <2> QED
    BY <2>7, <2>8
<1> QED
  BY <1>3, <1>4 DEF RefreshRotate, Rotates

LEMMA ReloadHeld ==
  ASSUME Shape, Held, NEW c \in Clerks, RefreshReload(c)
  PROVE  Held'
<1>1. req[c] \in RefreshRequest /\ req[c].at = "reload" /\ UNCHANGED <<session, holds>>
  BY Stages DEF RefreshReload, At
<1>2. CASE Finish(c) /\ session[req[c].session].state # "live"
  BY <1>1, <1>2, GivesUpHeld
<1>3. CASE GoOn(c, "owner")
  <2> DEFINE r == [req[c] EXCEPT !.at = "owner"]
  <2>1. Become(c, r)
    BY <1>3 DEF GoOn, Become, Shape
  <2>2. req'[c] = r /\ Others(c)
    BY <2>1, BecomeOthers
  <2>3. r.at = "owner" /\ r.session = req[c].session /\ r.hash = req[c].hash
    BY <1>1 DEF RefreshRequest
  <2> HIDE DEF r
  <2>4. SUFFICES ASSUME NEW s \in Sessions, session'[s].state = "live" PROVE HeldBy(s)'
    BY DEF Held
  <2>5. HeldBy(s)
    BY <1>1, <2>4 DEF Held
  <2>6. \A d \in Clerks : req'[d].at = "rotate" /\ req'[d].session = s => req'[d].hash <= holds[s]
    BY <2>2, <2>3, <2>5 DEF HeldBy, Others
  <2>7. \A d \in Clerks : d \in Pending(s)' <=> d \in Pending(s)
    BY <1>1, <2>2, <2>3 DEF Pending, Others
  <2>8. \A d \in Pending(s) : req'[d].hash = req[d].hash
    BY <2>2, <2>3 DEF Pending, Others
  <2> QED
    BY <1>1, <2>5, <2>6, <2>7, <2>8, HeldOn
<1> QED
  BY <1>2, <1>3 DEF RefreshReload, Reloads

(* The answer brings the owner the hash the session expects. *)
LEMMA AnswerHeld ==
  ASSUME Shape, Tokens, Owned, Held, NEW c \in Clerks, RefreshAnswer(c)
  PROVE  Held'
<1> DEFINE s0 == req[c].session
<1>1. req[c] \in RefreshRequest /\ req[c].at = "owner" /\ session' = session
  BY Stages DEF RefreshAnswer, At
<1>2. s0 \in Sessions
  BY <1>1 DEF RefreshRequest
<1>3. req'[c].at = "idle" /\ Others(c)
  BY BecomeOthers DEF RefreshAnswer, Finish, Idle
<1>4. SUFFICES ASSUME NEW s \in Sessions, session'[s].state = "live" PROVE HeldBy(s)'
  BY DEF Held
<1>5. HeldBy(s) /\ session[s].state = "live"
  BY <1>1, <1>4 DEF Held
<1>6. CASE s # s0
  <2>1. holds'[s] = holds[s]
    BY <1>6 DEF RefreshAnswer, Shape
  <2>2. \A d \in Clerks : req'[d].at = "rotate" /\ req'[d].session = s => req'[d].hash <= holds[s]
    BY <1>3, <1>5 DEF HeldBy, Others
  <2>3. \A d \in Clerks : d \in Pending(s)' <=> d \in Pending(s)
    BY <1>3, <1>6 DEF Pending, Others
  <2>4. \A d \in Pending(s) : req'[d].hash = req[d].hash
    BY <1>3, <1>6 DEF Pending, Others
  <2> QED
    BY <1>1, <1>5, <2>1, <2>2, <2>3, <2>4, HeldOn
<1>7. CASE s = s0
  <2>1. c \in Pending(s)
    BY <1>1, <1>7 DEF Pending
  <2>2. holds'[s] = req[c].hash
    BY <1>2, <1>5, <1>7 DEF RefreshAnswer, Signed, Owned, Shape
  <2>3. req[c].hash = session[s].hash /\ holds[s] < session[s].hash /\ holds[s] \in 0 .. session[s].hash
    BY <1>5, <2>1 DEF HeldBy
  <2>4. Pending(s)' = {}
    BY <1>3, <1>5, <2>1 DEF Pending, HeldBy, Others
  <2>5. session[s].hash \in 0 .. MaxHash
    BY RowFacts
  <2>6. ASSUME NEW d \in Clerks, req'[d].at = "rotate", req'[d].session = s
        PROVE  req'[d].hash <= holds'[s]
    <3>1. req'[d] = req[d]
      BY <1>3, <2>6 DEF Others
    <3>2. req[d].hash <= holds[s] /\ req[d] \in RefreshRequest
      BY <1>5, <2>6, <3>1, Stages DEF HeldBy
    <3>3. req[d].hash \in 0 .. MaxHash
      BY <3>2 DEF RefreshRequest
    <3> QED
      BY <2>2, <2>3, <2>5, <3>1, <3>2, <3>3, AccountsBoundsAssumption
  <2> QED
    BY <1>1, <2>2, <2>3, <2>4, <2>5, <2>6, AccountsBoundsAssumption DEF HeldBy
<1> QED
  BY <1>6, <1>7

OwnerInvariant == Shape /\ Tokens /\ Owned /\ Held

LEMMA OwnerStep == OwnerInvariant /\ [Attended]_vars => OwnerInvariant'
<1> SUFFICES ASSUME Shape, Tokens, Owned, Held, [Attended]_vars PROVE OwnerInvariant'
  BY DEF OwnerInvariant
<1>1. [Anything]_vars /\ Owned' /\ Shape' /\ Tokens'
  BY AttendedSteps, OwnedStep, TokensStep
<1>2. CASE \E c \in Clerks : RefreshRotate(c) \/ RefreshReload(c) \/ RefreshAnswer(c)
  BY <1>2, RotateHeld, ReloadHeld, AnswerHeld, <1>1 DEF OwnerInvariant
<1>3. CASE Stays
  <2>1. Opens => \E u \in Users : OpenSession(u)
    BY OpensWhose
  <2> QED
    BY <1>1, <1>2, <1>3, <2>1, SessionSteps, QuietHeld, OpensHeld, RefreshHeld DEF OwnerInvariant
<1> QED
  BY <1>2, <1>3, AttendedSteps

(* Without a refresh under way the owner holds what the session expects. *)
LEMMA HeldWorks == OwnerInvariant => HeldTokenWorks
<1>1. ASSUME OwnerInvariant, NEW s \in Sessions, session[s].state = "live", \A c \in Clerks : IsIdle(c)
      PROVE  holds[s] = session[s].hash
  <2>1. Pending(s) = {}
    BY <1>1 DEF Pending, IsIdle
  <2> QED
    BY <1>1, <2>1 DEF OwnerInvariant, Held, HeldBy
<1> QED
  BY <1>1 DEF HeldTokenWorks

(* As long as every answer arrives and no account is removed, the owner of  *)
(* a live session holds the token refreshToken expects next, however many   *)
(* requests present it at once and whatever else the server does.           *)
THEOREM OwnersKeepTheirTokens == Init /\ [][Attended]_vars => []HeldTokenWorks
<1>1. Init => OwnerInvariant
  BY InitShape, InitTokens, InitHeld DEF OwnerInvariant
<1> QED
  BY <1>1, OwnerStep, HeldWorks, PTL

(* The sessions' day is such a day. *)
THEOREM OwnersKeepTheirTokensAllDay == DaySpec => []OwnerKeepsToken
<1> DEFINE Inv == day = "sessions" => OwnerInvariant
<1>1. DaySpec => []Inv
  <2>1. DayInit => Inv
    BY InitShape, InitTokens, InitHeld DEF DayInit, OwnerInvariant
  <2>2. Inv /\ [DayNext]_<<vars, day>> => Inv'
    <3>1. SessionNext => Attended
      <4>1. ASSUME NEW c \in Clerks, \E e \in Emails, p \in Passwords : AddUser(c, e, p)
            PROVE  SignUp(c)
        BY <4>1 DEF SignUp
      <4> QED
        BY <4>1 DEF SessionNext, Attended
    <3>2. ASSUME Inv, [DayNext]_<<vars, day>>, day' = "sessions"
          PROVE  OwnerInvariant'
      <4>1. day = "sessions" /\ [Attended]_vars
        BY <3>1, <3>2 DEF DayNext
      <4> QED
        BY <3>2, <4>1, OwnerStep
    <3> QED
      BY <3>2
  <2> QED
    BY <2>1, <2>2, PTL DEF DaySpec
<1>2. Inv => OwnerKeepsToken
  BY HeldWorks DEF OwnerKeepsToken
<1> QED
  BY <1>1, <1>2, PTL

-----------------------------------------------------------------------------
(* Passwords.  No two requests are under way at the same time.              *)
Alone == \A c, d \in Clerks : ~IsIdle(c) /\ ~IsIdle(d) => c = d

(* A request that hands a loaded password back still finds it stored, or    *)
(* its account is gone; any other request for a change carries what was     *)
(* typed, and the one about to save carries a hash.                         *)
Good(q) == q = None \/ q.hashed = 1
Carries(r, accounts) ==
  /\ r.at \in {"insert", "restore", "restored"} => Good(r.password)
  /\ r.at \in {"revoke", "update"} =>
       \/ r.password = None
       \/ r.password.hashed = 0
       \/ r.password.hashed = 1 /\ (accounts[r.user].live => accounts[r.user].password = r.password)
  /\ r.at = "save" => Good(r.password) \/ ~accounts[r.user].live
  /\ r.at = "write" => Good(r.row.password)
Hashed ==
  /\ \A u \in Users : Good(user[u].password)
  /\ \A c \in Clerks : Carries(req[c], user)

LEMMA HashedAs ==
  ASSUME Shape, Alone, Alone', NEW c \in Clerks, NEW r, Become(c, r), ~IsIdle(c) \/ r.at # "idle",
         \A u \in Users : Good(user'[u].password), Carries(r, user')
  PROVE  Hashed'
<1>1. req'[c] = r /\ Others(c)
  BY BecomeOthers
<1>2. \A d \in Clerks \ {c} : req'[d].at = "idle"
  BY <1>1 DEF Others, Alone, IsIdle
<1>3. \A d \in Clerks \ {c} : Carries(req'[d], user')
  BY <1>2 DEF Carries
<1> QED
  BY <1>1, <1>3 DEF Hashed

(* Requests that carry no password. *)
LEMMA CarriesNothing ==
  \A r, accounts : r.at \notin {"insert", "restore", "restored", "revoke", "update", "save", "write"} => Carries(r, accounts)
BY DEF Carries

LEMMA CreateHashed ==
  ASSUME Shape, Alone, Alone', Hashed, NEW c \in Clerks, NEW e, NEW q, NEW status, NEW social, NEW mail,
         Good(q), Create(c, e, q, status, social, mail)
  PROVE  Hashed'
<1> DEFINE r(u) == [at |-> IF u = None THEN "insert" ELSE "restore", user |-> u, email |-> e,
                    password |-> q, status |-> status, social |-> social, mail |-> mail]
<1>1. (\E u : Become(c, r(u))) /\ user' = user
  BY DEF Create
<1>2. \A u : r(u).at \in {"restore", "insert"} /\ r(u).password = q
  OBVIOUS
<1> HIDE DEF r
<1>3. \A u : Carries(r(u), user')
  BY <1>2 DEF Carries
<1> QED
  BY <1>1, <1>2, <1>3, HashedAs DEF Hashed

(* What a request for a change may ask of an account. *)
LEMMA AsksHashed ==
  ASSUME Shape, Alone, Alone', Hashed, NEW c \in Clerks, NEW r, Become(c, r), user' = user,
         r.at \in {"revoke", "update"}, r.user \in Users,
         r.password = None \/ r.password.hashed = 0 \/ r.password = user[r.user].password
  PROVE  Hashed'
<1>1. Good(user[r.user].password)
  BY DEF Hashed
<1>2. Carries(r, user')
  BY <1>1 DEF Carries, Good
<1> QED
  BY <1>2, HashedAs DEF Hashed

LEMMA TypedIsNot ==
  \A p : Typed(p).hashed = 0 /\ Hash(Typed(p)).hashed = 1
BY DEF Typed, Hash

LEMMA LoadedIs ==
  ASSUME Shape, NEW u \in Users
  PROVE  /\ Loaded(u) \in ChangeRequest
         /\ Loaded(u).at = "update" /\ Loaded(u).user = u /\ Loaded(u).password = user[u].password
<1>1. Loaded(u) \in ChangeRequest
  BY Asking
<1> QED
  BY <1>1 DEF Loaded, Change

LEMMA ChangeHashed ==
  ASSUME Shape, Alone, Alone', Hashed, NEW c \in Clerks, ByMail(c) \/ Edit(c)
  PROVE  Hashed'
<1>1. ASSUME NEW u \in Users, ConfirmEmail(c, u)
      PROVE  Hashed'
  <2> DEFINE r == [Loaded(u) EXCEPT !.status = "active"]
  <2>1. r.at = "update" /\ r.user = u /\ r.password = user[u].password
    BY LoadedIs DEF ChangeRequest
  <2>2. Become(c, r) /\ user' = user
    BY <1>1 DEF ConfirmEmail
  <2> HIDE DEF r
  <2> QED
    BY <2>1, <2>2, AsksHashed
<1>2. ASSUME NEW u \in Users, NEW e \in Emails, ConfirmNewEmail(c, u, e)
      PROVE  Hashed'
  <2> DEFINE r == [Loaded(u) EXCEPT !.status = "active", !.email = e]
  <2>1. r.at = "update" /\ r.user = u /\ r.password = user[u].password
    BY LoadedIs DEF ChangeRequest
  <2>2. Become(c, r) /\ user' = user
    BY <1>2 DEF ConfirmNewEmail
  <2> HIDE DEF r
  <2> QED
    BY <2>1, <2>2, AsksHashed
<1>3. ASSUME NEW u \in Users, NEW p \in Passwords, ResetPassword(c, u, p)
      PROVE  Hashed'
  <2> DEFINE r == [Loaded(u) EXCEPT !.at = "revoke", !.password = Typed(p)]
  <2>1. r.at = "revoke" /\ r.user = u /\ r.password = Typed(p)
    BY LoadedIs DEF ChangeRequest
  <2>2. Become(c, r) /\ user' = user
    BY <1>3 DEF ResetPassword
  <2> HIDE DEF r
  <2> QED
    BY <2>1, <2>2, AsksHashed, TypedIsNot
<1>4. ASSUME NEW e, ForgotPassword(c, e)
      PROVE  Hashed'
  BY <1>4 DEF ForgotPassword, Hashed
<1>5. ASSUME NEW u \in Users, NEW q, NEW e, NEW status, q = None \/ q.hashed = 0,
             Become(c, Change(u, e, q, status)), user' = user
      PROVE  Hashed'
  <2> DEFINE r == Change(u, e, q, status)
  <2>1. r.at = "update" /\ r.user = u /\ r.password = q
    BY DEF Change
  <2> HIDE DEF r
  <2> QED
    BY <1>5, <2>1, AsksHashed DEF r
<1>6. ASSUME NEW u \in Users, NEW e, NEW p, NEW status, UpdateUser(c, u, e, p, status)
      PROVE  Hashed'
  <2> DEFINE q == IF p = None THEN None ELSE Typed(p)
  <2>1. q = None \/ q.hashed = 0
    BY TypedIsNot
  <2>2. Become(c, Change(u, e, q, status)) /\ user' = user
    BY <1>6 DEF UpdateUser
  <2> HIDE DEF q
  <2> QED
    BY <1>5, <2>1, <2>2
<1>7. ASSUME NEW s \in Sessions, NEW old, NEW p, NEW e, UpdateMe(c, s, old, p, e)
      PROVE  Hashed'
  <2> DEFINE q == IF p = None THEN None ELSE Typed(p)
  <2>1. q = None \/ q.hashed = 0
    BY TypedIsNot
  <2>2. Become(c, Change(session[s].user, None, q, None)) /\ user' = user /\ session[s].user \in Users
    BY <1>7, RowFacts DEF UpdateMe
  <2> HIDE DEF q
  <2> QED
    BY <1>5, <2>1, <2>2
<1> QED
  BY <1>1, <1>2, <1>3, <1>4, <1>6, <1>7 DEF ByMail, Edit

LEMMA ExternalHashed ==
  ASSUME Shape, Alone, Alone', Hashed, NEW c \in Clerks, External(c)
  PROVE  Hashed'
<1>1. PICK e \in Emails : SocialKnown(c, e) \/ SocialByEmail(c, e) \/ SocialNew(c, e)
  BY DEF External
<1>2. ASSUME NEW u \in Users, NEW r, Become(c, r), user' = user,
             r.at = "update" /\ r.user = u /\ r.password = user[u].password
      PROVE  Hashed'
  BY <1>2, AsksHashed
<1>3. CASE SocialKnown(c, e)
  <2>1. PICK u \in Users : Become(c, [Loaded(u) EXCEPT !.open = TRUE,
                                                       !.email = IF WithEmail(e) = {} THEN e ELSE @])
    BY <1>3 DEF SocialKnown, WithIdentity, Live
  <2> DEFINE r == [Loaded(u) EXCEPT !.open = TRUE, !.email = IF WithEmail(e) = {} THEN e ELSE @]
  <2>2. r.at = "update" /\ r.user = u /\ r.password = user[u].password
    BY LoadedIs DEF ChangeRequest
  <2>3. Become(c, r) /\ user' = user
    BY <1>3, <2>1 DEF SocialKnown
  <2> HIDE DEF r
  <2> QED
    BY <1>2, <2>2, <2>3
<1>4. CASE SocialByEmail(c, e)
  <2>1. PICK u \in Users : \/ Become(c, [Loaded(u) EXCEPT !.open = TRUE, !.social = e])
                           \/ Become(c, Opening(u))
    BY <1>4 DEF SocialByEmail, WithEmail, Live
  <2>2. user' = user
    BY <1>4 DEF SocialByEmail
  <2>3. CASE Become(c, [Loaded(u) EXCEPT !.open = TRUE, !.social = e])
    <3> DEFINE r == [Loaded(u) EXCEPT !.open = TRUE, !.social = e]
    <3>1. r.at = "update" /\ r.user = u /\ r.password = user[u].password
      BY LoadedIs DEF ChangeRequest
    <3>2. Become(c, r)
      BY <2>3
    <3> HIDE DEF r
    <3> QED
      BY <1>2, <2>2, <3>1, <3>2
  <2>4. CASE Become(c, Opening(u))
    <3>1. Opening(u).at = "open"
      BY DEF Opening
    <3>2. Carries(Opening(u), user')
      BY <3>1, CarriesNothing
    <3> QED
      BY <2>2, <2>4, <3>1, <3>2, HashedAs DEF Hashed
  <2> QED
    BY <2>1, <2>3, <2>4
<1>5. CASE SocialNew(c, e)
  BY <1>5, CreateHashed DEF SocialNew, Good
<1> QED
  BY <1>1, <1>3, <1>4, <1>5

(* The statements that store an account: what they write is a hash. *)
LEMMA StoresHashed ==
  ASSUME Shape, Alone, Alone', Hashed, NEW c \in Clerks, InsertUser(c) \/ RestoreUser(c) \/ WriteRow(c)
  PROVE  Hashed'
<1>1. ~IsIdle(c)
  BY DEF InsertUser, RestoreUser, WriteRow, At, IsIdle
<1>2. ASSUME NEW r, Become(c, r), r.at \in {"idle", "open"}, \A u \in Users : Good(user'[u].password)
      PROVE  Hashed'
  BY <1>1, <1>2, HashedAs, CarriesNothing
<1>3. Idle.at = "idle" /\ \A u : Opening(u).at = "open"
  BY DEF Idle, Opening
<1>4. ASSUME user' = user, Finish(c)
      PROVE  Hashed'
  BY <1>2, <1>3, <1>4 DEF Finish, Hashed
<1>5. ASSUME NEW u \in Users, NEW row, Good(row.password), user' = [user EXCEPT ![u] = row],
             Become(c, Opening(u)) \/ Finish(c)
      PROVE  Hashed'
  <2>1. \A v \in Users : Good(user'[v].password)
    BY <1>5 DEF Hashed, Shape
  <2> QED
    BY <1>2, <1>3, <1>5, <2>1 DEF Finish
<1>6. CASE InsertUser(c)
  <2> DEFINE u == CHOOSE v \in Unborn : TRUE
  <2>1. u \in Users
    BY <1>6, ChosenRows DEF Unborn
  <2>2. \/ user' = user /\ Finish(c)
        \/ user' = [user EXCEPT ![u] = Account(c, u)] /\ (Become(c, Opening(u)) \/ Finish(c))
    BY <1>6 DEF InsertUser, Leave
  <2>3. Good(req[c].password)
    BY <1>6 DEF InsertUser, At, Hashed, Carries
  <2> HIDE DEF u
  <2>4. Good(Account(c, u).password)
    BY <2>1, <2>3 DEF Account, Given, Hashed
  <2> QED
    BY <1>4, <1>5, <2>1, <2>2, <2>4
<1>7. CASE WriteRow(c)
  <2>1. req[c].user \in Users /\ Good(req[c].row.password)
    BY <1>7, Stages DEF WriteRow, At, WriteRequest, Hashed, Carries
  <2>2. \/ user' = user /\ Finish(c)
        \/ /\ user' = [user EXCEPT ![req[c].user] = req[c].row]
           /\ Become(c, Opening(req[c].user)) \/ Finish(c)
    BY <1>7 DEF WriteRow, Leave
  <2> QED
    BY <1>4, <1>5, <2>1, <2>2
<1>8. CASE RestoreUser(c)
  <2> DEFINE u == req[c].user
             r == [req[c] EXCEPT !.at = "restored"]
  <2>0. u \in Users /\ user[u].born
    BY <1>8, Stages DEF RestoreUser, At, RestoreRequest, Shape
  <2>1. \/ user' = user /\ Finish(c)
        \/ user' = [user EXCEPT ![u].live = TRUE] /\ Become(c, r)
    BY <1>8 DEF RestoreUser, GoOn, Become, Shape
  <2>2. req[c] \in RestoreRequest /\ Good(req[c].password)
    BY <1>8, Stages DEF RestoreUser, At, Hashed, Carries
  <2>3. r.at = "restored" /\ r.password = req[c].password
    BY <2>2 DEF RestoreRequest
  <2> HIDE DEF u, r
  <2>4. \A v \in Users : Good(user'[v].password)
    <3>1. ASSUME NEW v \in Users
          PROVE  user'[v].password = user[v].password
      <4>1. user[u] \in RowRecord
        BY <2>0, Columns
      <4>2. [user[u] EXCEPT !.live = TRUE].password = user[u].password
        BY <4>1 DEF RowRecord
      <4> QED
        BY <2>1, <4>2 DEF Shape
    <3> QED
      BY <3>1 DEF Hashed
  <2>5. Carries(r, user')
    BY <2>2, <2>3 DEF Carries
  <2> QED
    BY <1>1, <1>4, <2>1, <2>3, <2>4, <2>5, HashedAs
<1> QED
  BY <1>6, <1>7, <1>8

(* What was typed is hashed once; what was loaded is found stored, and left *)
(* as it is, unless its account is gone.                                    *)
LEMMA PrepareHashed ==
  ASSUME Shape, Alone, Alone', Hashed, NEW c \in Clerks, PrepareUpdate(c)
  PROVE  Hashed'
<1> DEFINE q == req[c].password
           u == req[c].user
           r == [req[c] EXCEPT !.at = "save", !.password = Stored(u, q)]
<1>1. req[c] \in ChangeRequest /\ req[c].at = "update" /\ ~IsIdle(c) /\ u \in Users
  BY Stages DEF PrepareUpdate, At, IsIdle, ChangeRequest
<1>2. user' = user /\ (Finish(c) \/ Become(c, r))
  BY <1>1 DEF PrepareUpdate, ChangeRequest
<1>3. r.at = "save" /\ r.user = u /\ r.password = Stored(u, q)
  BY <1>1 DEF ChangeRequest
<1>4. q \in Secret \cup {None} /\ Good(user[u].password)
  BY <1>1 DEF ChangeRequest, Hashed
<1>5. q = None \/ q.hashed = 0 \/ (q.hashed = 1 /\ (user[u].live => user[u].password = q))
  BY <1>1 DEF Hashed, Carries
<1> HIDE DEF q, u, r
<1>6. q \in Secret => Hash(q).hashed = q.hashed + 1
  BY DEF Hash, Secret
<1>7. Good(Stored(u, q)) \/ ~user[u].live
  <2>1. CASE q = None
    BY <2>1 DEF Stored, Good
  <2>2. CASE q # None /\ q.hashed = 0
    <3>1. q # user[u].password
      BY <1>4, <2>2 DEF Good
    <3>2. Stored(u, q) = Hash(q)
      BY <2>2, <3>1 DEF Stored
    <3> QED
      BY <1>4, <1>6, <2>2, <3>2 DEF Good
  <2>3. CASE q # None /\ q.hashed = 1 /\ user[u].live
    BY <1>5, <2>3 DEF Stored, Good
  <2> QED
    BY <1>5, <2>1, <2>2, <2>3
<1>8. Carries(r, user')
  BY <1>2, <1>3, <1>7 DEF Carries
<1>9. Carries(Idle, user')
  BY CarriesNothing DEF Idle
<1> QED
  BY <1>1, <1>2, <1>8, <1>9, HashedAs DEF Hashed, Finish

LEMMA LoadHashed ==
  ASSUME Shape, Alone, Alone', Hashed, NEW c \in Clerks, LoadRow(c)
  PROVE  Hashed'
<1> DEFINE r == req[c]
<1>1. ~IsIdle(c) /\ user' = user /\ (At(c, "save") \/ At(c, "restored"))
  BY DEF LoadRow, At, IsIdle
<1>2. CASE Finish(c)
  <2>1. Carries(Idle, user')
    BY CarriesNothing DEF Idle
  <2> QED
    BY <1>1, <1>2, <2>1, HashedAs DEF Finish, Hashed
<1>3. ASSUME NEW row, NEW mail, NEW open, Good(row.password), Become(c, Writing(r.user, row, mail, open))
      PROVE  Hashed'
  <2>1. Writing(r.user, row, mail, open).at = "write" /\ Writing(r.user, row, mail, open).row = row
    BY DEF Writing
  <2>2. Carries(Writing(r.user, row, mail, open), user')
    BY <1>3, <2>1 DEF Carries
  <2> QED
    BY <1>1, <1>3, <2>1, <2>2, HashedAs DEF Hashed
<1>4. CASE At(c, "save") /\ user[r.user].live /\ Become(c, Writing(r.user, Merged(r), FALSE, r.open))
  <2>1. r \in ChangeRequest /\ Good(r.password)
    BY <1>4, Stages DEF At, Hashed, Carries
  <2>2. r.user \in Users /\ user[r.user] \in LiveRecord /\ Good(user[r.user].password)
    BY <1>4, <2>1, RowShape DEF ChangeRequest, Hashed
  <2>3. Merged(r).password = Given(r.password, user[r.user].password)
    BY <2>2 DEF Merged, LiveRecord
  <2>4. Good(Merged(r).password)
    BY <2>1, <2>2, <2>3 DEF Given
  <2> QED
    BY <1>3, <1>4, <2>4
<1>5. CASE At(c, "restored") /\ Become(c, Writing(r.user, Account(c, r.user), r.mail, r.social # None))
  <2>1. r \in RestoreRequest /\ Good(r.password)
    BY <1>5, Stages DEF At, Hashed, Carries
  <2>2. r.user \in Users /\ Good(user[r.user].password)
    BY <2>1 DEF RestoreRequest, Hashed
  <2>3. Good(Account(c, r.user).password)
    BY <2>1, <2>2 DEF Account, Given
  <2> QED
    BY <1>3, <1>5, <2>3
<1> QED
  BY <1>2, <1>4, <1>5 DEF LoadRow, At

(* Handlers that carry no password, and the revocation before a reset. *)
LEMMA OtherServerHashed ==
  ASSUME Shape, Alone, Alone', Hashed, NEW c \in Clerks,
         ResetRevoke(c) \/ SocialSession(c) \/ RefreshRotate(c) \/ RefreshReload(c) \/ RefreshAnswer(c)
  PROVE  Hashed'
<1>1. user' = user /\ ~IsIdle(c)
  BY DEF ResetRevoke, SocialSession, OpenSession, RefreshRotate, RefreshReload, RefreshAnswer, At, IsIdle
<1>2. ASSUME NEW r, Become(c, r), Carries(r, user)
      PROVE  Hashed'
  BY <1>1, <1>2, HashedAs DEF Hashed
<1>3. Finish(c) => Hashed'
  BY <1>2, CarriesNothing DEF Finish, Idle
<1>4. CASE ResetRevoke(c)
  <2> DEFINE r == [req[c] EXCEPT !.at = "update"]
  <2>1. req[c] \in ChangeRequest /\ req[c].at = "revoke" /\ Carries(req[c], user)
    BY <1>4, Stages DEF ResetRevoke, At, Hashed
  <2>2. Become(c, r)
    BY <1>4 DEF ResetRevoke, GoOn, Become, Shape
  <2>3. r.at = "update" /\ r.user = req[c].user /\ r.password = req[c].password
    BY <2>1 DEF ChangeRequest
  <2> HIDE DEF r
  <2>4. Carries(r, user)
    BY <2>1, <2>3 DEF Carries
  <2> QED
    BY <1>2, <2>2, <2>4
<1>5. CASE SocialSession(c)
  BY <1>3, <1>5 DEF SocialSession
<1>6. CASE RefreshRotate(c) \/ RefreshReload(c) \/ RefreshAnswer(c)
  <2>1. req[c] \in RefreshRequest
    BY <1>6, Stages DEF RefreshRotate, RefreshReload, RefreshAnswer, At
  <2>2. /\ \A h : [req[c] EXCEPT !.at = "reload", !.hash = h].at = "reload"
        /\ [req[c] EXCEPT !.at = "owner"].at = "owner"
    BY <2>1 DEF RefreshRequest
  <2>3. \/ \E h : Become(c, [req[c] EXCEPT !.at = "reload", !.hash = h])
        \/ Become(c, [req[c] EXCEPT !.at = "owner"])
        \/ Finish(c)
    BY <1>6 DEF RefreshRotate, RefreshReload, RefreshAnswer, GoOn, Become, Shape
  <2> QED
    BY <1>2, <1>3, <2>2, <2>3, CarriesNothing
<1> QED
  BY <1>4, <1>5, <1>6

(* An account removed takes nothing back. *)
LEMMA RemoveHashed ==
  ASSUME Shape, Hashed, NEW u \in Users, RemoveUser(u)
  PROVE  Hashed'
<1>1. \A v \in Users : /\ user'[v].password = user[v].password
                       /\ user'[v].live => user[v].live
  BY DEF RemoveUser, Shape, UserRecord, RowRecord, NoUser
<1>2. ASSUME NEW c \in Clerks
      PROVE  Carries(req[c], user')
  <2>1. req[c].at \in {"revoke", "update", "save"} => req[c].user \in Users
    BY Stages DEF ChangeRequest
  <2> QED
    BY <1>1, <2>1 DEF Hashed, Carries
<1>3. req' = req
  BY DEF RemoveUser
<1> QED
  BY <1>1, <1>2, <1>3 DEF Hashed

LEMMA HashedStep ==
  ASSUME Shape, Alone, Alone', Hashed, [Next]_vars
  PROVE  Hashed'
<1>1. ASSUME UNCHANGED <<user, req>>
      PROVE  Hashed'
  BY <1>1 DEF Hashed
<1>2. CASE UNCHANGED vars
  BY <1>1, <1>2 DEF vars
<1>3. CASE Open
  BY <1>1, <1>3 DEF Open, Login, LoginAs, OpenSession
<1>4. CASE Remove
  BY <1>4, RemoveHashed DEF Remove
<1>5. ASSUME NEW c \in Clerks, SignUp(c)
      PROVE  Hashed'
  <2>1. \A p : Good(Hash(Typed(p)))
    BY TypedIsNot DEF Good
  <2> QED
    BY <1>5, <2>1, CreateHashed DEF SignUp, Register, AddUser
<1>6. ASSUME NEW c \in Clerks, Use(c)
      PROVE  Hashed'
  <2>1. ASSUME NEW s \in Sessions, Refresh(c, s)
        PROVE  Hashed'
    <3> DEFINE r == [at |-> "rotate", session |-> s, hash |-> holds[s], late |-> session[s].state = "deleted"]
    <3>1. Become(c, r) /\ user' = user
      BY <2>1 DEF Refresh
    <3>2. r.at = "rotate"
      OBVIOUS
    <3> HIDE DEF r
    <3> QED
      BY <3>1, <3>2, HashedAs, CarriesNothing DEF Hashed
  <2> QED
    BY <1>1, <1>6, <2>1 DEF Use, Logout
<1> QED
  BY <1>2, <1>3, <1>4, <1>5, <1>6, ChangeHashed, ExternalHashed, StoresHashed, PrepareHashed, LoadHashed,
     OtherServerHashed DEF Next, Server

(* As long as requests do not overlap, the stored password is the hash of   *)
(* what someone typed, through every sign-up, edit, reset, confirmation and *)
(* external login of any number of accounts: the handlers that pass a       *)
(* loaded account back to users.service never have it hashed again.         *)
THEOREM PasswordsStayOpen == Init /\ [][Next]_vars /\ []Alone => []PasswordOpens
<1> DEFINE Inv == Shape /\ Tokens /\ Hashed
<1>1. Init => Inv
  <2>1. Init => Hashed
    BY DEF Init, Hashed, Good, NoUser, Carries, Idle
  <2> QED
    BY <2>1, InitShape, InitTokens
<1>2. Inv /\ Alone /\ Alone' /\ [Next]_vars => Inv'
  <2>1. [Next]_vars => [Anything]_vars
    BY EveryDay
  <2> QED
    BY <2>1, TokensStep, HashedStep
<1>3. Inv => PasswordOpens
  BY DEF Hashed, Good, PasswordOpens, Live
<1> QED
  BY <1>1, <1>2, <1>3, PTL

LEMMA AtMostOneOf ==
  ASSUME NEW S, IsFiniteSet(S), NEW B \in SUBSET S, Cardinality(B) <= 1
  PROVE  \A c, d \in B : c = d
<1>1. SUFFICES ASSUME NEW c \in B, NEW d \in B, c # d PROVE FALSE
  OBVIOUS
<1>2. IsFiniteSet(B)
  BY FS_Subset
<1>3. Cardinality({c}) = 1 /\ IsFiniteSet({c})
  BY FS_Singleton
<1>4. {c} \cup {d} \in SUBSET B /\ d \notin {c}
  BY <1>1
<1>5. Cardinality({c} \cup {d}) = Cardinality({c}) + 1
  BY <1>3, <1>4, FS_AddElement
<1>6. Cardinality({c} \cup {d}) <= Cardinality(B)
  BY <1>2, <1>4, FS_Subset
<1>7. Cardinality(B) \in Nat
  BY <1>2, FS_CardinalityType
<1> QED
  BY <1>3, <1>5, <1>6, <1>7

(* The day without overlap is such a day. *)
THEOREM PasswordsStayOpenAllDay ==
  ASSUME IsFiniteSet(Clerks)
  PROVE  DaySpec => []PasswordAlwaysOpens
<1> DEFINE Inv == Shape /\ Tokens /\ Hashed /\ Alone
           DayInv == day = "no overlap" => Inv
<1>1. DayInit => DayInv
  <2>1. Init => Hashed /\ Alone
    BY DEF Init, Hashed, Good, NoUser, Carries, Idle, Alone, IsIdle
  <2> QED
    BY <2>1, InitShape, InitTokens DEF DayInit
<1>2. DayInv /\ [DayNext]_<<vars, day>> => DayInv'
  <2>1. SUFFICES ASSUME DayInv, [DayNext]_<<vars, day>>, day' = "no overlap"
                 PROVE  Inv'
    OBVIOUS
  <2>2. Inv
    BY <2>1 DEF DayNext
  <2>3. CASE UNCHANGED <<vars, day>>
    <3>1. [Anything]_vars /\ [Next]_vars /\ (Alone => Alone')
      BY <2>3 DEF vars, Alone, IsIdle
    <3> QED
      BY <2>2, <3>1, TokensStep, HashedStep
  <2>4. CASE DayNext
    <3>1. Next /\ (Cardinality(Busy) <= 1)'
      BY <2>1, <2>4 DEF DayNext
    <3>2. Alone'
      <4>1. Cardinality(Busy') <= 1 /\ Busy' \in SUBSET Clerks
        BY <3>1 DEF Busy
      <4>2. \A c, d \in Busy' : c = d
        BY <4>1, AtMostOneOf
      <4> QED
        BY <4>2 DEF Alone, Busy
    <3>3. Shape' /\ Tokens'
      BY <2>2, <3>1, EveryDay, TokensStep
    <3> QED
      BY <2>2, <3>1, <3>2, <3>3, HashedStep
  <2> QED
    BY <2>1, <2>3, <2>4
<1>3. DayInv => PasswordAlwaysOpens
  BY DEF Hashed, Good, PasswordOpens, PasswordAlwaysOpens, Live
<1> QED
  BY <1>1, <1>2, <1>3, PTL DEF DaySpec
=============================================================================
