------------------------------ MODULE Accounts ------------------------------
(***************************************************************************)
(* Accounts and sessions (src/auth/auth.service, src/users/users.service,   *)
(* src/session): sign-up and confirmation by mail, password changes, login  *)
(* and rotation of the refresh token.                                       *)
(*                                                                          *)
(* No handler runs in a transaction, so requests interleave between their   *)
(* statements.  Several handlers hand the whole account they loaded to      *)
(* UsersService.update, which writes every column of it.                    *)
(***************************************************************************)
EXTENDS Naturals, FiniteSets

CONSTANTS
  Users,       \* rows of the user table
  Emails,      \* addresses; the user name is looked up and kept unique alike
  Passwords,   \* what people type
  None,        \* a column that is NULL, a field of a request left out
  Sessions,    \* rows of the session table
  Clerks,      \* requests the server runs at the same time
  MaxHash,     \* bound on the rotations of a session
  MaxLinks     \* bound on the mails with a link

ASSUME AccountsAssumption == None \notin Emails /\ None \notin Passwords
ASSUME AccountsBoundsAssumption == {MaxHash, MaxLinks} \subseteq Nat

VARIABLES
  user,      \* the account table
  session,   \* the session table
  links,     \* the links that have been mailed
  handed,    \* how often each refresh token has been exchanged for another
  holds,     \* the refresh token each session's owner holds
  req        \* what each request has loaded and does next

vars == <<user, session, links, handed, holds, req>>

Typed(p) == [word |-> p, hashed |-> 0]
Hash(secret) == [secret EXCEPT !.hashed = @ + 1]

NoUser == [email |-> None, password |-> None, status |-> "inactive", social |-> None,
           live |-> FALSE, born |-> FALSE]
NoSession == [user |-> None, hash |-> 0, state |-> "unused"]

Live == {u \in Users : user[u].live}
WithEmail(e) == {u \in Live : user[u].email = e}
WithIdentity(e) == {u \in Live : user[u].social = e}
Removed(e) == {u \in Users : user[u].born /\ ~user[u].live /\ user[u].email = e}
Unborn == {u \in Users : ~user[u].born}
TakenByActive(u, e) ==   \* mutant: an account not yet confirmed holds no address
  e # None /\ {v \in WithEmail(e) \ {u} : user[v].status = "active"} # {}
Taken(u, e) == e # None /\ WithEmail(e) \ {u} # {}

Idle == [at |-> "idle"]
IsIdle(c) == req[c].at = "idle"
At(c, at) == req[c].at = at
Become(c, r) == req' = [req EXCEPT ![c] = r]
GoOn(c, at) == req' = [req EXCEPT ![c].at = at]
Finish(c) == Become(c, Idle)

Init ==
  /\ user = [u \in Users |-> NoUser]
  /\ session = [s \in Sessions |-> NoSession]
  /\ links = {}
  /\ handed = [s \in Sessions |-> [h \in 0 .. MaxHash |-> 0]]
  /\ holds = [s \in Sessions |-> None]
  /\ req = [c \in Clerks |-> Idle]

-----------------------------------------------------------------------------
(* UsersService.create: the address must be free; an account that was       *)
(* removed under it is looked up, to be brought back and updated, otherwise *)
(* one is inserted.                                                         *)
Create(c, e, password, status, social, mail) ==
  /\ IsIdle(c) /\ WithEmail(e) = {}
  /\ \E u \in Removed(e) \cup {None} :
       /\ u = None => Removed(e) = {}
       /\ Become(c, [at |-> IF u = None THEN "insert" ELSE "restore", user |-> u, email |-> e,
                     password |-> password, status |-> status, social |-> social, mail |-> mail])
  /\ UNCHANGED <<user, session, links, handed, holds>>

Given(new, old) == IF new = None THEN old ELSE new

(* A password left out is kept from the restored row; the provider becomes  *)
(* the one of the request, so an earlier external identity does not count.  *)
Account(c, u) ==
  [email |-> req[c].email, status |-> req[c].status, live |-> TRUE, born |-> TRUE,
   password |-> Given(req[c].password, user[u].password), social |-> req[c].social]
Welcome(c, u) ==
  links' = IF req[c].mail THEN links \cup {[kind |-> "confirm", user |-> u]} ELSE links

(* A new account is mailed its link or, of an external login, gets a session. *)
Opening(u) == [at |-> "open", user |-> u]
Leave(c, u, open) == IF open THEN Become(c, Opening(u)) ELSE Finish(c)

(* The unique index on live accounts refuses a second one. *)
InsertUser(c) ==
  LET u == CHOOSE v \in Unborn : TRUE IN
  /\ At(c, "insert") /\ Unborn # {}
  /\ IF WithEmail(req[c].email) = {}
     THEN user' = [user EXCEPT ![u] = Account(c, u)] /\ Welcome(c, u) /\ Leave(c, u, req[c].social # None)
     ELSE UNCHANGED <<user, links>> /\ Finish(c)
  /\ UNCHANGED <<session, handed, holds>>

(* restore writes by id whatever has become of the row, and the index looks *)
(* at the address the row has by then.                                      *)
RestoreUser(c) ==
  LET u == req[c].user IN
  /\ At(c, "restore")
  /\ IF user[u].live \/ ~Taken(u, user[u].email)
     THEN user' = [user EXCEPT ![u].live = TRUE] /\ GoOn(c, "restored")
     ELSE UNCHANGED user /\ Finish(c)
  /\ UNCHANGED <<session, links, handed, holds>>

(* register and an administrator's UsersController.create *)
Register(c, e, p) == Create(c, e, Hash(Typed(p)), "inactive", None, TRUE)
AddUser(c, e, p) == Create(c, e, Hash(Typed(p)), "active", None, FALSE)

-----------------------------------------------------------------------------
(* UsersService.update(u, new): a password other than the stored one is     *)
(* hashed, the address must be free; then the columns given are saved.  A   *)
(* handler that passes a loaded account gives all of them.                  *)
AlwaysHash(u, password) ==   \* mutant: what was loaded is hashed again
  IF password = None THEN None ELSE Hash(password)
Stored(u, password) ==
  IF password = None \/ (user[u].live /\ user[u].password = password) THEN password ELSE Hash(password)

PrepareUpdate(c) ==
  LET r == req[c] IN
  /\ At(c, "update")
  /\ IF Taken(r.user, r.email) THEN Finish(c)
     ELSE Become(c, [r EXCEPT !.at = "save", !.password = Stored(r.user, @)])
  /\ UNCHANGED <<user, session, links, handed, holds>>

(* UserRepository.update loads the live row, merges what was given into it, *)
(* and writes the whole of it in another statement: over what was changed   *)
(* meanwhile, a removal included, unless the index refuses the address.     *)
Merged(r) ==
  [user[r.user] EXCEPT !.email = Given(r.email, @), !.password = Given(r.password, @),
                       !.status = Given(r.status, @), !.social = Given(r.social, @)]
Writing(u, row, mail, open) == [at |-> "write", user |-> u, row |-> row, mail |-> mail, open |-> open]

LoadRow(c) ==
  LET r == req[c] IN
  /\ r.at \in {"restored", "save"}
  /\ IF ~user[r.user].live THEN Finish(c)
     ELSE Become(c, IF r.at = "save" THEN Writing(r.user, Merged(r), FALSE, r.open)
                    ELSE Writing(r.user, Account(c, r.user), r.mail, r.social # None))
  /\ UNCHANGED <<user, session, links, handed, holds>>

WriteRow(c) ==
  LET r == req[c] IN
  /\ At(c, "write")
  /\ IF ~Taken(r.user, r.row.email)
     THEN user' = [user EXCEPT ![r.user] = r.row] /\ Welcome(c, r.user) /\ Leave(c, r.user, r.open)
     ELSE UNCHANGED <<user, links>> /\ Finish(c)
  /\ UNCHANGED <<session, handed, holds>>

(* What a handler asks UsersService.update for. *)
Change(u, e, password, status) ==
  [at |-> "update", user |-> u, email |-> e, password |-> password, status |-> status,
   social |-> None, open |-> FALSE]
Loaded(u) == [Change(u, user[u].email, user[u].password, user[u].status) EXCEPT !.social = user[u].social]

UpdateUser(c, u, e, p, status) ==   \* an administrator's
  /\ IsIdle(c) /\ u \in Live
  /\ Become(c, Change(u, e, IF p = None THEN None ELSE Typed(p), status))
  /\ UNCHANGED <<user, session, links, handed, holds>>

ConfirmEmail(c, u) ==
  /\ IsIdle(c) /\ [kind |-> "confirm", user |-> u] \in links
  /\ user[u].live /\ user[u].status = "inactive"
  /\ Become(c, [Loaded(u) EXCEPT !.status = "active"])
  /\ UNCHANGED <<user, session, links, handed, holds>>

ConfirmNewEmail(c, u, e) ==
  /\ IsIdle(c) /\ [kind |-> "change", user |-> u, email |-> e] \in links
  /\ user[u].live
  /\ Become(c, [Loaded(u) EXCEPT !.status = "active", !.email = e])
  /\ UNCHANGED <<user, session, links, handed, holds>>

(* The link is signed with the password it is about to replace. *)
ForgotPassword(c, e) ==
  /\ IsIdle(c) /\ Cardinality(links) < MaxLinks
  /\ \E u \in WithEmail(e) :
       links' = links \cup {[kind |-> "reset", user |-> u, secret |-> user[u].password]}
  /\ UNCHANGED <<user, session, handed, holds, req>>

ResetPassword(c, u, p) ==
  /\ IsIdle(c) /\ user[u].live
  /\ [kind |-> "reset", user |-> u, secret |-> user[u].password] \in links
  /\ Become(c, [Loaded(u) EXCEPT !.at = "revoke", !.password = Typed(p)])
  /\ UNCHANGED <<user, session, links, handed, holds>>

Ended(gone) == [s \in Sessions |-> IF s \in gone THEN [session[s] EXCEPT !.state = "deleted"] ELSE session[s]]
SessionsOf(u) == {s \in Sessions : session[s].state = "live" /\ session[s].user = u}

ResetRevoke(c) ==
  /\ At(c, "revoke")
  /\ session' = Ended(SessionsOf(req[c].user))
  /\ GoOn(c, "update")
  /\ UNCHANGED <<user, links, handed, holds>>

(* AuthService.update of one's own account: a new password ends the other   *)
(* sessions; a new address is mailed a link and changes only through it.    *)
UpdateMe(c, s, old, p, e) ==
  LET u == session[s].user IN
  /\ IsIdle(c) /\ session[s].state # "unused" /\ user[u].live
  /\ p # None => user[u].password = Hash(Typed(old))
  /\ session' = IF p = None THEN session ELSE Ended(SessionsOf(u) \ {s})
  /\ ~Taken(u, e)
  /\ LET mail == [kind |-> "change", user |-> u, email |-> e] IN
     links' = IF e \in {None, user[u].email} THEN links ELSE links \cup {mail}
  /\ Cardinality(links') <= MaxLinks
  /\ Become(c, Change(u, None, IF p = None THEN None ELSE Typed(p), None))
  /\ UNCHANGED <<user, handed, holds>>

RemoveUser(u) ==
  /\ user[u].live
  /\ user' = [user EXCEPT ![u].live = FALSE]
  /\ UNCHANGED <<session, links, handed, holds, req>>

-----------------------------------------------------------------------------
(* A session is created with a fresh hash, and its owner holds a token      *)
(* signed with it.                                                          *)
OpenSession(u) ==
  LET s == CHOOSE t \in Sessions : session[t].state = "unused" IN
  /\ \E t \in Sessions : session[t].state = "unused"
  /\ session' = [session EXCEPT ![s] = [user |-> u, hash |-> 0, state |-> "live"]]
  /\ holds' = [holds EXCEPT ![s] = 0]
  /\ UNCHANGED <<user, links, handed>>

Login(u, p) ==
  /\ user[u].live /\ user[u].social = None
  /\ user[u].password = Hash(Typed(p))
  /\ OpenSession(u) /\ UNCHANGED req
LoginAs(u) == user[u].live /\ user[u].status = "active" /\ OpenSession(u) /\ UNCHANGED req

(* An external login: the account of that identity is saved as loaded, with *)
(* the address if no one has it; else the account of that address is used,  *)
(* and given the identity while it is inactive; else one is created.        *)
SocialKnown(c, e) ==
  /\ IsIdle(c)
  /\ \E u \in WithIdentity(e) :
       Become(c, [Loaded(u) EXCEPT !.open = TRUE, !.email = IF WithEmail(e) = {} THEN e ELSE @])
  /\ UNCHANGED <<user, session, links, handed, holds>>

SocialByEmail(c, e) ==
  /\ IsIdle(c) /\ WithIdentity(e) = {}
  /\ \E u \in WithEmail(e) :
       Become(c, IF user[u].status = "inactive" THEN [Loaded(u) EXCEPT !.open = TRUE, !.social = e]
                 ELSE Opening(u))
  /\ UNCHANGED <<user, session, links, handed, holds>>

SocialNew(c, e) == WithIdentity(e) = {} /\ Create(c, e, None, "active", e, FALSE)

SocialSession(c) == At(c, "open") /\ OpenSession(req[c].user) /\ Finish(c)

(* refreshToken: exchange the hash where the presented one still stands,    *)
(* look the session up, look its owner up, sign the answer.                 *)
Refresh(c, s) ==
  /\ IsIdle(c) /\ holds[s] # None
  /\ Become(c, [at |-> "rotate", session |-> s, hash |-> holds[s], late |-> session[s].state = "deleted"])
  /\ UNCHANGED <<user, session, links, handed, holds>>

RotatesById(c) == session[req[c].session].state # "unused"   \* mutant: whatever the hash is
Rotates(c) == session[req[c].session].hash = req[c].hash

RefreshRotate(c) ==
  LET s == req[c].session IN
  /\ At(c, "rotate") /\ session[s].hash < MaxHash
  /\ IF Rotates(c)
     THEN /\ session' = [session EXCEPT ![s].hash = @ + 1]
          /\ Become(c, [req[c] EXCEPT !.at = "reload", !.hash = session[s].hash + 1])
          /\ handed' = [handed EXCEPT ![s][req[c].hash] = @ + 1]
     ELSE UNCHANGED <<session, handed>> /\ Finish(c)
  /\ UNCHANGED <<user, links, holds>>

(* UPDATE also matches a deleted session; the look-up after it does not. *)
ReloadsAny(s) == session[s].state # "unused"   \* mutant: the update's count is believed
Reloads(s) == session[s].state = "live"

RefreshReload(c) ==
  /\ At(c, "reload")
  /\ IF Reloads(req[c].session) THEN GoOn(c, "owner") ELSE Finish(c)
  /\ UNCHANGED <<user, session, links, handed, holds>>

SignedStale(c) == req[c].hash - 1   \* mutant: signed with the presented hash
Signed(c) == req[c].hash

RefreshAnswer(c) ==
  LET s == req[c].session IN
  /\ At(c, "owner")
  /\ holds' = IF user[session[s].user].live THEN [holds EXCEPT ![s] = Signed(c)] ELSE holds
  /\ Finish(c)
  /\ UNCHANGED <<user, session, links, handed>>

Logout(s) ==
  /\ session[s].state = "live"
  /\ session' = Ended({s})
  /\ UNCHANGED <<user, links, handed, holds, req>>

(* The server restarts, or the answer is lost on its way. *)
Restart(c) ==
  /\ ~IsIdle(c)
  /\ Finish(c)
  /\ UNCHANGED <<user, session, links, handed, holds>>

-----------------------------------------------------------------------------
SignUp(c) == \E e \in Emails, p \in Passwords : Register(c, e, p) \/ AddUser(c, e, p)
ByMail(c) ==
  \/ \E u \in Users : ConfirmEmail(c, u) \/ (\E e \in Emails : ConfirmNewEmail(c, u, e))
  \/ \E e \in Emails : ForgotPassword(c, e)
  \/ \E u \in Users, p \in Passwords : ResetPassword(c, u, p)
Edit(c) ==
  \E e \in Emails \cup {None}, p \in Passwords \cup {None} :
    \/ \E u \in Users, status \in {"active", "inactive", None} : UpdateUser(c, u, e, p, status)
    \/ \E s \in Sessions, old \in Passwords : UpdateMe(c, s, old, p, e)
Open == \E u \in Users : LoginAs(u) \/ \E p \in Passwords : Login(u, p)
Use(c) == \E s \in Sessions : Refresh(c, s) \/ Logout(s)
Remove == \E u \in Users : RemoveUser(u)
External(c) == \E e \in Emails : SocialKnown(c, e) \/ SocialByEmail(c, e) \/ SocialNew(c, e)

Server(c) ==
  \/ InsertUser(c) \/ RestoreUser(c)
  \/ PrepareUpdate(c) \/ LoadRow(c) \/ WriteRow(c) \/ ResetRevoke(c) \/ SocialSession(c)
  \/ RefreshRotate(c) \/ RefreshReload(c) \/ RefreshAnswer(c)

Next ==
  \/ \E c \in Clerks : SignUp(c) \/ ByMail(c) \/ Edit(c) \/ Use(c) \/ External(c) \/ Server(c)
  \/ Open \/ Remove
Fairness == \A c \in Clerks : WF_vars(Server(c))
Spec == Init /\ [][Next]_vars /\ Fairness

(* Sessions only, of accounts an administrator has added. *)
SessionNext == Open \/ \E c \in Clerks : (\E e \in Emails, p \in Passwords : AddUser(c, e, p)) \/ Use(c) \/ Server(c)

FaultNext == SessionNext \/ \E c \in Clerks : Restart(c)
FaultSpec == Init /\ [][FaultNext]_vars /\ Fairness

(* Accounts whose requests give the columns they change and no others. *)
ColumnsNext == Remove \/ Open \/ \E c \in Clerks : SignUp(c) \/ Edit(c) \/ Server(c)

-----------------------------------------------------------------------------
(* Properties. *)

(* Rows and requests have the columns the code gives them. *)
AccountsTypeOK ==
  /\ \A u \in Users :
       /\ user[u].email \in Emails \cup {None}
       /\ \/ user[u].password = None
          \/ user[u].password.word \in Passwords /\ user[u].password.hashed \in Nat
       /\ user[u].social \in Emails \cup {None}
       /\ user[u].status \in {"active", "inactive"}
       /\ {user[u].live, user[u].born} \subseteq BOOLEAN /\ (user[u].live => user[u].born)
  /\ session \in [Sessions -> [user : Users \cup {None}, hash : 0 .. MaxHash,
                               state : {"unused", "live", "deleted"}]]
  /\ holds \in [Sessions -> (0 .. MaxHash) \cup {None}]
  /\ Cardinality(links) <= MaxLinks + Cardinality(Users)

(* Two live accounts never answer to the same address, however the checks   *)
(* of sign-ups, restorations and edits interleave with their writes.        *)
EmailIsUnique == \A u, v \in Live : user[u].email = user[v].email => u = v

(* The stored password is the hash of what someone typed: never the word    *)
(* itself, and never the hash of a hash, which no one could log in with.    *)
PasswordOpens == \A u \in Live : user[u].password # None => user[u].password.hashed = 1

(* However many requests present a refresh token at the same time, at most  *)
(* one of them rotates it.                                                  *)
OneExchange == \A s \in Sessions : \A h \in 0 .. MaxHash : handed[s][h] <= 1

(* A refresh that begins after its session was deleted gets no answer,      *)
(* although the rotating UPDATE still finds the row.                        *)
DeletedIsDeaf == \A c \in Clerks : At(c, "owner") => ~req[c].late

(* auth.md: "users who return at least once every 30 days never have to log *)
(* in again": between requests the owner of a live session holds the token  *)
(* that the session expects.                                                *)
HeldTokenWorks ==
  \A s \in Sessions :
    (session[s].state = "live" /\ \A c \in Clerks : IsIdle(c)) => holds[s] = session[s].hash
=============================================================================
