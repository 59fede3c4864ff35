------------------------------- MODULE Accounts -------------------------------
(***************************************************************************)
(* The accounts of a local strategy: LocalService                          *)
(* (auth/local/local.service.ts) with UserService (user/user.service.ts).  *)
(*                                                                         *)
(* An account is a User row and one JSON value, UserAuthData.data, with    *)
(* the password, the verification and two one-time codes.  Every operation *)
(* finds the user by its email, reads the value, changes its copy and      *)
(* writes the whole of it back; requests overlap between their calls.      *)
(***************************************************************************)
EXTENDS Integers, FiniteSets

CONSTANTS
  Users,        \* ids of User rows, given out by sign-ups
  Emails, NoEmail,
  Passwords, NoPassword,
  Requests,     \* requests under way together
  Nobody,       \* the user of an idle request
  MaxCodes,     \* bound: codes sent
  MaxEvents     \* bound: requests cut off, users deleted, and changes by the staff, together

ASSUME AccountsAssumption ==
  /\ Nobody \notin Users /\ NoEmail \notin Emails /\ NoPassword \notin Passwords
  /\ MaxCodes \in Nat /\ MaxEvents \in Nat

VARIABLES
  user,     \* User rows
  auth,     \* UserAuthData rows
  mail,     \* external: the codes sent, and where to
  expired,  \* the codes older than VERIFY_CODE_VALIDITY_LENGTH
  req,      \* the requests: operation, next call, parameters and local variables
  spent,    \* how often the environment has used each bound
  told,     \* history: what the last operation to succeed made of each account
  used,     \* history: operations that succeeded with each code
  mishaps   \* history: the unusual events of each account

vars == <<user, auth, mail, expired, req, spent, told, used, mishaps>>

-----------------------------------------------------------------------------
Codes == 1 .. MaxCodes
NoCode == 0

(* NoEmail stands for a row not created.  delete wraps the email, so that   *)
(* no search finds it, and does so each time it is called; mangled counts   *)
(* the wrappings.                                                           *)
UserRow == [email : Emails \cup {NoEmail}, mangled : Nat]

(* AuthLocalUserDataDto; exists says whether there is a row *)
Data == [exists : BOOLEAN, password : Passwords \cup {NoPassword}, verified : BOOLEAN,
         verifyCode : Codes \cup {NoCode}, resetCode : Codes \cup {NoCode}]

NoData == [exists |-> FALSE, password |-> NoPassword, verified |-> FALSE,
           verifyCode |-> NoCode, resetCode |-> NoCode]

Op == {"signup", "changeUnverifiedEmail", "verify", "resetVerify", "resetPassword", "setPassword",
       "updateUser"}

Request == [op : Op, place : {"idle", "create", "createData", "read", "write", "mail"},
            user : Users \cup {Nobody}, email : Emails \cup {NoEmail},
            code : Codes \cup {NoCode}, password : Passwords \cup {NoPassword}, data : Data]

Idle == [op |-> "signup", place |-> "idle", user |-> Nobody, email |-> NoEmail,
         code |-> NoCode, password |-> NoPassword, data |-> NoData]

TypeOK ==
  /\ user \in [Users -> UserRow] /\ auth \in [Users -> Data]
  /\ mail \in SUBSET [to : Emails, code : Codes] /\ expired \in SUBSET Codes
  /\ req \in [Requests -> Request]
  /\ \A r \in Requests : req[r].place \in {"read", "write", "createData"} =>
       req[r].user \in Users /\ user[req[r].user].email # NoEmail
  /\ \A r \in Requests : req[r].place = "write" /\ req[r].op # "updateUser" => req[r].data.exists
  /\ spent \in [{"code", "event"} -> Nat]
  /\ told \in [Users -> [password : Passwords \cup {NoPassword}, verified : BOOLEAN]]
  /\ used \in [Codes -> Nat] /\ mishaps \in [Users -> SUBSET {"stale", "moved", "lost", "bare"}]

Init ==
  /\ user = [u \in Users |-> [email |-> NoEmail, mangled |-> 0]]
  /\ auth = [u \in Users |-> NoData]
  /\ mail = {} /\ expired = {}
  /\ req = [r \in Requests |-> Idle]
  /\ spent = [e \in {"code", "event"} |-> 0]
  /\ told = [u \in Users |-> [password |-> NoPassword, verified |-> FALSE]]
  /\ used = [c \in Codes |-> 0] /\ mishaps = [u \in Users |-> {}]

-----------------------------------------------------------------------------
Spend(event, bound) ==
  /\ spent[event] < bound
  /\ spent' = [spent EXCEPT ![event] = @ + 1]

Goto(r, place) == req' = [req EXCEPT ![r].place = place]
Return(r) == req' = [req EXCEPT ![r] = Idle]

(* findByEmailWithGroupAndSettings: the emails of users are unique *)
Found(e) == {u \in Users : user[u].email = e /\ user[u].mangled = 0}

(* generate6DigitCode: a code that was not sent before *)
NewCode == spent["code"] + 1

-----------------------------------------------------------------------------
(* A request begins by finding its user.  One that finds none, or for       *)
(* signup and changeUnverifiedEmail one that has the new email, throws and  *)
(* changes nothing.                                                         *)
Ask(r, op, u, e, c, p) ==
  /\ req[r].place = "idle"
  /\ req' = [req EXCEPT ![r] = [Idle EXCEPT !.op = op, !.user = u, !.email = e, !.code = c,
                                !.password = p, !.place = IF op = "signup" THEN "create" ELSE "read"]]
  /\ UNCHANGED <<user, auth, mail, expired, told, used, mishaps>>

AskSignup(r) ==
  \E e \in Emails, p \in Passwords :
    Found(e) = {} /\ Ask(r, "signup", Nobody, e, NoCode, p) /\ UNCHANGED spent

(* The email becomes the new one only in what is passed to                 *)
(* userService.update, which does not write dto.email; the code goes there *)
AskChangeEmail(r) ==
  \E old, new \in Emails, u \in Users :
    /\ Found(new) = {} /\ u \in Found(old)
    /\ Ask(r, "changeUnverifiedEmail", u, new, NoCode, NoPassword)
    /\ UNCHANGED spent

AskForCode(r) ==
  \E e \in Emails, u \in Users, op \in {"resetVerify", "resetPassword"} :
    u \in Found(e) /\ Ask(r, op, u, e, NoCode, NoPassword) /\ UNCHANGED spent

(* Whoever has received a code enters it, with the email of some account *)
AskWithCode(r) ==
  \E e \in Emails, u \in Users, m \in mail :
    /\ u \in Found(e)
    /\ \/ Ask(r, "verify", u, e, m.code, NoPassword)
       \/ \E p \in Passwords : Ask(r, "setPassword", u, e, m.code, p)
    /\ UNCHANGED spent

(* updateUser, for the staff: dto.newPassword, or dto.verify *)
AskUpdate(r) ==
  \E u \in Users, p \in Passwords \cup {NoPassword} :
    /\ user[u].email # NoEmail
    /\ Spend("event", MaxEvents)
    /\ Ask(r, "updateUser", u, user[u].email, NoCode, p)

-----------------------------------------------------------------------------
(* signup: userService.create, which throws if the email has been taken *)
Create(r) ==
  /\ req[r].place = "create"
  /\ IF \E u \in Users : user[u].email = req[r].email /\ user[u].mangled = 0
       THEN Return(r) /\ UNCHANGED user
       ELSE \E u \in Users :
              /\ user[u].email = NoEmail
              /\ user' = [user EXCEPT ![u].email = req[r].email]
              /\ req' = [req EXCEPT ![r] = [@ EXCEPT !.user = u, !.place = "createData"]]
  /\ UNCHANGED <<auth, mail, expired, spent, told, used, mishaps>>

(* signup: userAuthData.create, which throws if the staff were faster *)
CreateData(r) ==
  LET u == req[r].user IN
  /\ req[r].place = "createData"
  /\ IF auth[u].exists
       THEN Return(r) /\ UNCHANGED <<auth, spent, told>>
       ELSE /\ Spend("code", MaxCodes)
            /\ auth' = [auth EXCEPT ![u] = [NoData EXCEPT !.exists = TRUE, !.password = req[r].password,
                                                          !.verifyCode = NewCode]]
            /\ told' = [told EXCEPT ![u].password = req[r].password]
            /\ req' = [req EXCEPT ![r] = [@ EXCEPT !.code = NewCode, !.place = "mail"]]
  /\ UNCHANGED <<user, mail, expired, used, mishaps>>

(* crmService.sendVerifyCode, sendResetCode *)
Mail(r) ==
  /\ req[r].place = "mail"
  /\ mail' = mail \cup {[to |-> req[r].email, code |-> req[r].code]}
  /\ Return(r)
  /\ UNCHANGED <<user, auth, expired, spent, told, used, mishaps>>

-----------------------------------------------------------------------------
(***************************************************************************)
(* Seeded bugs, here and below under the names Definition_Bug.  Each is a  *)
(* plausible slip in the definition it is named for; README.md says which  *)
(* property tells it from the code.                                        *)
(***************************************************************************)
Allows_Missing(op, d, c) ==
  CASE op \in {"changeUnverifiedEmail", "resetVerify"} -> ~d.verified
    [] op = "resetPassword" -> TRUE
    [] op = "verify" -> d.exists /\ d.verifyCode = c /\ c \notin expired
    [] op = "setPassword" -> d.exists /\ d.resetCode = c /\ c \notin expired
    [] OTHER -> TRUE

(* What an operation asks of the value it has read *)
Allows(op, d, c) ==
  CASE op \in {"changeUnverifiedEmail", "resetVerify"} -> d.exists /\ ~d.verified
    [] op = "resetPassword" -> d.exists
    [] op = "verify" -> d.exists /\ d.verifyCode = c /\ c \notin expired
    [] op = "setPassword" -> d.exists /\ d.resetCode = c /\ c \notin expired
    [] OTHER -> TRUE

Read(r) ==
  LET d == auth[req[r].user] IN
  /\ req[r].place = "read"
  /\ IF Allows(req[r].op, d, req[r].code)
       THEN req' = [req EXCEPT ![r] = [@ EXCEPT !.data = d, !.place = "write"]]
       ELSE Return(r)
  /\ UNCHANGED <<user, auth, mail, expired, spent, told, used, mishaps>>

Codeless == {"verify", "setPassword", "updateUser"}

Changed_Afresh(q) ==
  CASE q.op \in {"changeUnverifiedEmail", "resetVerify"} -> [q.data EXCEPT !.verifyCode = NewCode]
    [] q.op = "resetPassword" -> [NoData EXCEPT !.exists = TRUE, !.resetCode = NewCode]
    [] q.op = "verify" -> [q.data EXCEPT !.verified = TRUE, !.verifyCode = NoCode]
    [] q.op = "setPassword" ->
         [q.data EXCEPT !.password = q.password, !.verified = TRUE, !.verifyCode = NoCode,
                        !.resetCode = NoCode]
    [] OTHER ->
         IF q.password # NoPassword THEN [q.data EXCEPT !.exists = TRUE, !.password = q.password]
         ELSE [q.data EXCEPT !.exists = TRUE, !.verified = TRUE, !.verifyCode = NoCode]

Changed_KeepsCode(q) ==
  CASE q.op \in {"changeUnverifiedEmail", "resetVerify"} -> [q.data EXCEPT !.verifyCode = NewCode]
    [] q.op = "resetPassword" -> [q.data EXCEPT !.resetCode = NewCode]
    [] q.op = "verify" -> [q.data EXCEPT !.verified = TRUE, !.verifyCode = NoCode]
    [] q.op = "setPassword" ->
         [q.data EXCEPT !.password = q.password, !.verified = TRUE, !.verifyCode = NoCode]
    [] OTHER ->
         IF q.password # NoPassword THEN [q.data EXCEPT !.exists = TRUE, !.password = q.password]
         ELSE [q.data EXCEPT !.exists = TRUE, !.verified = TRUE, !.verifyCode = NoCode]

(* The value an operation writes back *)
Changed(q) ==
  CASE q.op \in {"changeUnverifiedEmail", "resetVerify"} -> [q.data EXCEPT !.verifyCode = NewCode]
    [] q.op = "resetPassword" -> [q.data EXCEPT !.resetCode = NewCode]
    [] q.op = "verify" -> [q.data EXCEPT !.verified = TRUE, !.verifyCode = NoCode]
    [] q.op = "setPassword" ->
         [q.data EXCEPT !.password = q.password, !.verified = TRUE, !.verifyCode = NoCode,
                        !.resetCode = NoCode]
    [] OTHER ->
         IF q.password # NoPassword THEN [q.data EXCEPT !.exists = TRUE, !.password = q.password]
         ELSE [q.data EXCEPT !.exists = TRUE, !.verified = TRUE, !.verifyCode = NoCode]

(* userAuthData.update or upsert, without a condition *)
Write(r) ==
  LET q == req[r]
      u == q.user IN
  /\ q.place = "write"
  /\ auth' = [auth EXCEPT ![u] = Changed(q)]
  /\ IF q.op \in Codeless
       THEN Return(r) /\ UNCHANGED spent
       ELSE /\ Spend("code", MaxCodes)
            /\ req' = [req EXCEPT ![r] = [@ EXCEPT !.code = NewCode, !.place = "mail"]]
  /\ told' = [told EXCEPT ![u] =
       [password |-> IF q.password # NoPassword THEN q.password ELSE @.password,
        verified |-> @.verified \/ q.op \in {"verify", "setPassword"}
                                \/ (q.op = "updateUser" /\ q.password = NoPassword)]]
  /\ used' = IF q.op \in {"verify", "setPassword"} THEN [used EXCEPT ![q.code] = @ + 1] ELSE used
  /\ mishaps' = [mishaps EXCEPT ![u] = @ \cup (IF auth[u] # q.data THEN {"stale"} ELSE {})
                     \cup (IF q.op = "changeUnverifiedEmail" THEN {"moved"} ELSE {})]
  /\ UNCHANGED <<user, mail, expired>>

-----------------------------------------------------------------------------
(* delete: the email of a deleted user is free for another sign-up *)
Delete(u) ==
  /\ user[u].email # NoEmail
  /\ Spend("event", MaxEvents)
  /\ user' = [user EXCEPT ![u].mangled = @ + 1]
  /\ UNCHANGED <<auth, mail, expired, req, told, used, mishaps>>

ReactivateUser_Anyway(u) ==
  /\ user[u].mangled > 0
  /\ user' = [user EXCEPT ![u].mangled = @ - 1]
  /\ UNCHANGED <<auth, mail, expired, req, spent, told, used, mishaps>>

(* reactivate unwraps the email once, and throws if it has been taken *)
ReactivateUser(u) ==
  /\ user[u].mangled > 0
  /\ user[u].mangled = 1 => Found(user[u].email) = {}
  /\ user' = [user EXCEPT ![u].mangled = @ - 1]
  /\ UNCHANGED <<auth, mail, expired, req, spent, told, used, mishaps>>

(* UserResolver.createUser, for the staff: a user without credentials, to   *)
(* be given some by updateUser                                              *)
CreateUser(u, e) ==
  /\ user[u].email = NoEmail /\ Found(e) = {}
  /\ Spend("event", MaxEvents)
  /\ user' = [user EXCEPT ![u].email = e]
  /\ mishaps' = [mishaps EXCEPT ![u] = @ \cup {"bare"}]
  /\ UNCHANGED <<auth, mail, expired, req, told, used>>

Expire(c) ==
  /\ c \notin expired /\ \E m \in mail : m.code = c
  /\ expired' = expired \cup {c}
  /\ UNCHANGED <<user, auth, mail, req, spent, told, used, mishaps>>

(* A request throws, or dies with the server *)
Stop(r) ==
  /\ req[r].place # "idle"
  /\ Spend("event", MaxEvents)
  /\ mishaps' = IF req[r].place = "createData"
                  THEN [mishaps EXCEPT ![req[r].user] = @ \cup {"lost"}] ELSE mishaps
  /\ Return(r)
  /\ UNCHANGED <<user, auth, mail, expired, told, used>>

-----------------------------------------------------------------------------
Next ==
  \/ \E r \in Requests :
       \/ AskSignup(r) \/ AskChangeEmail(r) \/ AskForCode(r) \/ AskWithCode(r) \/ AskUpdate(r)
       \/ Create(r) \/ CreateData(r) \/ Read(r) \/ Write(r) \/ Mail(r) \/ Stop(r)
  \/ \E u \in Users : Delete(u) \/ ReactivateUser(u) \/ \E e \in Emails : CreateUser(u, e)
  \/ \E c \in Codes : Expire(c)

Spec == Init /\ [][Next]_vars

-----------------------------------------------------------------------------
(* What an operation has made of an account stays: the password the user    *)
(* was told is set, and the verification, survive every later code and      *)
(* every request under way.  Only a request that wrote back a value that    *)
(* had changed since it was read may lose them.                             *)
KeepsPromise ==
  \A u \in Users : auth[u].exists /\ "stale" \notin mishaps[u] =>
    auth[u].password = told[u].password /\ auth[u].verified = told[u].verified

(* A code works once, unless two requests with it overlap, and it works     *)
(* with the address it was sent to: the one of the account that waits for   *)
(* it.  Only changeUnverifiedEmail breaks the latter: it sends the code to  *)
(* the new address and leaves the account with the old one.                 *)
CodesWork ==
  /\ (\A u \in Users : "stale" \notin mishaps[u]) => \A c \in Codes : used[c] <= 1
  /\ \A u \in Users, m \in mail :
       m.code \in {auth[u].verifyCode, auth[u].resetCode} /\ "moved" \notin mishaps[u] =>
         user[u].email = m.to

(* An address whose user has no credentials, which can neither sign up nor  *)
(* reset a password, comes about only by a sign-up that was cut off after   *)
(* its first row or by the staff; and an address has one account, whatever  *)
(* is deleted and reactivated meanwhile.                                    *)
AddressIsUsable ==
  /\ \A u \in Users : user[u].email # NoEmail /\ ~auth[u].exists =>
       \/ mishaps[u] \cap {"lost", "bare"} # {}
       \/ \E r \in Requests : req[r].place = "createData" /\ req[r].user = u
  /\ \A e \in Emails : Cardinality(Found(e)) <= 1
=============================================================================
