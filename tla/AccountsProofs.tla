---------------------------- MODULE AccountsProofs ----------------------------
(***************************************************************************)
(* Theorems about Accounts, for any users, addresses, passwords, requests  *)
(* and codes, and any bounds on the environment.                           *)
(***************************************************************************)
EXTENDS Accounts, TLAPS, FiniteSetTheorems

Slots(d) == {d.verifyCode, d.resetCode}

(* User u's row, or a copy of it that is to be written back, has code c *)
HasCode(u, c) ==
  \/ c \in Slots(auth[u])
  \/ \E r \in Requests : /\ req[r].place = "write" /\ req[r].user = u
                         /\ c \in Slots(req[r].data)

(* Code c was sent, or is about to be sent, to address e *)
Letter(e, c) ==
  \/ [to |-> e, code |-> c] \in mail
  \/ \E r \in Requests : req[r].place = "mail" /\ req[r].email = e /\ req[r].code = c

-----------------------------------------------------------------------------
(***************************************************************************)
(* The inductive invariant.  RequestsFit is what a request's place and     *)
(* operation say of its parameters and local variables; Unwritten, what a  *)
(* row is before it is created; Issued, that a new code is new everywhere. *)
(***************************************************************************)
Fits(q) ==
  /\ q.place # "idle" => q.email \in Emails
  /\ q.place \in {"create", "createData"} => q.op = "signup"
  /\ q.place = "createData" => user[q.user].email = q.email
  /\ q.place = "mail" => q.code \in Codes
  /\ q.place \in {"read", "write"} =>
       /\ q.op # "signup"
       /\ q.op \in {"resetVerify", "resetPassword"} => user[q.user].email = q.email
       /\ q.op = "setPassword" => q.password # NoPassword
       /\ q.op \notin {"setPassword", "updateUser"} => q.password = NoPassword
       /\ q.op \in {"verify", "setPassword"} => q.code \in Codes
  /\ q.place = "write" /\ q.op = "verify" => q.data.verifyCode = q.code
  /\ q.place = "write" /\ q.op = "setPassword" => q.data.resetCode = q.code

RequestsFit == \A r \in Requests : Fits(req[r])

Unwritten ==
  \A u \in Users : /\ ~auth[u].exists => auth[u] = NoData
                   /\ user[u].email = NoEmail => ~auth[u].exists

Issued ==
  \A c \in Codes : c > spent["code"] =>
    /\ used[c] = 0
    /\ \A u \in Users : ~HasCode(u, c)
    /\ \A e \in Emails : ~Letter(e, c)

(* Whoever has a code can only have been sent it at their address *)
Addressed ==
  \A u \in Users, e \in Emails, c \in Codes :
    Letter(e, c) /\ HasCode(u, c) /\ "moved" \notin mishaps[u] => user[u].email = e

(* What a user was told holds, before the row of their data exists too *)
Told ==
  \A u \in Users : "stale" \notin mishaps[u] =>
    auth[u].password = told[u].password /\ auth[u].verified = told[u].verified

NoneStale == \A u \in Users : "stale" \notin mishaps[u]

(* A code that was used is gone, and one that was not is in one place *)
OneUse(c) ==
  /\ used[c] \in {0, 1}
  /\ used[c] = 1 => \A u \in Users : c \notin Slots(auth[u])
  /\ \A u, v \in Users :
       /\ auth[u].verifyCode = c /\ auth[v].verifyCode = c => u = v
       /\ auth[u].resetCode = c /\ auth[v].resetCode = c => u = v
       /\ ~(auth[u].verifyCode = c /\ auth[v].resetCode = c)

UsedOnce == NoneStale => \A c \in Codes : OneUse(c)

HasData ==
  \A u \in Users : user[u].email # NoEmail /\ ~auth[u].exists =>
    \/ mishaps[u] \cap {"lost", "bare"} # {}
    \/ \E r \in Requests : req[r].place = "createData" /\ req[r].user = u

OneAccount ==
  \A e \in Emails : \A u, v \in Users : u \in Found(e) /\ v \in Found(e) => u = v

Safe ==
  /\ TypeOK /\ RequestsFit /\ Unwritten /\ Issued /\ Addressed /\ Told /\ UsedOnce
  /\ HasData /\ OneAccount

-----------------------------------------------------------------------------
(* What the steps of a request do to its row of req *)
Others(r) == \A q \in Requests \ {r} : req'[q] = req[q]

LEMMA Records == NoData \in Data /\ Idle \in Request
BY AccountsAssumption DEF NoData, Data, Idle, Request, Op, Codes, NoCode

LEMMA AskEffect ==
  ASSUME TypeOK, NEW r \in Requests, NEW op \in Op, NEW u \in Users \cup {Nobody}, NEW e \in Emails,
         NEW c \in Codes \cup {NoCode}, NEW p \in Passwords \cup {NoPassword}, Ask(r, op, u, e, c, p)
  PROVE  /\ req' \in [Requests -> Request] /\ Others(r)
         /\ req'[r].op = op /\ req'[r].user = u /\ req'[r].email = e /\ req'[r].code = c
         /\ req'[r].password = p
         /\ req'[r].place = IF op = "signup" THEN "create" ELSE "read"
<1> DEFINE place == IF op = "signup" THEN "create" ELSE "read"
           q == [Idle EXCEPT !.op = op, !.user = u, !.email = e, !.code = c, !.password = p,
                             !.place = place]
<1>1. place \in {"create", "read"}
  OBVIOUS
<1>2. req' = [req EXCEPT ![r] = q]
  BY DEF Ask
<1> HIDE DEF place
<1>3. /\ q \in Request
      /\ q.op = op /\ q.user = u /\ q.email = e /\ q.code = c /\ q.password = p /\ q.place = place
  BY <1>1, Records DEF Request
<1> HIDE DEF q
<1>4. req' \in [Requests -> Request] /\ Others(r) /\ req'[r] = q
  BY <1>2, <1>3 DEF TypeOK, Others
<1>5. QED
  BY <1>3, <1>4 DEF place

LEMMA ReturnEffect ==
  ASSUME TypeOK, NEW r \in Requests, Return(r)
  PROVE  req' \in [Requests -> Request] /\ Others(r) /\ req'[r] = Idle /\ req'[r].place = "idle"
BY Records DEF TypeOK, Return, Others, Idle

LEMMA CreateEffect ==
  ASSUME TypeOK, NEW r \in Requests, NEW u \in Users,
         req' = [req EXCEPT ![r] = [@ EXCEPT !.user = u, !.place = "createData"]]
  PROVE  /\ req' \in [Requests -> Request] /\ Others(r)
         /\ req'[r].place = "createData" /\ req'[r].user = u
         /\ req'[r].op = req[r].op /\ req'[r].email = req[r].email
<1> DEFINE q == [req[r] EXCEPT !.user = u, !.place = "createData"]
<1>1. req[r] \in Request
  BY DEF TypeOK
<1>2. /\ q \in Request /\ q.place = "createData" /\ q.user = u
      /\ q.op = req[r].op /\ q.email = req[r].email
  BY <1>1 DEF Request
<1>3. req' = [req EXCEPT ![r] = q]
  OBVIOUS
<1> HIDE DEF q
<1>4. QED
  BY <1>2, <1>3 DEF TypeOK, Others

LEMMA MailEffect ==
  ASSUME TypeOK, NEW r \in Requests, NEW c \in Codes, 
         req' = [req EXCEPT ![r] = [@ EXCEPT !.code = c, !.place = "mail"]]
  PROVE  /\ req' \in [Requests -> Request] /\ Others(r)
         /\ req'[r].place = "mail" /\ req'[r].code = c /\ req'[r].email = req[r].email
<1> DEFINE q == [req[r] EXCEPT !.code = c, !.place = "mail"]
<1>1. req[r] \in Request
  BY DEF TypeOK
<1>2. /\ q \in Request /\ q.place = "mail" /\ q.code = c
      /\ q.email = req[r].email
  BY <1>1 DEF Request
<1>3. req' = [req EXCEPT ![r] = q]
  OBVIOUS
<1> HIDE DEF q
<1>4. QED
  BY <1>2, <1>3 DEF TypeOK, Others

LEMMA ReadEffect ==
  ASSUME TypeOK, NEW r \in Requests, NEW d \in Data,
         req' = [req EXCEPT ![r] = [@ EXCEPT !.data = d, !.place = "write"]]
  PROVE  /\ req' \in [Requests -> Request] /\ Others(r)
         /\ req'[r].place = "write" /\ req'[r].data = d /\ req'[r].op = req[r].op
         /\ req'[r].user = req[r].user /\ req'[r].email = req[r].email
         /\ req'[r].code = req[r].code /\ req'[r].password = req[r].password
<1> DEFINE q == [req[r] EXCEPT !.data = d, !.place = "write"]
<1>1. req[r] \in Request
  BY DEF TypeOK
<1>2. /\ q \in Request /\ q.place = "write" /\ q.data = d
      /\ q.op = req[r].op /\ q.user = req[r].user /\ q.email = req[r].email /\ q.code = req[r].code /\ q.password = req[r].password
  BY <1>1 DEF Request
<1>3. req' = [req EXCEPT ![r] = q]
  OBVIOUS
<1> HIDE DEF q
<1>4. QED
  BY <1>2, <1>3 DEF TypeOK, Others

(* The value an operation writes back, by column *)
LEMMA ChangedEffect ==
  ASSUME NEW q \in Request, q.op # "signup", q.op # "updateUser" => q.data.exists,
         q.op \in Codeless \/ NewCode \in Codes
  PROVE  /\ Changed(q) \in Data /\ Changed(q).exists
         /\ Changed(q).password =
              IF q.op = "setPassword" \/ (q.op = "updateUser" /\ q.password # NoPassword)
                THEN q.password ELSE q.data.password
         /\ Changed(q).verified =
              IF q.op \in {"verify", "setPassword"} \/ (q.op = "updateUser" /\ q.password = NoPassword)
                THEN TRUE ELSE q.data.verified
         /\ Changed(q).verifyCode =
              IF q.op \in {"changeUnverifiedEmail", "resetVerify"} THEN NewCode
              ELSE IF q.op \in {"verify", "setPassword"} \/ (q.op = "updateUser" /\ q.password = NoPassword)
                THEN NoCode ELSE q.data.verifyCode
         /\ Changed(q).resetCode =
              IF q.op = "resetPassword" THEN NewCode
              ELSE IF q.op = "setPassword" THEN NoCode ELSE q.data.resetCode
<1> DEFINE d == q.data
<1>1. d \in Data /\ q.op \in Op /\ q.password \in Passwords \cup {NoPassword}
  BY DEF Request
<1>2. NoCode \in Codes \cup {NoCode}
  OBVIOUS
<1>3. CASE q.op \in {"changeUnverifiedEmail", "resetVerify"}
  <2>1. Changed(q) = [d EXCEPT !.verifyCode = NewCode]
    BY <1>3 DEF Changed
  <2> HIDE DEF d
  <2>2. QED
    BY <1>1, <1>3, <2>1 DEF Data, Codeless, d
<1>4. CASE q.op = "resetPassword"
  <2>1. Changed(q) = [d EXCEPT !.resetCode = NewCode]
    BY <1>4 DEF Changed
  <2>2. QED
    BY <1>1, <1>4, <2>1 DEF Data, Codeless
<1>5. CASE q.op = "verify"
  <2>1. Changed(q) = [d EXCEPT !.verified = TRUE, !.verifyCode = NoCode]
    BY <1>5 DEF Changed
  <2>2. QED
    BY <1>1, <1>5, <2>1 DEF Data
<1>6. CASE q.op = "setPassword"
  <2>1. Changed(q) = [d EXCEPT !.password = q.password, !.verified = TRUE, !.verifyCode = NoCode,
                              !.resetCode = NoCode]
    BY <1>6 DEF Changed
  <2>2. QED
    BY <1>1, <1>6, <2>1 DEF Data
<1>7. CASE q.op = "updateUser" /\ q.password # NoPassword
  <2>1. Changed(q) = [d EXCEPT !.exists = TRUE, !.password = q.password]
    BY <1>7 DEF Changed
  <2>2. QED
    BY <1>1, <1>7, <2>1 DEF Data
<1>8. CASE q.op = "updateUser" /\ q.password = NoPassword
  <2>1. Changed(q) = [d EXCEPT !.exists = TRUE, !.verified = TRUE, !.verifyCode = NoCode]
    BY <1>8 DEF Changed
  <2>2. QED
    BY <1>1, <1>8, <2>1 DEF Data
<1>9. QED
  BY <1>1, <1>3, <1>4, <1>5, <1>6, <1>7, <1>8 DEF Op

LEMMA NewCodeType ==
  ASSUME TypeOK, spent["code"] < MaxCodes
  PROVE  NewCode \in Codes /\ NewCode > spent["code"] /\ NewCode # NoCode
BY AccountsAssumption DEF TypeOK, NewCode, Codes, NoCode

(* The operations that begin, as one request each *)
LEMMA AskCases ==
  ASSUME TypeOK, NEW r \in Requests,
         AskSignup(r) \/ AskChangeEmail(r) \/ AskForCode(r) \/ AskWithCode(r) \/ AskUpdate(r)
  PROVE  \E op \in Op, u \in Users \cup {Nobody}, e \in Emails, c \in Codes \cup {NoCode},
            p \in Passwords \cup {NoPassword} :
           /\ Ask(r, op, u, e, c, p)
           /\ op # "signup" => u \in Users /\ user[u].email # NoEmail
           /\ op \in {"resetVerify", "resetPassword"} => user[u].email = e
           /\ op = "setPassword" => p # NoPassword
           /\ op \notin {"signup", "setPassword", "updateUser"} => p = NoPassword
           /\ op \in {"verify", "setPassword"} => c \in Codes
           /\ spent'["code"] = spent["code"]
           /\ spent' \in [{"code", "event"} -> Nat]
<1> USE AccountsAssumption DEF TypeOK, Op, Found, UserRow
<1>1. CASE AskSignup(r)
  BY <1>1 DEF AskSignup
<1>2. CASE AskChangeEmail(r)
  BY <1>2 DEF AskChangeEmail
<1>3. CASE AskForCode(r)
  BY <1>3 DEF AskForCode
<1>4. CASE AskWithCode(r)
  <2>1. PICK e \in Emails, u \in Users, m \in mail :
          /\ u \in Found(e) /\ UNCHANGED spent
          /\ \/ Ask(r, "verify", u, e, m.code, NoPassword)
             \/ \E p \in Passwords : Ask(r, "setPassword", u, e, m.code, p)
    BY <1>4 DEF AskWithCode
  <2>2. m.code \in Codes
    OBVIOUS
  <2>3. QED
    BY <2>1, <2>2
<1>5. CASE AskUpdate(r)
  <2>1. PICK u \in Users, p \in Passwords \cup {NoPassword} :
          /\ user[u].email # NoEmail /\ Spend("event", MaxEvents)
          /\ Ask(r, "updateUser", u, user[u].email, NoCode, p)
    BY <1>5 DEF AskUpdate
  <2>2. user[u].email \in Emails
    BY <2>1
  <2>3. spent'["code"] = spent["code"] /\ spent' \in [{"code", "event"} -> Nat]
    BY <2>1 DEF Spend
  <2>4. QED
    BY <2>1, <2>2, <2>3
<1>6. QED
  BY <1>1, <1>2, <1>3, <1>4, <1>5

(* A row of user, once created, keeps its email *)
LEMMA EmailStays ==
  ASSUME TypeOK, [Next]_vars, NEW u \in Users, user[u].email # NoEmail
  PROVE  user'[u].email = user[u].email
<1> USE DEF TypeOK, UserRow
<1>1. ASSUME NEW r \in Requests, Create(r) PROVE user'[u].email = user[u].email
  BY <1>1 DEF Create
<1>2. ASSUME NEW v \in Users, Delete(v) \/ ReactivateUser(v) PROVE user'[u].email = user[u].email
  BY <1>2 DEF Delete, ReactivateUser
<1>3. ASSUME NEW v \in Users, NEW e \in Emails, CreateUser(v, e) PROVE user'[u].email = user[u].email
  BY <1>3 DEF CreateUser
<1>4. ASSUME NEW r \in Requests,
             AskSignup(r) \/ AskChangeEmail(r) \/ AskForCode(r) \/ AskWithCode(r) \/ AskUpdate(r)
      PROVE  user'[u].email = user[u].email
  BY <1>4 DEF AskSignup, AskChangeEmail, AskForCode, AskWithCode, AskUpdate, Ask
<1>5. ASSUME NEW r \in Requests, CreateData(r) \/ Read(r) \/ Write(r) \/ Mail(r) \/ Stop(r)
      PROVE  user'[u].email = user[u].email
  BY <1>5 DEF CreateData, Read, Write, Mail, Stop
<1>6. ASSUME NEW c \in Codes, Expire(c) PROVE user'[u].email = user[u].email
  BY <1>6 DEF Expire
<1>7. CASE UNCHANGED vars
  BY <1>7 DEF vars
<1>8. QED
  BY <1>1, <1>2, <1>3, <1>4, <1>5, <1>6, <1>7 DEF Next

-----------------------------------------------------------------------------
(* Types *)
Placed(r) ==
  /\ req[r].place \in {"read", "write", "createData"} =>
       req[r].user \in Users /\ user[req[r].user].email # NoEmail
  /\ req[r].place = "write" /\ req[r].op # "updateUser" => req[r].data.exists

(* A request that stands still stays fit for what it is to do *)
LEMMA OthersFit ==
  ASSUME TypeOK, RequestsFit, [Next]_vars, NEW r \in Requests, req'[r] = req[r]
  PROVE  Placed(r)' /\ Fits(req[r])'
<1>1. Placed(r) /\ Fits(req[r])
  BY DEF TypeOK, RequestsFit, Placed
<1>2. req[r].place \in {"read", "write", "createData"} =>
        user'[req[r].user].email = user[req[r].user].email
  BY <1>1, EmailStays DEF Placed
<1>3. QED
  BY <1>1, <1>2 DEF Placed, Fits

LEMMA NextTyped ==
  ASSUME TypeOK, RequestsFit, [Next]_vars
  PROVE  TypeOK' /\ RequestsFit'
<1> DEFINE Typed == TypeOK' /\ RequestsFit'
<1> SUFFICES Typed
  OBVIOUS
<1>1. /\ user \in [Users -> UserRow] /\ auth \in [Users -> Data]
      /\ mail \in SUBSET [to : Emails, code : Codes] /\ expired \in SUBSET Codes
      /\ req \in [Requests -> Request]
      /\ spent \in [{"code", "event"} -> Nat]
      /\ told \in [Users -> [password : Passwords \cup {NoPassword}, verified : BOOLEAN]]
      /\ used \in [Codes -> Nat]
      /\ mishaps \in [Users -> SUBSET {"stale", "moved", "lost", "bare"}]
      /\ \A r \in Requests : Placed(r) /\ Fits(req[r])
  BY DEF TypeOK, RequestsFit, Placed
<1>2. ASSUME NEW r \in Requests, Others(r), Placed(r)', Fits(req[r])'
      PROVE  RequestsFit' /\ \A v \in Requests : Placed(v)'
  BY <1>2, OthersFit DEF RequestsFit, Others
<1>3. ASSUME NEW r \in Requests,
             AskSignup(r) \/ AskChangeEmail(r) \/ AskForCode(r) \/ AskWithCode(r) \/ AskUpdate(r)
      PROVE  Typed
  <2>1. PICK op \in Op, u \in Users \cup {Nobody}, e \in Emails, c \in Codes \cup {NoCode},
             p \in Passwords \cup {NoPassword} :
          /\ Ask(r, op, u, e, c, p)
          /\ op # "signup" => u \in Users /\ user[u].email # NoEmail
          /\ op \in {"resetVerify", "resetPassword"} => user[u].email = e
          /\ op = "setPassword" => p # NoPassword
          /\ op \notin {"signup", "setPassword", "updateUser"} => p = NoPassword
          /\ op \in {"verify", "setPassword"} => c \in Codes
          /\ spent' \in [{"code", "event"} -> Nat]
    BY <1>3, AskCases
  <2>2. UNCHANGED <<user, auth, mail, expired, told, used, mishaps>>
    BY <2>1 DEF Ask
  <2>3. /\ req' \in [Requests -> Request] /\ Others(r)
        /\ req'[r].op = op /\ req'[r].user = u /\ req'[r].email = e /\ req'[r].code = c
        /\ req'[r].password = p
        /\ req'[r].place = IF op = "signup" THEN "create" ELSE "read"
    BY <2>1, AskEffect
  <2>4. Placed(r)' /\ Fits(req[r])'
    BY <2>1, <2>2, <2>3 DEF Placed, Fits
  <2>5. QED
    BY <1>1, <1>2, <2>1, <2>2, <2>3, <2>4 DEF TypeOK, Placed
<1>4. ASSUME NEW r \in Requests, Return(r) PROVE Placed(r)' /\ Fits(req[r])' /\ Others(r)
                                                 /\ req' \in [Requests -> Request]
  BY <1>4, ReturnEffect DEF Placed, Fits
<1>5. ASSUME NEW r \in Requests, Create(r) PROVE Typed
  <2>1. CASE Return(r) /\ UNCHANGED user
    BY <1>1, <1>2, <1>4, <1>5, <2>1 DEF Create, TypeOK, Placed
  <2>2. ASSUME NEW u \in Users, user[u].email = NoEmail,
               user' = [user EXCEPT ![u].email = req[r].email],
               req' = [req EXCEPT ![r] = [@ EXCEPT !.user = u, !.place = "createData"]]
        PROVE  Typed
    <3>1. req[r].email \in Emails /\ req[r].op = "signup"
      BY <1>1, <1>5 DEF Create, Fits
    <3>2. user' \in [Users -> UserRow] /\ user'[u].email = req[r].email
      BY <1>1, <2>2, <3>1 DEF UserRow
    <3>3. /\ req' \in [Requests -> Request] /\ Others(r)
          /\ req'[r].place = "createData" /\ req'[r].user = u
          /\ req'[r].op = req[r].op /\ req'[r].email = req[r].email
      BY <2>2, CreateEffect
    <3>4. Placed(r)' /\ Fits(req[r])'
      BY <3>1, <3>2, <3>3, AccountsAssumption DEF Placed, Fits
    <3>5. QED
      BY <1>1, <1>2, <1>5, <3>2, <3>3, <3>4 DEF Create, TypeOK, Placed
  <2>3. QED
    BY <1>5, <2>1, <2>2 DEF Create
<1>6. ASSUME NEW r \in Requests, CreateData(r) PROVE Typed
  <2>1. CASE auth[req[r].user].exists
    BY <1>1, <1>2, <1>4, <1>6, <2>1 DEF CreateData, TypeOK, Placed
  <2>2. CASE ~auth[req[r].user].exists
    <3> DEFINE u == req[r].user
               d == [NoData EXCEPT !.exists = TRUE, !.password = req[r].password, !.verifyCode = NewCode]
    <3>1. u \in Users /\ req[r] \in Request
      BY <1>1, <1>6 DEF CreateData, Placed
    <3>2. NewCode \in Codes /\ spent' \in [{"code", "event"} -> Nat]
      BY <1>6, <2>2, NewCodeType DEF CreateData, Spend, TypeOK
    <3>3. d \in Data
      BY <3>1, <3>2, Records DEF Data, Request
    <3>4. auth' = [auth EXCEPT ![u] = d]
      BY <1>6, <2>2 DEF CreateData
    <3> HIDE DEF d
    <3>5. auth' \in [Users -> Data]
      BY <1>1, <3>1, <3>3, <3>4
    <3>6. told' \in [Users -> [password : Passwords \cup {NoPassword}, verified : BOOLEAN]]
      BY <1>1, <1>6, <2>2, <3>1 DEF CreateData, Request
    <3>7. /\ req' \in [Requests -> Request] /\ Others(r)
          /\ req'[r].place = "mail" /\ req'[r].code = NewCode /\ req'[r].email = req[r].email
      BY <1>6, <2>2, <3>2, MailEffect DEF CreateData
    <3>8. Placed(r)' /\ Fits(req[r])'
      BY <1>1, <1>6, <3>2, <3>7 DEF CreateData, Placed, Fits
    <3>9. UNCHANGED <<user, mail, expired, used, mishaps>>
      BY <1>6 DEF CreateData
    <3>10. QED
      BY <1>1, <1>2, <3>2, <3>5, <3>6, <3>7, <3>8, <3>9 DEF TypeOK, Placed
  <2>3. QED
    BY <2>1, <2>2
<1>7. ASSUME NEW r \in Requests, Mail(r) PROVE Typed
  <2>1. req[r].email \in Emails /\ req[r].code \in Codes
    BY <1>1, <1>7 DEF Mail, Fits
  <2>2. mail' \in SUBSET [to : Emails, code : Codes]
    BY <1>1, <1>7, <2>1 DEF Mail
  <2>3. QED
    BY <1>1, <1>2, <1>4, <1>7, <2>2 DEF Mail, TypeOK, Placed
<1>8. ASSUME NEW r \in Requests, Read(r) PROVE Typed
  <2>1. CASE Return(r)
    BY <1>1, <1>2, <1>4, <1>8, <2>1 DEF Read, TypeOK, Placed
  <2>2. CASE /\ Allows(req[r].op, auth[req[r].user], req[r].code)
             /\ req' = [req EXCEPT ![r] = [@ EXCEPT !.data = auth[req[r].user], !.place = "write"]]
    <3>1. /\ req[r].user \in Users /\ user[req[r].user].email # NoEmail
          /\ auth[req[r].user] \in Data /\ Fits(req[r]) /\ req[r].place = "read" /\ req[r].op \in Op
      BY <1>1, <1>8 DEF Read, Placed, Request
    <3>2. /\ req' \in [Requests -> Request] /\ Others(r)
          /\ req'[r].place = "write" /\ req'[r].data = auth[req[r].user] /\ req'[r].op = req[r].op
          /\ req'[r].user = req[r].user /\ req'[r].email = req[r].email
          /\ req'[r].code = req[r].code /\ req'[r].password = req[r].password
      BY <2>2, <3>1, ReadEffect
    <3>3. UNCHANGED <<user, auth, mail, expired, spent, told, used, mishaps>>
      BY <1>8 DEF Read
    <3>4. /\ req[r].op \notin {"signup", "updateUser"} => auth[req[r].user].exists
          /\ req[r].op = "verify" => auth[req[r].user].verifyCode = req[r].code
          /\ req[r].op = "setPassword" => auth[req[r].user].resetCode = req[r].code
      BY <2>2, <3>1 DEF Allows, Op
    <3>5. Placed(r)' /\ Fits(req[r])'
      BY <3>1, <3>2, <3>3, <3>4 DEF Placed, Fits
    <3>6. QED
      BY <1>1, <1>2, <3>2, <3>3, <3>5 DEF TypeOK, Placed
  <2>3. QED
    BY <1>8, <2>1, <2>2 DEF Read
<1>9. ASSUME NEW r \in Requests, Write(r) PROVE Typed
  <2> DEFINE q == req[r]
             u == req[r].user
  <2>1. /\ q \in Request /\ u \in Users /\ user[u].email # NoEmail /\ q.place = "write"
        /\ Fits(q) /\ q.op # "signup" /\ (q.op # "updateUser" => q.data.exists)
    BY <1>1, <1>9 DEF Write, Placed, Fits
  <2>2. /\ q.op \notin Codeless => NewCode \in Codes
        /\ spent' \in [{"code", "event"} -> Nat]
    BY <1>1, <1>9, NewCodeType DEF Write, Spend
  <2>3. Changed(q) \in Data
    BY <2>1, <2>2, ChangedEffect
  <2>4. auth' \in [Users -> Data]
    BY <1>1, <1>9, <2>1, <2>3 DEF Write
  <2>5. told' \in [Users -> [password : Passwords \cup {NoPassword}, verified : BOOLEAN]]
    <3> DEFINE pw == IF q.password # NoPassword THEN q.password ELSE told[u].password
               vf == \/ told[u].verified \/ q.op \in {"verify", "setPassword"}
                     \/ (q.op = "updateUser" /\ q.password = NoPassword)
               row == [password |-> pw, verified |-> vf]
    <3>1. told[u] \in [password : Passwords \cup {NoPassword}, verified : BOOLEAN]
      BY <1>1, <2>1
    <3>2. pw \in Passwords \cup {NoPassword} /\ vf \in BOOLEAN
      BY <2>1, <3>1 DEF Request
    <3>3. told' = [told EXCEPT ![u] = row]
      BY <1>9 DEF Write
    <3> HIDE DEF pw, vf
    <3>4. row \in [password : Passwords \cup {NoPassword}, verified : BOOLEAN]
      BY <3>2
    <3> HIDE DEF row
    <3>5. QED
      BY <1>1, <2>1, <3>3, <3>4
  <2>6. used' \in [Codes -> Nat]
    BY <1>1, <1>9, <2>1 DEF Write, Fits
  <2>7. mishaps' \in [Users -> SUBSET {"stale", "moved", "lost", "bare"}]
    BY <1>1, <1>9, <2>1 DEF Write
  <2>8. Placed(r)' /\ Fits(req[r])' /\ Others(r) /\ req' \in [Requests -> Request]
    <3>1. CASE Return(r)
      BY <1>4, <3>1
    <3>2. CASE q.op \notin Codeless
      <4>1. /\ req' \in [Requests -> Request] /\ Others(r)
            /\ req'[r].place = "mail" /\ req'[r].code = NewCode /\ req'[r].email = req[r].email
        BY <1>9, <2>2, <3>2, MailEffect DEF Write
      <4>2. QED
        BY <2>1, <2>2, <3>2, <4>1 DEF Placed, Fits
    <3>3. QED
      BY <1>9, <3>1, <3>2 DEF Write
  <2>9. UNCHANGED <<user, mail, expired>>
    BY <1>9 DEF Write
  <2>10. QED
    BY <1>1, <1>2, <2>2, <2>4, <2>5, <2>6, <2>7, <2>8, <2>9 DEF TypeOK, Placed
<1>10. ASSUME NEW r \in Requests, Stop(r) PROVE Typed
  <2>1. mishaps' \in [Users -> SUBSET {"stale", "moved", "lost", "bare"}]
    BY <1>1, <1>10 DEF Stop
  <2>2. spent' \in [{"code", "event"} -> Nat]
    BY <1>1, <1>10 DEF Stop, Spend
  <2>3. QED
    BY <1>1, <1>2, <1>4, <1>10, <2>1, <2>2 DEF Stop, TypeOK, Placed
<1>11. ASSUME UNCHANGED req PROVE RequestsFit' /\ \A v \in Requests : Placed(v)'
  BY <1>11, OthersFit DEF RequestsFit
<1>12. ASSUME NEW u \in Users, Delete(u) \/ ReactivateUser(u) PROVE Typed
  <2>1. user' \in [Users -> UserRow]
    <3>1. user[u] \in UserRow
      BY <1>1
    <3>2. ASSUME NEW n \in Nat, user' = [user EXCEPT ![u].mangled = n] PROVE user' \in [Users -> UserRow]
      BY <1>1, <3>2 DEF UserRow
    <3>3. user[u].mangled + 1 \in Nat /\ (user[u].mangled > 0 => user[u].mangled - 1 \in Nat)
      BY <3>1 DEF UserRow
    <3>4. QED
      BY <1>12, <3>2, <3>3 DEF Delete, ReactivateUser
  <2>2. spent' \in [{"code", "event"} -> Nat]
    BY <1>1, <1>12 DEF Delete, ReactivateUser, Spend
  <2>3. QED
    BY <1>1, <1>11, <1>12, <2>1, <2>2 DEF Delete, ReactivateUser, TypeOK, Placed
<1>13. ASSUME NEW u \in Users, NEW e \in Emails, CreateUser(u, e) PROVE Typed
  <2>1. user' \in [Users -> UserRow]
    BY <1>1, <1>13 DEF CreateUser, UserRow
  <2>2. spent' \in [{"code", "event"} -> Nat]
    BY <1>1, <1>13 DEF CreateUser, Spend
  <2>3. mishaps' \in [Users -> SUBSET {"stale", "moved", "lost", "bare"}]
    BY <1>1, <1>13 DEF CreateUser
  <2>4. QED
    BY <1>1, <1>11, <1>13, <2>1, <2>2, <2>3 DEF CreateUser, TypeOK, Placed
<1>14. ASSUME NEW c \in Codes, Expire(c) PROVE Typed
  BY <1>1, <1>11, <1>14 DEF Expire, TypeOK, Placed
<1>15. CASE UNCHANGED vars
  BY <1>1, <1>11, <1>15 DEF vars, TypeOK, Placed
<1>16. QED
  BY <1>3, <1>5, <1>6, <1>7, <1>8, <1>9, <1>10, <1>12, <1>13, <1>14, <1>15 DEF Next

-----------------------------------------------------------------------------
(* Only these two calls write what a user is told and has *)
LEMMA DataWriters ==
  ASSUME [Next]_vars
  PROVE  \/ UNCHANGED <<auth, told, used>>
         \/ \E r \in Requests : CreateData(r) \/ Write(r)
<1>1. ASSUME NEW r \in Requests,
             AskSignup(r) \/ AskChangeEmail(r) \/ AskForCode(r) \/ AskWithCode(r) \/ AskUpdate(r)
      PROVE  UNCHANGED <<auth, told, used>>
  BY <1>1 DEF AskSignup, AskChangeEmail, AskForCode, AskWithCode, AskUpdate, Ask
<1>2. ASSUME NEW r \in Requests, Create(r) \/ Read(r) \/ Mail(r) \/ Stop(r)
      PROVE  UNCHANGED <<auth, told, used>>
  BY <1>2 DEF Create, Read, Mail, Stop
<1>3. ASSUME NEW u \in Users, Delete(u) \/ ReactivateUser(u) PROVE UNCHANGED <<auth, told, used>>
  BY <1>3 DEF Delete, ReactivateUser
<1>4. ASSUME NEW u \in Users, NEW e \in Emails, CreateUser(u, e) PROVE UNCHANGED <<auth, told, used>>
  BY <1>4 DEF CreateUser
<1>5. ASSUME NEW c \in Codes, Expire(c) PROVE UNCHANGED <<auth, told, used>>
  BY <1>5 DEF Expire
<1>6. CASE UNCHANGED vars
  BY <1>6 DEF vars
<1>7. QED
  BY <1>1, <1>2, <1>3, <1>4, <1>5, <1>6 DEF Next

(* What has happened to an account is not forgotten *)
LEMMA MishapsGrow ==
  ASSUME TypeOK, [Next]_vars, NEW u \in Users
  PROVE  mishaps[u] \subseteq mishaps'[u]
<1> USE DEF TypeOK
<1>1. ASSUME NEW r \in Requests,
             AskSignup(r) \/ AskChangeEmail(r) \/ AskForCode(r) \/ AskWithCode(r) \/ AskUpdate(r)
      PROVE  mishaps' = mishaps
  BY <1>1 DEF AskSignup, AskChangeEmail, AskForCode, AskWithCode, AskUpdate, Ask
<1>2. ASSUME NEW r \in Requests, Create(r) \/ CreateData(r) \/ Read(r) \/ Mail(r)
      PROVE  mishaps' = mishaps
  BY <1>2 DEF Create, CreateData, Read, Mail
<1>3. ASSUME NEW r \in Requests, Write(r) \/ Stop(r) PROVE mishaps[u] \subseteq mishaps'[u]
  BY <1>3 DEF Write, Stop
<1>4. ASSUME NEW v \in Users, Delete(v) \/ ReactivateUser(v) PROVE mishaps' = mishaps
  BY <1>4 DEF Delete, ReactivateUser
<1>5. ASSUME NEW v \in Users, NEW e \in Emails, CreateUser(v, e) PROVE mishaps[u] \subseteq mishaps'[u]
  BY <1>5 DEF CreateUser
<1>6. ASSUME NEW c \in Codes, Expire(c) PROVE mishaps' = mishaps
  BY <1>6 DEF Expire
<1>7. CASE UNCHANGED vars
  BY <1>7 DEF vars
<1>8. QED
  BY <1>1, <1>2, <1>3, <1>4, <1>5, <1>6, <1>7 DEF Next

(* The two ways in which a row of data is written: as new ... *)
LEMMA CreateDataEffect ==
  ASSUME TypeOK, RequestsFit, NEW r \in Requests, CreateData(r), ~auth[req[r].user].exists
  PROVE  LET u == req[r].user IN
         /\ u \in Users /\ user[u].email = req[r].email /\ req[r].email \in Emails
         /\ auth'[u].exists /\ auth'[u].password = req[r].password /\ auth'[u].verified = FALSE
         /\ auth'[u].verifyCode = NewCode /\ auth'[u].resetCode = NoCode
         /\ told'[u].password = req[r].password /\ told'[u].verified = told[u].verified
         /\ \A v \in Users \ {u} : auth'[v] = auth[v] /\ told'[v] = told[v]
         /\ NewCode \in Codes /\ NewCode > spent["code"] /\ spent'["code"] = NewCode
         /\ Others(r) /\ req'[r].place = "mail" /\ req'[r].code = NewCode
         /\ req'[r].email = req[r].email
<1> DEFINE u == req[r].user
           d == [NoData EXCEPT !.exists = TRUE, !.password = req[r].password, !.verifyCode = NewCode]
<1>1. u \in Users /\ user[u].email = req[r].email /\ req[r].email \in Emails
  BY DEF CreateData, TypeOK, RequestsFit, Fits
<1>2. /\ NewCode \in Codes /\ NewCode > spent["code"]
      /\ spent'["code"] = NewCode
  BY NewCodeType DEF CreateData, Spend, TypeOK, NewCode
<1>3. /\ d.exists /\ d.password = req[r].password /\ d.verified = FALSE
      /\ d.verifyCode = NewCode /\ d.resetCode = NoCode
  BY DEF NoData
<1>4. auth' = [auth EXCEPT ![u] = d]
  BY DEF CreateData
<1> HIDE DEF d
<1>5. auth'[u] = d /\ \A v \in Users \ {u} : auth'[v] = auth[v]
  BY <1>1, <1>4 DEF TypeOK
<1>6. /\ told'[u].password = req[r].password /\ told'[u].verified = told[u].verified
      /\ \A v \in Users \ {u} : told'[v] = told[v]
  BY <1>1 DEF CreateData, TypeOK
<1>7. /\ Others(r) /\ req'[r].place = "mail" /\ req'[r].code = NewCode
      /\ req'[r].email = req[r].email
  BY <1>2, MailEffect DEF CreateData
<1>8. QED
  BY <1>1, <1>2, <1>3, <1>5, <1>6, <1>7

(* ... and over what it was *)
LEMMA WriteEffect ==
  ASSUME TypeOK, RequestsFit, NEW r \in Requests, Write(r)
  PROVE  LET u == req[r].user
             q == req[r] IN
         /\ u \in Users /\ user[u].email # NoEmail
         /\ q \in Request /\ q.place = "write" /\ q.op # "signup" /\ Fits(q)
         /\ (q.op # "updateUser" => q.data.exists)
         /\ auth'[u] = Changed(q)
         /\ \A v \in Users \ {u} : auth'[v] = auth[v] /\ told'[v] = told[v]
         /\ told'[u].password = IF q.password # NoPassword THEN q.password ELSE told[u].password
         /\ told'[u].verified = (told[u].verified \/ q.op \in {"verify", "setPassword"}
                                   \/ (q.op = "updateUser" /\ q.password = NoPassword))
         /\ auth[u] # q.data => "stale" \in mishaps'[u]
         /\ q.op = "changeUnverifiedEmail" => "moved" \in mishaps'[u]
         /\ \/ /\ q.op \in Codeless
               /\ req'[r].place = "idle" /\ spent' = spent
            \/ /\ q.op \notin Codeless
               /\ NewCode \in Codes /\ NewCode > spent["code"] /\ spent'["code"] = NewCode
               /\ req'[r].place = "mail" /\ req'[r].code = NewCode /\ req'[r].email = q.email
         /\ Others(r)
<1> DEFINE u == req[r].user
           q == req[r]
<1>1. /\ u \in Users /\ user[u].email # NoEmail
      /\ q \in Request /\ q.place = "write" /\ q.op # "signup" /\ Fits(q)
      /\ (q.op # "updateUser" => q.data.exists)
  BY DEF Write, TypeOK, RequestsFit, Fits
<1>2. auth'[u] = Changed(q) /\ \A v \in Users \ {u} : auth'[v] = auth[v]
  BY <1>1 DEF Write, TypeOK
<1>3. \A v \in Users \ {u} : told'[v] = told[v]
  BY <1>1 DEF Write, TypeOK
<1>4. told'[u] = [password |-> IF q.password # NoPassword THEN q.password ELSE told[u].password,
                  verified |-> told[u].verified \/ q.op \in {"verify", "setPassword"}
                                  \/ (q.op = "updateUser" /\ q.password = NoPassword)]
  BY <1>1 DEF Write, TypeOK
<1>5. /\ auth[u] # q.data => "stale" \in mishaps'[u]
      /\ q.op = "changeUnverifiedEmail" => "moved" \in mishaps'[u]
  BY <1>1 DEF Write, TypeOK
<1>6. CASE q.op \in Codeless
  <2>1. Return(r) /\ spent' = spent
    BY <1>6 DEF Write
  <2>2. Others(r) /\ req'[r].place = "idle"
    BY <2>1, ReturnEffect
  <2>3. QED
    BY <1>1, <1>2, <1>3, <1>4, <1>5, <1>6, <2>1, <2>2
<1>7. CASE q.op \notin Codeless
  <2>1. NewCode \in Codes /\ NewCode > spent["code"] /\ spent'["code"] = NewCode
    BY <1>7, NewCodeType DEF Write, Spend, TypeOK, NewCode
  <2>2. /\ Others(r) /\ req'[r].place = "mail" /\ req'[r].code = NewCode
        /\ req'[r].email = q.email
    BY <1>7, <2>1, MailEffect DEF Write
  <2>3. QED
    BY <1>1, <1>2, <1>3, <1>4, <1>5, <1>7, <2>1, <2>2
<1>8. QED
  BY <1>6, <1>7

(* One account: a write leaves it with a row of data *)
LEMMA DataStays ==
  ASSUME TypeOK, RequestsFit, [Next]_vars, NEW u \in Users
  PROVE  auth'[u] = auth[u] \/ (auth'[u].exists /\ user[u].email # NoEmail)
<1>1. CASE UNCHANGED <<auth, told, used>>
  BY <1>1
<1>2. ASSUME NEW r \in Requests, CreateData(r)
      PROVE  auth'[u] = auth[u] \/ (auth'[u].exists /\ user[u].email # NoEmail)
  <2>1. CASE auth[req[r].user].exists
    BY <1>2, <2>1 DEF CreateData
  <2>2. CASE ~auth[req[r].user].exists
    <3>1. /\ auth'[req[r].user].exists /\ user[req[r].user].email \in Emails
          /\ \A v \in Users \ {req[r].user} : auth'[v] = auth[v]
      BY <1>2, <2>2, CreateDataEffect
    <3>2. QED
      BY <3>1, AccountsAssumption
  <2>3. QED
    BY <2>1, <2>2
<1>3. ASSUME NEW r \in Requests, Write(r)
      PROVE  auth'[u] = auth[u] \/ (auth'[u].exists /\ user[u].email # NoEmail)
  <2>1. /\ req[r] \in Request /\ req[r].op # "signup" /\ user[req[r].user].email # NoEmail
        /\ (req[r].op # "updateUser" => req[r].data.exists)
        /\ (req[r].op \in Codeless \/ NewCode \in Codes)
        /\ auth'[req[r].user] = Changed(req[r])
        /\ \A v \in Users \ {req[r].user} : auth'[v] = auth[v]
    BY <1>3, WriteEffect
  <2>2. Changed(req[r]).exists
    BY <2>1, ChangedEffect
  <2>3. auth'[req[r].user].exists
    BY <2>1, <2>2
  <2>4. CASE u = req[r].user
    BY <2>1, <2>3, <2>4
  <2>5. CASE u # req[r].user
    BY <2>1, <2>5
  <2>6. QED
    BY <2>4, <2>5
<1>4. QED
  BY <1>1, <1>2, <1>3, DataWriters

LEMMA NextUnwritten ==
  ASSUME TypeOK, RequestsFit, Unwritten, [Next]_vars
  PROVE  Unwritten'
<1> SUFFICES ASSUME NEW u \in Users
             PROVE  /\ ~auth'[u].exists => auth'[u] = NoData
                    /\ user'[u].email = NoEmail => ~auth'[u].exists
  BY DEF Unwritten
<1>1. auth'[u] = auth[u] \/ (auth'[u].exists /\ user[u].email # NoEmail)
  BY DataStays
<1>2. user[u].email # NoEmail => user'[u].email # NoEmail
  BY EmailStays
<1>3. QED
  BY <1>1, <1>2 DEF Unwritten

LEMMA NextTold ==
  ASSUME TypeOK, RequestsFit, Unwritten, Told, [Next]_vars
  PROVE  Told'
<1> SUFFICES ASSUME NEW u \in Users, "stale" \notin mishaps'[u]
             PROVE  auth'[u].password = told'[u].password /\ auth'[u].verified = told'[u].verified
  BY DEF Told
<1>1. auth[u].password = told[u].password /\ auth[u].verified = told[u].verified
  BY MishapsGrow DEF Told
<1>2. CASE UNCHANGED <<auth, told, used>>
  BY <1>1, <1>2
<1>3. ASSUME NEW r \in Requests, CreateData(r)
      PROVE  auth'[u].password = told'[u].password /\ auth'[u].verified = told'[u].verified
  <2>1. CASE auth[req[r].user].exists
    BY <1>1, <1>3, <2>1 DEF CreateData
  <2>2. CASE ~auth[req[r].user].exists /\ req[r].user = u
    <3>1. auth[u].verified = FALSE
      BY <2>2 DEF Unwritten, NoData
    <3>2. QED
      BY <1>1, <1>3, <2>2, <3>1, CreateDataEffect
  <2>3. CASE ~auth[req[r].user].exists /\ req[r].user # u
    BY <1>1, <1>3, <2>3, CreateDataEffect
  <2>4. QED
    BY <2>1, <2>2, <2>3
<1>4. ASSUME NEW r \in Requests, Write(r)
      PROVE  auth'[u].password = told'[u].password /\ auth'[u].verified = told'[u].verified
  <2> DEFINE q == req[r]
  <2>1. CASE q.user = u
    <3>1. /\ q \in Request /\ q.place = "write" /\ q.op # "signup" /\ Fits(q)
          /\ (q.op # "updateUser" => q.data.exists) /\ (q.op \in Codeless \/ NewCode \in Codes)
          /\ auth'[u] = Changed(q) /\ auth[u] = q.data
          /\ told'[u].password = IF q.password # NoPassword THEN q.password ELSE told[u].password
          /\ told'[u].verified = (told[u].verified \/ q.op \in {"verify", "setPassword"}
                                    \/ (q.op = "updateUser" /\ q.password = NoPassword))
      BY <1>4, <2>1, WriteEffect
    <3>2. /\ Changed(q).password =
               IF q.op = "setPassword" \/ (q.op = "updateUser" /\ q.password # NoPassword)
                 THEN q.password ELSE q.data.password
          /\ Changed(q).verified =
               IF q.op \in {"verify", "setPassword"} \/ (q.op = "updateUser" /\ q.password = NoPassword)
                 THEN TRUE ELSE q.data.verified
      BY <3>1, ChangedEffect
    <3>3. /\ q.op = "setPassword" => q.password # NoPassword
          /\ q.op \notin {"setPassword", "updateUser"} => q.password = NoPassword
      BY <3>1 DEF Fits
    <3>4. auth[u].verified \in BOOLEAN /\ told[u].verified \in BOOLEAN
      BY DEF TypeOK, Data
    <3>5. auth'[u].password = told'[u].password
      BY <1>1, <3>1, <3>2, <3>3
    <3>6. auth'[u].verified = told'[u].verified
      BY <1>1, <3>1, <3>2, <3>4
    <3>7. QED
      BY <3>5, <3>6
  <2>2. CASE q.user # u
    BY <1>1, <1>4, <2>2, WriteEffect
  <2>3. QED
    BY <2>1, <2>2
<1>5. QED
  BY <1>2, <1>3, <1>4, DataWriters

(* The emails of users change only by a new row, of an email nobody has *)
LEMMA NextOneAccount ==
  ASSUME TypeOK, RequestsFit, OneAccount, [Next]_vars
  PROVE  OneAccount'
<1> SUFFICES ASSUME NEW e \in Emails, NEW u \in Users, NEW v \in Users, 
                    user'[u].email = e, user'[u].mangled = 0, user'[v].email = e, user'[v].mangled = 0
             PROVE  u = v
  BY DEF OneAccount, Found
<1> USE DEF TypeOK, UserRow
<1>1. \A x, y \in Users : /\ user[x].email = e /\ user[x].mangled = 0
                         /\ user[y].email = e /\ user[y].mangled = 0 => x = y
  BY DEF OneAccount, Found
<1>2. CASE UNCHANGED user
  BY <1>1, <1>2
<1>3. ASSUME NEW w \in Users, NEW f \in Emails, user' = [user EXCEPT ![w].email = f],
             ~\E x \in Users : user[x].email = f /\ user[x].mangled = 0
      PROVE  u = v
  BY <1>1, <1>3
<1>4. ASSUME NEW r \in Requests, Create(r) PROVE u = v
  <2>1. req[r].email \in Emails
    BY <1>4 DEF Create, RequestsFit, Fits
  <2>2. CASE UNCHANGED user
    BY <1>2, <2>2
  <2>3. CASE user' # user
    <3>1. PICK w \in Users : user' = [user EXCEPT ![w].email = req[r].email]
      BY <1>4, <2>3 DEF Create
    <3>2. ~\E x \in Users : user[x].email = req[r].email /\ user[x].mangled = 0
      BY <1>4, <2>3 DEF Create
    <3>3. QED
      BY <1>3, <2>1, <3>1, <3>2
  <2>4. QED
    BY <2>2, <2>3
<1>5. ASSUME NEW w \in Users, NEW f \in Emails, CreateUser(w, f) PROVE u = v
  BY <1>3, <1>5 DEF CreateUser, Found
<1>6. ASSUME NEW w \in Users, Delete(w) PROVE u = v
  BY <1>1, <1>6 DEF Delete
<1>7. ASSUME NEW w \in Users, ReactivateUser(w) PROVE u = v
  <2>1. CASE user[w].mangled = 1
    BY <1>1, <1>7, <2>1 DEF ReactivateUser, Found
  <2>2. CASE user[w].mangled > 1
    BY <1>1, <1>7, <2>2 DEF ReactivateUser
  <2>3. QED
    BY <1>7, <2>1, <2>2 DEF ReactivateUser
<1>8. ASSUME NEW r \in Requests,
             AskSignup(r) \/ AskChangeEmail(r) \/ AskForCode(r) \/ AskWithCode(r) \/ AskUpdate(r)
      PROVE  UNCHANGED user
  BY <1>8 DEF AskSignup, AskChangeEmail, AskForCode, AskWithCode, AskUpdate, Ask
<1>9. ASSUME NEW r \in Requests, CreateData(r) \/ Read(r) \/ Write(r) \/ Mail(r) \/ Stop(r)
      PROVE  UNCHANGED user
  BY <1>9 DEF CreateData, Read, Write, Mail, Stop
<1>10. ASSUME NEW c \in Codes, Expire(c) PROVE UNCHANGED user
  BY <1>10 DEF Expire
<1>11. CASE UNCHANGED vars
  BY <1>2, <1>11 DEF vars
<1>12. QED
  BY <1>2, <1>4, <1>5, <1>6, <1>7, <1>8, <1>9, <1>10, <1>11 DEF Next

-----------------------------------------------------------------------------
(* A request's row of req is changed by its own steps only *)
LEMMA OwnSteps ==
  ASSUME TypeOK, [Next]_vars, NEW r \in Requests, req[r].place = "createData", req'[r] # req[r]
  PROVE  CreateData(r) \/ Stop(r)
<1> USE DEF TypeOK
<1>1. ASSUME NEW v \in Requests,
             AskSignup(v) \/ AskChangeEmail(v) \/ AskForCode(v) \/ AskWithCode(v) \/ AskUpdate(v)
      PROVE  FALSE
  <2>1. req[v].place = "idle" /\ \E q : req' = [req EXCEPT ![v] = q]
    BY <1>1 DEF AskSignup, AskChangeEmail, AskForCode, AskWithCode, AskUpdate, Ask
  <2>2. QED
    BY <2>1
<1>2. ASSUME NEW v \in Requests, Create(v) \/ Read(v) \/ Write(v) \/ Mail(v)
      PROVE  FALSE
  <2>1. req[v].place # "createData" /\ \E q : req' = [req EXCEPT ![v] = q]
    BY <1>2 DEF Create, Read, Write, Mail, Return
  <2>2. QED
    BY <2>1
<1>3. ASSUME NEW v \in Requests, CreateData(v) \/ Stop(v)
      PROVE  v = r
  <2>1. \E q : req' = [req EXCEPT ![v] = q]
    BY <1>3 DEF CreateData, Stop, Return
  <2>2. QED
    BY <2>1
<1>4. ASSUME NEW u \in Users, Delete(u) \/ ReactivateUser(u) PROVE FALSE
  BY <1>4 DEF Delete, ReactivateUser
<1>5. ASSUME NEW u \in Users, NEW e \in Emails, CreateUser(u, e) PROVE FALSE
  BY <1>5 DEF CreateUser
<1>6. ASSUME NEW c \in Codes, Expire(c) PROVE FALSE
  BY <1>6 DEF Expire
<1>7. CASE UNCHANGED vars
  BY <1>7 DEF vars
<1>8. QED
  BY <1>1, <1>2, <1>3, <1>4, <1>5, <1>6, <1>7 DEF Next

(* A row of user is created by a sign-up, which goes on with the row of     *)
(* data, or by the staff                                                    *)
LEMMA NewRow ==
  ASSUME TypeOK, RequestsFit, [Next]_vars, NEW u \in Users, user[u].email = NoEmail, user'[u].email # NoEmail
  PROVE  \/ "bare" \in mishaps'[u]
         \/ \E r \in Requests : req'[r].place = "createData" /\ req'[r].user = u
<1> DEFINE Goal == \/ "bare" \in mishaps'[u]
                   \/ \E r \in Requests : req'[r].place = "createData" /\ req'[r].user = u
<1>1. ASSUME NEW r \in Requests, Create(r) PROVE Goal
  <2>1. PICK v \in Users : /\ user' = [user EXCEPT ![v].email = req[r].email]
                           /\ req' = [req EXCEPT ![r] = [@ EXCEPT !.user = v, !.place = "createData"]]
    BY <1>1 DEF Create
  <2>2. v = u
    BY <2>1 DEF TypeOK
  <2>3. req'[r].place = "createData" /\ req'[r].user = v
    BY <2>1, CreateEffect
  <2>4. QED
    BY <2>2, <2>3
<1>2. ASSUME NEW v \in Users, NEW e \in Emails, CreateUser(v, e) PROVE Goal
  <2>1. v = u
    BY <1>2 DEF CreateUser, TypeOK
  <2>2. QED
    BY <1>2, <2>1 DEF CreateUser, TypeOK
<1>3. ASSUME NEW v \in Users, Delete(v) \/ ReactivateUser(v) PROVE FALSE
  BY <1>3 DEF Delete, ReactivateUser, TypeOK, UserRow
<1>4. ASSUME NEW r \in Requests,
             AskSignup(r) \/ AskChangeEmail(r) \/ AskForCode(r) \/ AskWithCode(r) \/ AskUpdate(r)
      PROVE  FALSE
  BY <1>4 DEF AskSignup, AskChangeEmail, AskForCode, AskWithCode, AskUpdate, Ask
<1>5. ASSUME NEW r \in Requests, CreateData(r) \/ Read(r) \/ Write(r) \/ Mail(r) \/ Stop(r)
      PROVE  FALSE
  BY <1>5 DEF CreateData, Read, Write, Mail, Stop
<1>6. ASSUME NEW c \in Codes, Expire(c) PROVE FALSE
  BY <1>6 DEF Expire
<1>7. CASE UNCHANGED vars
  BY <1>7 DEF vars
<1>8. QED
  BY <1>1, <1>2, <1>3, <1>4, <1>5, <1>6, <1>7 DEF Next

LEMMA NextHasData ==
  ASSUME TypeOK, RequestsFit, HasData, [Next]_vars
  PROVE  HasData'
<1> SUFFICES ASSUME NEW u \in Users, user'[u].email # NoEmail, ~auth'[u].exists
             PROVE  \/ mishaps'[u] \cap {"lost", "bare"} # {}
                    \/ \E r \in Requests : req'[r].place = "createData" /\ req'[r].user = u
  BY DEF HasData
<1>1. auth'[u] = auth[u]
  BY DataStays
<1>2. CASE user[u].email = NoEmail
  BY <1>2, NewRow
<1>3. CASE mishaps[u] \cap {"lost", "bare"} # {}
  BY <1>3, MishapsGrow
<1>4. ASSUME NEW r \in Requests, req[r].place = "createData", req[r].user = u
      PROVE  \/ mishaps'[u] \cap {"lost", "bare"} # {}
             \/ req'[r].place = "createData" /\ req'[r].user = u
  <2>1. CASE req'[r] = req[r]
    BY <1>4, <2>1
  <2>2. CASE CreateData(r)
    BY <1>1, <1>4, <2>2, CreateDataEffect
  <2>3. CASE Stop(r)
    BY <1>4, <2>3 DEF Stop, TypeOK
  <2>4. QED
    BY <1>4, <2>1, <2>2, <2>3, OwnSteps
<1>5. QED
  BY <1>1, <1>2, <1>3, <1>4 DEF HasData

-----------------------------------------------------------------------------
(* The calls that send a new code, and what a step does to the codes about *)
Issuing(r) ==
  \/ CreateData(r) /\ ~auth[req[r].user].exists
  \/ Write(r) /\ req[r].op \notin Codeless

NoNewCode ==
  /\ \A u \in Users, c \in Codes : HasCode(u, c)' => HasCode(u, c)
  /\ \A e \in Emails, c \in Codes : Letter(e, c)' => Letter(e, c)

OneNewCode(r) ==
  /\ \A u \in Users, c \in Codes : HasCode(u, c)' => HasCode(u, c) \/ (u = req[r].user /\ c = NewCode)
  /\ \A e \in Emails, c \in Codes : Letter(e, c)' => Letter(e, c) \/ (e = req[r].email /\ c = NewCode)

LEMMA QuietRequest ==
  ASSUME NEW r \in Requests, Others(r), auth' = auth, mail' = mail, req'[r].place \notin {"write", "mail"}
  PROVE  NoNewCode
<1>1. ASSUME NEW u \in Users, NEW c \in Codes, HasCode(u, c)' PROVE HasCode(u, c)
  <2>1. CASE c \in Slots(auth'[u])
    BY <2>1 DEF HasCode
  <2>2. ASSUME NEW v \in Requests, req'[v].place = "write", req'[v].user = u, c \in Slots(req'[v].data)
        PROVE  HasCode(u, c)
    <3>1. req'[v] = req[v]
      BY <2>2 DEF Others
    <3>2. QED
      BY <2>2, <3>1 DEF HasCode
  <2>3. QED
    BY <1>1, <2>1, <2>2 DEF HasCode, Slots
<1>2. ASSUME NEW e \in Emails, NEW c \in Codes, Letter(e, c)' PROVE Letter(e, c)
  BY <1>2 DEF Letter, Others
<1>3. QED
  BY <1>1, <1>2 DEF NoNewCode

(* A code moves from a row to its copy and back, and from a request to the *)
(* mail                                                                    *)
LEMMA CodeStep ==
  ASSUME TypeOK, RequestsFit, [Next]_vars
  PROVE  NoNewCode \/ \E r \in Requests : Issuing(r) /\ OneNewCode(r)
<1>1. ASSUME NEW r \in Requests,
             AskSignup(r) \/ AskChangeEmail(r) \/ AskForCode(r) \/ AskWithCode(r) \/ AskUpdate(r)
      PROVE  NoNewCode
  <2>1. PICK op \in Op, u \in Users \cup {Nobody}, e \in Emails, c \in Codes \cup {NoCode},
             p \in Passwords \cup {NoPassword} : Ask(r, op, u, e, c, p)
    BY <1>1, AskCases
  <2>2. Others(r) /\ req'[r].place \in {"create", "read"}
    BY <2>1, AskEffect
  <2>3. QED
    BY <2>1, <2>2, QuietRequest DEF Ask
<1>2. ASSUME NEW r \in Requests, Return(r), auth' = auth, mail' = mail PROVE NoNewCode
  BY <1>2, ReturnEffect, QuietRequest
<1>3. ASSUME NEW r \in Requests, Create(r) PROVE NoNewCode
  <2>1. ASSUME NEW u \in Users, 
               req' = [req EXCEPT ![r] = [@ EXCEPT !.user = u, !.place = "createData"]]
        PROVE  NoNewCode
    BY <1>3, <2>1, CreateEffect, QuietRequest DEF Create
  <2>2. CASE Return(r)
    BY <1>2, <1>3, <2>2 DEF Create
  <2>3. QED
    BY <1>3, <2>1, <2>2 DEF Create
<1>4. ASSUME NEW r \in Requests, Stop(r) PROVE NoNewCode
  BY <1>2, <1>4 DEF Stop
<1>5. ASSUME NEW r \in Requests, Mail(r) PROVE NoNewCode
  <2>1. Others(r) /\ req'[r].place = "idle" /\ auth' = auth
    BY <1>5, ReturnEffect DEF Mail
  <2>2. ASSUME NEW u \in Users, NEW c \in Codes, HasCode(u, c)' PROVE HasCode(u, c)
    <3>1. \A v \in Requests : req'[v].place = "write" => req'[v] = req[v]
      BY <2>1 DEF Others
    <3>2. QED
      BY <2>1, <2>2, <3>1 DEF HasCode
  <2>3. ASSUME NEW e \in Emails, NEW c \in Codes, Letter(e, c)' PROVE Letter(e, c)
    <3>1. \A v \in Requests : req'[v].place = "mail" => req'[v] = req[v]
      BY <2>1 DEF Others
    <3>2. CASE [to |-> e, code |-> c] = [to |-> req[r].email, code |-> req[r].code]
      BY <1>5, <3>2 DEF Letter, Mail
    <3>3. CASE [to |-> e, code |-> c] # [to |-> req[r].email, code |-> req[r].code]
      BY <1>5, <2>3, <3>1, <3>3 DEF Letter, Mail
    <3>4. QED
      BY <3>2, <3>3
  <2>4. QED
    BY <2>2, <2>3 DEF NoNewCode
<1>6. ASSUME NEW r \in Requests, Read(r) PROVE NoNewCode
  <2>1. CASE Return(r)
    BY <1>2, <1>6, <2>1 DEF Read
  <2>2. CASE req' = [req EXCEPT ![r] = [@ EXCEPT !.data = auth[req[r].user], !.place = "write"]]
    <3>1. auth[req[r].user] \in Data
      BY <1>6 DEF Read, TypeOK
    <3>2. /\ Others(r) /\ req'[r].place = "write" /\ req'[r].data = auth[req[r].user]
          /\ req'[r].user = req[r].user /\ auth' = auth /\ mail' = mail
      BY <1>6, <2>2, <3>1, ReadEffect DEF Read
    <3>3. ASSUME NEW u \in Users, NEW c \in Codes, HasCode(u, c)' PROVE HasCode(u, c)
      BY <3>2, <3>3 DEF HasCode, Others
    <3>4. ASSUME NEW e \in Emails, NEW c \in Codes, Letter(e, c)' PROVE Letter(e, c)
      BY <3>2, <3>4 DEF Letter, Others
    <3>5. QED
      BY <3>3, <3>4 DEF NoNewCode
  <2>3. QED
    BY <1>6, <2>1, <2>2 DEF Read
<1>7. ASSUME NEW r \in Requests, CreateData(r) PROVE NoNewCode \/ (Issuing(r) /\ OneNewCode(r))
  <2>1. CASE auth[req[r].user].exists
    BY <1>2, <1>7, <2>1 DEF CreateData
  <2>2. CASE ~auth[req[r].user].exists
    <3>1. /\ auth'[req[r].user].verifyCode = NewCode /\ auth'[req[r].user].resetCode = NoCode
          /\ \A v \in Users \ {req[r].user} : auth'[v] = auth[v]
          /\ Others(r) /\ req'[r].place = "mail" /\ req'[r].code = NewCode
          /\ req'[r].email = req[r].email /\ mail' = mail
      BY <1>7, <2>2, CreateDataEffect DEF CreateData
    <3>2. NoCode \notin Codes
      BY DEF NoCode, Codes
    <3>3. ASSUME NEW u \in Users, NEW c \in Codes, HasCode(u, c)'
          PROVE  HasCode(u, c) \/ (u = req[r].user /\ c = NewCode)
      <4>1. \A v \in Requests : req'[v].place = "write" => req'[v] = req[v]
        BY <3>1 DEF Others
      <4>2. CASE u = req[r].user
        BY <3>1, <3>2, <3>3, <4>1, <4>2 DEF HasCode, Slots
      <4>3. CASE u # req[r].user
        BY <3>1, <3>3, <4>1, <4>3 DEF HasCode, Slots
      <4>4. QED
        BY <4>2, <4>3
    <3>4. ASSUME NEW e \in Emails, NEW c \in Codes, Letter(e, c)'
          PROVE  Letter(e, c) \/ (e = req[r].email /\ c = NewCode)
      BY <3>1, <3>4 DEF Letter, Others
    <3>5. QED
      BY <1>7, <2>2, <3>3, <3>4 DEF OneNewCode, Issuing
  <2>3. QED
    BY <2>1, <2>2
<1>8. ASSUME NEW r \in Requests, Write(r) PROVE NoNewCode \/ (Issuing(r) /\ OneNewCode(r))
  <2> DEFINE q == req[r]
  <2>1. /\ q.user \in Users /\ q \in Request /\ q.place = "write" /\ q.op # "signup"
        /\ (q.op # "updateUser" => q.data.exists)
        /\ (q.op \in Codeless \/ NewCode \in Codes)
        /\ auth'[q.user] = Changed(q)
        /\ \A v \in Users \ {q.user} : auth'[v] = auth[v]
        /\ \/ q.op \in Codeless /\ req'[r].place = "idle"
           \/ /\ q.op \notin Codeless
              /\ req'[r].place = "mail" /\ req'[r].code = NewCode /\ req'[r].email = q.email
        /\ Others(r) /\ mail' = mail
    BY <1>8, WriteEffect DEF Write
  <2>2. /\ Changed(q).verifyCode =
             IF q.op \in {"changeUnverifiedEmail", "resetVerify"} THEN NewCode
             ELSE IF q.op \in {"verify", "setPassword"} \/ (q.op = "updateUser" /\ q.password = NoPassword)
               THEN NoCode ELSE q.data.verifyCode
        /\ Changed(q).resetCode =
             IF q.op = "resetPassword" THEN NewCode
             ELSE IF q.op = "setPassword" THEN NoCode ELSE q.data.resetCode
    BY <2>1, ChangedEffect
  <2>3. NoCode \notin Codes
    BY DEF NoCode, Codes
  <2>4. \A c \in Codes : c \in Slots(Changed(q)) => c \in Slots(q.data) \/ (c = NewCode /\ q.op \notin Codeless)
    BY <2>2, <2>3 DEF Slots, Codeless
  <2>5. \A v \in Requests : req'[v].place = "write" => req'[v] = req[v]
    BY <2>1 DEF Others
  <2>6. ASSUME NEW u \in Users, NEW c \in Codes, HasCode(u, c)'
        PROVE  HasCode(u, c) \/ (u = q.user /\ c = NewCode /\ q.op \notin Codeless)
    <3>1. CASE \E v \in Requests : req'[v].place = "write" /\ req'[v].user = u /\ c \in Slots(req'[v].data)
      BY <2>5, <3>1 DEF HasCode
    <3>2. CASE c \in Slots(auth'[u]) /\ u # q.user
      BY <2>1, <3>2 DEF HasCode
    <3>3. CASE c \in Slots(auth'[u]) /\ u = q.user
      <4>1. c \in Slots(Changed(q))
        BY <2>1, <3>3
      <4>2. QED
        BY <2>1, <2>4, <3>3, <4>1 DEF HasCode
    <3>4. QED
      BY <2>6, <3>1, <3>2, <3>3 DEF HasCode, Slots
  <2>7. ASSUME NEW e \in Emails, NEW c \in Codes, Letter(e, c)'
        PROVE  Letter(e, c) \/ (e = q.email /\ c = NewCode /\ q.op \notin Codeless)
    BY <2>1, <2>7 DEF Letter, Others
  <2>8. QED
    BY <1>8, <2>6, <2>7 DEF Issuing, NoNewCode, OneNewCode
<1>9. ASSUME UNCHANGED <<auth, mail, req>> PROVE NoNewCode
  BY <1>9 DEF NoNewCode, HasCode, Letter
<1>10. ASSUME NEW u \in Users, Delete(u) \/ ReactivateUser(u) PROVE NoNewCode
  BY <1>9, <1>10 DEF Delete, ReactivateUser
<1>11. ASSUME NEW u \in Users, NEW e \in Emails, CreateUser(u, e) PROVE NoNewCode
  BY <1>9, <1>11 DEF CreateUser
<1>12. ASSUME NEW c \in Codes, Expire(c) PROVE NoNewCode
  BY <1>9, <1>12 DEF Expire
<1>13. CASE UNCHANGED vars
  BY <1>9, <1>13 DEF vars
<1>14. QED
  BY <1>1, <1>3, <1>4, <1>5, <1>6, <1>7, <1>8, <1>10, <1>11, <1>12, <1>13 DEF Next

-----------------------------------------------------------------------------
(* A code that is sent is a new one, and goes to the account's address      *)
(* unless it is the one that changeUnverifiedEmail sends                    *)
LEMMA IssuingEffect ==
  ASSUME TypeOK, RequestsFit, NEW r \in Requests, Issuing(r)
  PROVE  /\ NewCode \in Codes /\ NewCode > spent["code"] /\ spent'["code"] = NewCode
         /\ req[r].user \in Users /\ req[r].email \in Emails
         /\ user[req[r].user].email = req[r].email \/ "moved" \in mishaps'[req[r].user]
<1>1. CASE CreateData(r) /\ ~auth[req[r].user].exists
  BY <1>1, CreateDataEffect
<1>2. CASE Write(r) /\ req[r].op \notin Codeless
  <2> DEFINE q == req[r]
  <2>1. /\ q.user \in Users /\ q \in Request /\ q.place = "write" /\ q.op # "signup" /\ Fits(q)
        /\ q.op = "changeUnverifiedEmail" => "moved" \in mishaps'[q.user]
        /\ NewCode \in Codes /\ NewCode > spent["code"] /\ spent'["code"] = NewCode
    BY <1>2, WriteEffect
  <2>2. q.op \in {"changeUnverifiedEmail", "resetVerify", "resetPassword"}
    BY <1>2, <2>1 DEF Codeless, Request, Op
  <2>3. q.email \in Emails /\ (q.op # "changeUnverifiedEmail" => user[q.user].email = q.email)
    BY <2>1, <2>2 DEF Fits
  <2>4. QED
    BY <2>1, <2>3
<1>3. QED
  BY <1>1, <1>2 DEF Issuing

(* Codes are given out one after the other *)
LEMMA CodesGrow ==
  ASSUME TypeOK, RequestsFit, [Next]_vars
  PROVE  spent'["code"] \in Nat /\ spent'["code"] >= spent["code"]
<1> DEFINE Goal == spent'["code"] \in Nat /\ spent'["code"] >= spent["code"]
<1>1. spent["code"] \in Nat /\ spent'["code"] \in Nat
  BY NextTyped DEF TypeOK
<1>2. ASSUME NEW r \in Requests,
             AskSignup(r) \/ AskChangeEmail(r) \/ AskForCode(r) \/ AskWithCode(r) \/ AskUpdate(r)
      PROVE  Goal
  <2>1. spent'["code"] = spent["code"]
    BY <1>2, AskCases
  <2>2. QED
    BY <1>1, <2>1
<1>3. ASSUME NEW r \in Requests, CreateData(r) \/ Write(r) PROVE Goal
  BY <1>1, <1>3 DEF CreateData, Write, Spend, TypeOK
<1>4. ASSUME NEW r \in Requests, Create(r) \/ Read(r) \/ Mail(r) \/ Stop(r) PROVE Goal
  <2>1. CASE Stop(r)
    BY <1>1, <2>1 DEF Stop, Spend, TypeOK
  <2>2. CASE Create(r) \/ Read(r) \/ Mail(r)
    <3>1. spent' = spent
      BY <2>2 DEF Create, Read, Mail
    <3>2. QED
      BY <1>1, <3>1
  <2>3. QED
    BY <1>4, <2>1, <2>2
<1>5. ASSUME NEW u \in Users, Delete(u) \/ ReactivateUser(u) PROVE Goal
  BY <1>1, <1>5 DEF Delete, ReactivateUser, Spend, TypeOK
<1>6. ASSUME NEW u \in Users, NEW e \in Emails, CreateUser(u, e) PROVE Goal
  BY <1>1, <1>6 DEF CreateUser, Spend, TypeOK
<1>7. ASSUME NEW c \in Codes, Expire(c) PROVE Goal
  BY <1>1, <1>7 DEF Expire
<1>8. CASE UNCHANGED vars
  BY <1>1, <1>8 DEF vars
<1>9. QED
  BY <1>2, <1>3, <1>4, <1>5, <1>6, <1>7, <1>8 DEF Next

(* A code is used by an operation whose copy of the account has it *)
LEMMA UsedStep ==
  ASSUME TypeOK, RequestsFit, [Next]_vars, NEW c \in Codes
  PROVE  \/ used'[c] = used[c]
         \/ \E r \in Requests : HasCode(req[r].user, c) /\ req[r].user \in Users
<1>1. ASSUME NEW r \in Requests, Write(r), used'[c] # used[c]
      PROVE  HasCode(req[r].user, c) /\ req[r].user \in Users
  <2>1. req[r].op \in {"verify", "setPassword"} /\ req[r].code = c
    BY <1>1 DEF Write, TypeOK
  <2>2. req[r].place = "write" /\ Fits(req[r]) /\ req[r].user \in Users
    BY <1>1, WriteEffect
  <2>3. c \in Slots(req[r].data)
    BY <2>1, <2>2 DEF Fits, Slots
  <2>4. QED
    BY <2>2, <2>3 DEF HasCode
<1>2. ASSUME NEW r \in Requests, CreateData(r) PROVE used' = used
  BY <1>2 DEF CreateData
<1>3. QED
  BY <1>1, <1>2, DataWriters

LEMMA NextIssued ==
  ASSUME TypeOK, RequestsFit, Issued, [Next]_vars
  PROVE  Issued'
<1> SUFFICES ASSUME NEW c \in Codes, c > spent'["code"]
             PROVE  /\ used'[c] = 0
                    /\ \A u \in Users : ~HasCode(u, c)'
                    /\ \A e \in Emails : ~Letter(e, c)'
  BY DEF Issued, Codes
<1>1. c > spent["code"]
  BY CodesGrow DEF TypeOK, Codes
<1>2. used[c] = 0 /\ (\A u \in Users : ~HasCode(u, c)) /\ \A e \in Emails : ~Letter(e, c)
  BY <1>1 DEF Issued
<1>3. used'[c] = 0
  BY <1>2, UsedStep
<1>4. CASE NoNewCode
  BY <1>2, <1>3, <1>4 DEF NoNewCode
<1>5. ASSUME NEW r \in Requests, Issuing(r), OneNewCode(r)
      PROVE  (\A u \in Users : ~HasCode(u, c)') /\ \A e \in Emails : ~Letter(e, c)'
  <2>1. c # NewCode
    BY <1>5, IssuingEffect DEF Codes
  <2>2. QED
    BY <1>2, <1>5, <2>1 DEF OneNewCode
<1>6. QED
  BY <1>3, <1>4, <1>5, CodeStep DEF NoNewCode

LEMMA NextAddressed ==
  ASSUME TypeOK, RequestsFit, Issued, Addressed, [Next]_vars
  PROVE  Addressed'
<1> SUFFICES ASSUME NEW u \in Users, NEW e \in Emails, NEW c \in Codes, Letter(e, c)', HasCode(u, c)',
                    "moved" \notin mishaps'[u]
             PROVE  user'[u].email = e
  BY DEF Addressed, Codes
<1>1. "moved" \notin mishaps[u]
  BY MishapsGrow
<1>2. ASSUME user[u].email = e PROVE user'[u].email = e
  BY <1>2, EmailStays, AccountsAssumption
<1>3. CASE Letter(e, c) /\ HasCode(u, c)
  BY <1>1, <1>2, <1>3 DEF Addressed
<1>4. ASSUME NEW r \in Requests, Issuing(r), OneNewCode(r) PROVE user'[u].email = e
  <2>1. NewCode \in Codes /\ NewCode > spent["code"]
    BY <1>4, IssuingEffect
  <2>2. ~HasCode(u, NewCode) /\ ~Letter(e, NewCode)
    BY <2>1 DEF Issued
  <2>3. CASE c = NewCode
    <3>1. u = req[r].user /\ e = req[r].email
      BY <1>4, <2>2, <2>3 DEF OneNewCode
    <3>2. user[u].email = e
      BY <1>4, <3>1, IssuingEffect
    <3>3. QED
      BY <1>2, <3>2
  <2>4. CASE c # NewCode
    BY <1>3, <1>4, <2>4 DEF OneNewCode
  <2>5. QED
    BY <2>3, <2>4
<1>5. QED
  BY <1>3, <1>4, CodeStep DEF NoNewCode

LEMMA NextUsedOnce ==
  ASSUME TypeOK, RequestsFit, Issued, UsedOnce, [Next]_vars
  PROVE  UsedOnce'
<1> SUFFICES ASSUME NoneStale', NEW c \in Codes PROVE OneUse(c)'
  BY DEF UsedOnce, Codes
<1>1. OneUse(c)
  BY MishapsGrow DEF UsedOnce, NoneStale
<1>2. CASE UNCHANGED <<auth, told, used>>
  BY <1>1, <1>2 DEF OneUse, Slots
<1>3. NoCode # c
  BY DEF NoCode, Codes
<1>4. NewCode \in Codes /\ NewCode > spent["code"] /\ c = NewCode =>
        used[c] = 0 /\ \A v \in Users : auth[v].verifyCode # c /\ auth[v].resetCode # c
  BY DEF Issued, HasCode, Slots
<1>5. ASSUME NEW r \in Requests, CreateData(r) PROVE OneUse(c)'
  <2> DEFINE u == req[r].user
  <2>1. CASE auth[u].exists
    BY <1>2, <1>5, <2>1 DEF CreateData
  <2>2. CASE ~auth[u].exists
    <3>1. /\ u \in Users /\ auth'[u].verifyCode = NewCode /\ auth'[u].resetCode = NoCode
          /\ \A v \in Users \ {u} : auth'[v] = auth[v]
          /\ NewCode \in Codes /\ NewCode > spent["code"]
      BY <1>5, <2>2, CreateDataEffect
    <3>2. used' = used
      BY <1>5 DEF CreateData
    <3>3. CASE c = NewCode
      BY <1>1, <1>3, <1>4, <3>1, <3>2, <3>3 DEF OneUse, Slots
    <3>4. CASE c # NewCode
      BY <1>1, <1>3, <3>1, <3>2, <3>4 DEF OneUse, Slots
    <3>5. QED
      BY <3>3, <3>4
  <2>3. QED
    BY <2>1, <2>2
<1>6. ASSUME NEW r \in Requests, Write(r) PROVE OneUse(c)'
  <2> DEFINE q == req[r]
             u == q.user
  <2>1. /\ u \in Users /\ q \in Request /\ q.place = "write" /\ q.op # "signup" /\ Fits(q)
        /\ (q.op # "updateUser" => q.data.exists)
        /\ auth'[u] = Changed(q) /\ \A v \in Users \ {u} : auth'[v] = auth[v]
        /\ auth[u] # q.data => "stale" \in mishaps'[u]
        /\ q.op \in Codeless \/ (NewCode \in Codes /\ NewCode > spent["code"])
    BY <1>6, WriteEffect
  <2>2. auth[u] = q.data
    BY <2>1 DEF NoneStale
  <2>3. /\ auth'[u].verifyCode =
             IF q.op \in {"changeUnverifiedEmail", "resetVerify"} THEN NewCode
             ELSE IF q.op \in {"verify", "setPassword"} \/ (q.op = "updateUser" /\ q.password = NoPassword)
               THEN NoCode ELSE auth[u].verifyCode
        /\ auth'[u].resetCode =
             IF q.op = "resetPassword" THEN NewCode
             ELSE IF q.op = "setPassword" THEN NoCode ELSE auth[u].resetCode
    BY <2>1, <2>2, ChangedEffect
  <2>4. CASE q.op \in {"verify", "setPassword"} /\ q.code = c
    <3>1. used'[c] = used[c] + 1
      BY <1>6, <2>4 DEF Write, TypeOK
    <3>2. IF q.op = "verify" THEN auth[u].verifyCode = c ELSE auth[u].resetCode = c
      BY <2>1, <2>2, <2>4 DEF Fits
    <3>3. used[c] = 0
      BY <1>1, <2>1, <3>2 DEF OneUse, Slots
    <3>4. \A v \in Users : auth'[v].verifyCode # c /\ auth'[v].resetCode # c
      BY <1>1, <1>3, <2>1, <2>3, <2>4, <3>2 DEF OneUse
    <3>5. QED
      BY <3>1, <3>3, <3>4 DEF OneUse, Slots
  <2>5. CASE ~(q.op \in {"verify", "setPassword"} /\ q.code = c)
    <3>1. used'[c] = used[c]
      BY <1>6, <2>5 DEF Write, TypeOK
    <3>2. CASE c = NewCode /\ q.op \notin Codeless
      <4>1. used[c] = 0 /\ \A v \in Users : auth[v].verifyCode # c /\ auth[v].resetCode # c
        BY <1>4, <2>1, <3>2
      <4>2. /\ \A v \in Users \ {u} : auth'[v].verifyCode # c /\ auth'[v].resetCode # c
            /\ ~(auth'[u].verifyCode = c /\ auth'[u].resetCode = c)
        BY <1>3, <2>1, <2>3, <4>1
      <4>3. QED
        BY <3>1, <4>1, <4>2 DEF OneUse
    <3>3. CASE c # NewCode \/ q.op \in Codeless
      <4>1. /\ auth'[u].verifyCode = c => auth[u].verifyCode = c
            /\ auth'[u].resetCode = c => auth[u].resetCode = c
        BY <1>3, <2>3, <3>3 DEF Codeless
      <4>2. \A v \in Users : /\ auth'[v].verifyCode = c => auth[v].verifyCode = c
                             /\ auth'[v].resetCode = c => auth[v].resetCode = c
        BY <2>1, <4>1
      <4>3. QED
        BY <1>1, <3>1, <4>2 DEF OneUse, Slots
    <3>4. QED
      BY <3>2, <3>3
  <2>6. QED
    BY <2>4, <2>5
<1>7. QED
  BY <1>2, <1>5, <1>6, DataWriters

-----------------------------------------------------------------------------
LEMMA InitSafe == Init => Safe
<1> SUFFICES ASSUME Init PROVE Safe
  OBVIOUS
<1> USE DEF Init
<1>1. TypeOK
  BY Records, AccountsAssumption DEF TypeOK, UserRow, Idle
<1>2. \A r \in Requests : req[r].place = "idle"
  BY DEF Idle
<1>3. \A u \in Users, c \in Codes : ~HasCode(u, c)
  BY <1>2 DEF HasCode, Slots, NoData, Codes, NoCode
<1>4. RequestsFit /\ Unwritten /\ Told /\ HasData
  BY <1>2 DEF RequestsFit, Fits, Unwritten, Told, HasData, NoData
<1>5. Issued /\ Addressed
  BY <1>2, <1>3 DEF Issued, Addressed, Letter
<1>6. UsedOnce
  BY DEF UsedOnce, OneUse, Slots, NoData, Codes, NoCode
<1>7. OneAccount
  BY AccountsAssumption DEF OneAccount, Found
<1>8. QED
  BY <1>1, <1>4, <1>5, <1>6, <1>7 DEF Safe

LEMMA NextSafe == Safe /\ [Next]_vars => Safe'
BY NextTyped, NextUnwritten, NextIssued, NextAddressed, NextTold, NextUsedOnce, NextHasData, NextOneAccount DEF Safe

(* No step of a request, however they overlap, leaves a row, a code or a    *)
(* local variable of LocalService that the code does not expect: a request  *)
(* that writes back a value (LocalService.verify, setPassword and the rest) *)
(* writes back one that exists, of an account that exists.                  *)
THEOREM AccountsTypeCorrect == Spec => []TypeOK
<1>1. Safe => TypeOK
  BY DEF Safe
<1>2. QED
  BY <1>1, InitSafe, NextSafe, PTL DEF Spec

(* What LocalService has told a user (the password that was set, the        *)
(* verification) stays true of the account, for any number of requests,     *)
(* codes, deletions and edits by the staff, unless a request wrote back a   *)
(* value of UserAuthData.data that had changed since it read it.            *)
THEOREM PromisesKept == Spec => []KeepsPromise
<1>1. Safe => KeepsPromise
  BY DEF Safe, Told, KeepsPromise
<1>2. QED
  BY <1>1, InitSafe, NextSafe, PTL DEF Spec

(* A code that crmService sends works once, unless the writes of two        *)
(* requests cross, and only with the address it was sent to, unless         *)
(* changeUnverifiedEmail sent it: for any number of codes and requests.     *)
THEOREM CodesWorkOnce == Spec => []CodesWork
<1>1. ASSUME Safe PROVE CodesWork
  <2>1. ASSUME \A u \in Users : "stale" \notin mishaps[u], NEW c \in Codes PROVE used[c] <= 1
    BY <1>1, <2>1 DEF Safe, UsedOnce, NoneStale, OneUse
  <2>2. ASSUME NEW u \in Users, NEW m \in mail, m.code \in {auth[u].verifyCode, auth[u].resetCode},
               "moved" \notin mishaps[u]
        PROVE  user[u].email = m.to
    <3>1. m.to \in Emails /\ m.code \in Codes /\ m = [to |-> m.to, code |-> m.code]
      BY <1>1 DEF Safe, TypeOK
    <3>2. Letter(m.to, m.code) /\ HasCode(u, m.code)
      BY <2>2, <3>1 DEF Letter, HasCode, Slots
    <3>3. QED
      BY <1>1, <2>2, <3>1, <3>2 DEF Safe, Addressed
  <2>3. QED
    BY <2>1, <2>2 DEF CodesWork
<1>2. QED
  BY <1>1, InitSafe, NextSafe, PTL DEF Spec

(* An address is left without credentials only by a sign-up that was cut    *)
(* off between its two rows or by the staff, and no sequence of sign-ups,   *)
(* deletions and reactivations (UserService.create, delete, reactivate)     *)
(* gives one address to two accounts.                                       *)
THEOREM AddressesUsable == Spec => []AddressIsUsable
<1>1. ASSUME Safe PROVE AddressIsUsable
  <2>1. ASSUME NEW e \in Emails PROVE Cardinality(Found(e)) <= 1
    <3>1. CASE Found(e) = {}
      BY <3>1, FS_EmptySet
    <3>2. ASSUME NEW u \in Found(e) PROVE Cardinality(Found(e)) <= 1
      <4>1. Found(e) = {u}
        BY <1>1 DEF Safe, OneAccount, Found
      <4>2. QED
        BY <4>1, FS_Singleton
    <3>3. QED
      BY <3>1, <3>2
  <2>2. QED
    BY <1>1, <2>1 DEF Safe, HasData, AddressIsUsable
<1>2. QED
  BY <1>1, InitSafe, NextSafe, PTL DEF Spec

==============================================================================
