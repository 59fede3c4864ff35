SPECIFICATION Spec
CONSTANTS
  Users = {u1, u2}
  Emails = {e1, e2}
  NoEmail = NoEmail
  Passwords = {p1, p2}
  NoPassword = NoPassword
  Requests = {r1, r2}
  Nobody = Nobody
  MaxCodes = 2
  MaxEvents = 1
SYMMETRY Symmetry
INVARIANTS
  TypeOK
  KeepsPromise
  CodesWork
  
CHECK_DEADLOCK FALSE
