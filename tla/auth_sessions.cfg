CONSTANTS
  Passwords = {p1, p2}
  Default = p1
  Bootstraps = {p1, p2}
  Requests = {r1, r2}
  Tokens = {t1, t2}
  Limit = 2
  None = None
SPECIFICATION FairSpec
INVARIANTS TypeOK AttemptsBounded ChangedPasswordStays SessionsFollowPassword
PROPERTY LockoutEnds
