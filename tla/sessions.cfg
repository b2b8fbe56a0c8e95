SPECIFICATION Spec
CONSTANTS
  Users = {u1, u2}
  SeedUsers = {u1}
  SessionIds = {s1, s2, s3}
  Tokens = {t1, t2}
  Requests = {r1, r2}
  None = None
  MaxPassword = 2
  MaxCalls = 5
  MaxElapsed = 1
CHECK_DEADLOCK FALSE
SYMMETRY Symmetry
INVARIANT TypeOK
INVARIANT SessionsEndWithPassword
INVARIANT OneSuccessor
INVARIANT TokensWorkOnce
