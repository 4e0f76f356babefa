CONSTANTS
  SessionIds = {s1}
  Requests = {r1, r2}
  Ttl = 1
  MaxNow = 2
  MaxToken = 2
  RedisFails = TRUE
  None = None
SPECIFICATION FairSpec
INVARIANTS
  SessionsTypeOK
  TokensSpentOnce
  ActiveCopiesAreCurrent
PROPERTIES
  RevokedForGood
  LogoutWins
