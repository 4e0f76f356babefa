CONSTANTS
  SessionIds = {s1}
  Requests = {r1, r2}
  Ttl = 1
  MaxNow = 1
  MaxToken = 1
  RedisFails = FALSE
  None = None
SPECIFICATION Spec
PROPERTIES
  LogoutIsInstant
