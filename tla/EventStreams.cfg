CONSTANTS
  s1 = s1
  k1 = k1
  k2 = k2
  k3 = k3
  u1 = u1
  u2 = u2
  x1 = x1
  Users = {u1, u2}
  Sessions = {x1}
  Streams = {s1}
  Resources = {k1, k2, k3}
  Cached = {k1}
  SharedGroup = TRUE
  OwnerOf <- MCOwnerOf
  UserOf <- MCUserOf
  SessionOf <- MCSessionOf
  MaxPending = 1
  MaxVersion = 1
SPECIFICATION FairSpec
INVARIANTS
  StreamsTypeOK
  QueuesAreBounded
  HintsAwaitVerification
  NoChangeForgotten
PROPERTIES
  HintsAreAuthorized
  ClientsCatchUp
  RevokedStreamsEnd
CHECK_DEADLOCK FALSE
