\* Two sessions of two users, with fairness.
SPECIFICATION FairSpec
CONSTANTS
  UserID = {u1, u2}
  SessionID = {s1, s2}
  Addr = {a1, a2}
  None = None
  ClientKinds = {"SessionNew", "SessionJoin"}
  MaxRequests = 2
  UniqueIDs = TRUE
  EarlyReuse = FALSE
PROPERTIES
  LostHostEndsSession
\* Every task may have ended.
CHECK_DEADLOCK FALSE
