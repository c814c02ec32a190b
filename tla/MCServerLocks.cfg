\* Three connections, one message of any kind from each; mutexes; identifiers may collide.
SPECIFICATION LockSpec
CONSTANTS
  UserID = {u1, u2, u3}
  SessionID = {s1}
  Addr = {a1, a2}
  None = None
  ClientKinds = {"VideoOffer", "VideoAnswer", "IceCandidate", "SessionNew", "SessionJoin", "ICEError", "Debug"}
  MaxRequests = 1
  UniqueIDs = FALSE
  EarlyReuse = FALSE
SYMMETRY Symmetry
INVARIANTS
  LocksTypeOK
  NoDeadlock
  Registered
PROPERTY
  ImplementsServer
\* Every task may have ended.
CHECK_DEADLOCK FALSE
