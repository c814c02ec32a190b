\* A host sends ICEError.
SPECIFICATION Spec
CONSTANTS
  UserID = {u1, u2}
  SessionID = {s1}
  Addr = {a1}
  None = None
  ClientKinds = {"SessionNew", "SessionJoin", "ICEError"}
  MaxRequests = 2
  UniqueIDs = TRUE
  EarlyReuse = FALSE
SYMMETRY Symmetry
INVARIANTS
  NoSessionWithoutHost
\* Every task may have ended.
CHECK_DEADLOCK FALSE
