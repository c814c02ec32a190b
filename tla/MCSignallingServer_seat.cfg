\* A third user joins a session.
SPECIFICATION Spec
CONSTANTS
  UserID = {u1, u2, u3}
  SessionID = {s1}
  Addr = {a1, a2, a3}
  None = None
  ClientKinds = {"SessionNew", "SessionJoin"}
  MaxRequests = 1
  UniqueIDs = TRUE
  EarlyReuse = FALSE
SYMMETRY Symmetry
PROPERTIES
  GuestKeepsSeat
\* Every task may have ended.
CHECK_DEADLOCK FALSE
