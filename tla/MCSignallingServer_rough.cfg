\* Session identifiers may collide and addresses may be reused early.
SPECIFICATION Spec
CONSTANTS
  UserID = {u1, u2, u3}
  SessionID = {s1}
  Addr = {a1}
  None = None
  ClientKinds = {"SessionNew", "SessionJoin", "VideoOffer"}
  MaxRequests = 1
  UniqueIDs = FALSE
  EarlyReuse = TRUE
SYMMETRY Symmetry
INVARIANTS
  NoSessionWithoutHost
  TablesNameTheLiving
\* Every task may have ended.
CHECK_DEADLOCK FALSE
