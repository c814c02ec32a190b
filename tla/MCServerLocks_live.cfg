\* Two connections, three messages in all, with fairness.
SPECIFICATION FairLockSpec
CONSTANTS
  UserID = {u1, u2}
  SessionID = {s1}
  Addr = {a1, a2}
  None = None
  ClientKinds = {"VideoOffer", "SessionNew", "SessionJoin", "Debug"}
  MaxRequests = 2
  UniqueIDs = FALSE
  EarlyReuse = FALSE
CONSTRAINT ThreeRequests
PROPERTY
  RequestsEnd
\* Every task may have ended.
CHECK_DEADLOCK FALSE
