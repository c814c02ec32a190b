\* All messages but ICEError; unique identifiers; addresses reused after the task ends.
SPECIFICATION Spec
CONSTANTS
  UserID = {u1, u2, u3}
  SessionID = {s1}
  Addr = {a1, a2}
  None = None
  ClientKinds = {"VideoOffer", "VideoAnswer", "IceCandidate", "SessionNew", "SessionJoin"}
  MaxRequests = 2
  UniqueIDs = TRUE
  EarlyReuse = FALSE
SYMMETRY Symmetry
CONSTRAINT FourRequests
INVARIANTS
  TypeOK
  NoSessionWithoutHost
  TablesNameTheLiving
  Registered
  RoutedToMember
  NewUserFirst
  InOrder
PROPERTIES
  SessionEndsWithHost
  ImplementsRendezvous
\* Every task may have ended.
CHECK_DEADLOCK FALSE
