\* The plainest call: one host, one guest, nobody leaves.
SPECIFICATION CallSpec
CONSTANTS
  None = None
  Addr = {a1, a2}
  UserID = {u1, u2}
  SessionID = {s1}
  ClientKinds = {"VideoOffer", "VideoAnswer", "IceCandidate", "SessionNew", "SessionJoin", "Debug"}
  MaxRequests = 20
  UniqueIDs = TRUE
  EarlyReuse = FALSE
  Hosts = {u1}
  Guests = {u2}
  Debuggers = {}
  MaxClicks = 1
  MaxCandidates = 1
  CameraDenied = FALSE
  Guessing = FALSE
  Leaving = {}
  Reachable = FALSE
INVARIANT
  AnswerHasStream
\* All users may be done.
CHECK_DEADLOCK FALSE
