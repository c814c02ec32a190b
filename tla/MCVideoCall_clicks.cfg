\* Two pages that both host and join, three clicks in all after set-up, two sessions.
SPECIFICATION CallSpec
CONSTANTS
  None = None
  Addr = {a1, a2}
  UserID = {u1, u2}
  SessionID = {s1, s2}
  ClientKinds = {"VideoOffer", "VideoAnswer", "IceCandidate", "SessionNew", "SessionJoin", "Debug"}
  MaxRequests = 20
  UniqueIDs = TRUE
  EarlyReuse = FALSE
  Hosts = {u1, u2}
  Guests = {u1, u2}
  Debuggers = {u1, u2}
  MaxClicks = 2
  MaxCandidates = 1
  CameraDenied = FALSE
  Guessing = FALSE
  Leaving = {}
  Reachable = TRUE
SYMMETRY FullSymmetry
CONSTRAINT ThreeClicks
INVARIANTS
  ShowsOwnSession
  AgreedNegotiation
  NoCandidateRefused
  OfferHasStream
  OneCallOneSession
  GuestIsSeen
\* All users may be done.
CHECK_DEADLOCK FALSE
