\* One host and one guest; identifiers may be guessed, cameras denied, pages closed, connections broken.
SPECIFICATION CallSpec
CONSTANTS
  None = None
  Addr = {a1, a2}
  UserID = {u1, u2}
  SessionID = {s1}
  ClientKinds = {"VideoOffer", "VideoAnswer", "IceCandidate", "SessionNew", "SessionJoin", "Debug"}
  MaxRequests = 20
  UniqueIDs = TRUE
  EarlyReuse = FALSE
  Hosts = {u1}
  Guests = {u2}
  Debuggers = {}
  MaxClicks = 1
  MaxCandidates = 1
  CameraDenied = TRUE
  Guessing = TRUE
  Leaving = {"closed", "lost"}
  Reachable = TRUE
SYMMETRY Symmetry
INVARIANTS
  CallTypeOK
  ShowsOwnSession
  AgreedNegotiation
  NoCandidateRefused
  OfferHasStream
  OffersFromMembers
  GuestIsSeen
PROPERTY
  PagesAreClients
\* All users may be done.
CHECK_DEADLOCK FALSE
