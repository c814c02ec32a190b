-------------------------- MODULE MCSignallingServer --------------------------
(* SignallingServer for TLC.  All identifiers of one sort are alike. *)
EXTENDS SignallingServer, FiniteSetsExt, TLC

Symmetry == Permutations(UserID) \cup Permutations(SessionID) \cup Permutations(Addr)

\* The server reads at most four messages from all connections together.
FourRequests == MapThenSumSet(LAMBDA c : received[c], UserID) <= 4
===============================================================================
