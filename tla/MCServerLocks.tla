---------------------------- MODULE MCServerLocks ----------------------------
(* ServerLocks for TLC. *)
EXTENDS ServerLocks, FiniteSetsExt, TLC

Symmetry == Permutations(UserID) \cup Permutations(SessionID) \cup Permutations(Addr)

\* The server reads at most three messages from all connections together.
ThreeRequests == MapThenSumSet(LAMBDA c : received[c], UserID) <= 3
===============================================================================
