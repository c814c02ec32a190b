------------------------------ MODULE MCVideoCall ------------------------------
(* VideoCall for TLC.  Addresses are alike; so are pages and sessions, where  *)
(* every user may click both buttons.                                         *)
EXTENDS VideoCall

Symmetry == Permutations(Addr)

FullSymmetry == Permutations(Addr) \cup Permutations(UserID) \cup Permutations(SessionID)

TotalClicks == SumFunction([p \in UserID |-> clicks[p]["start"] + clicks[p]["connect"] + clicks[p]["debug"]])

Candidates(p) ==
  gathering[p] + Len(SelectSeq(sent[p], LAMBDA m : m.kind = "IceCandidate"))

\* All users together click three times, once every page knows its user, and a
\* page finds one candidate in all.  Clicks on a page that is still connecting
\* are left to the other runs.
ThreeClicks ==
  /\ TotalClicks <= 3
  /\ TotalClicks > 0 => \A p \in UserID : user_id[p] # None
  /\ \A p \in UserID : Candidates(p) <= 1
===============================================================================
