------------------------------ MODULE Rendezvous ------------------------------
(***************************************************************************)
(* What the signalling server promises, without its maps, locks, tasks and *)
(* program counters.  A user arrives, learns its identifier, opens and     *)
(* joins sessions, and departs.  A message is put into the mailbox of a    *)
(* present user whom it concerns, or it is lost, and mailboxes are read in *)
(* order.  A session is closed only after its host has departed.           *)
(***************************************************************************)
EXTENDS SignalProtocol, Sequences

VARIABLES
  standing,   \* of each user: "absent", "present" or "departed"
  mailbox,    \* what each present user has not yet read
  host,       \* the user that opened each session
  guests,     \* the users that ever joined each session
  sessions    \* the sessions that exist

vars == <<standing, mailbox, host, guests, sessions>>

TypeOK ==
  /\ standing \in [UserID -> {"absent", "present", "departed"}]
  /\ mailbox \in [UserID -> Seq(SignalEnum)]
  /\ host \in [SessionID -> UserID \cup {None}]
  /\ guests \in [SessionID -> SUBSET UserID]
  /\ sessions \subseteq SessionID

Init ==
  /\ standing = [u \in UserID |-> "absent"]
  /\ mailbox = [u \in UserID |-> << >>]
  /\ host = [s \in SessionID |-> None]
  /\ guests = [s \in SessionID |-> {}]
  /\ sessions = {}

Present(u) == standing[u] = "present"

Arrive(u) ==
  /\ standing[u] = "absent"
  /\ standing' = [standing EXCEPT ![u] = "present"]
  /\ mailbox' = [mailbox EXCEPT ![u] = <<NewUser(u)>>]
  /\ UNCHANGED <<host, guests, sessions>>

OpenSession(u, s) ==
  /\ Present(u)
  /\ host[s] = None
  /\ host' = [host EXCEPT ![s] = u]
  /\ sessions' = sessions \cup {s}
  /\ UNCHANGED <<standing, mailbox, guests>>

Join(u, s) ==
  /\ Present(u)
  /\ s \in sessions
  /\ guests' = [guests EXCEPT ![s] = @ \cup {u}]
  /\ UNCHANGED <<standing, mailbox, host, sessions>>

Contents(q) == {q[i] : i \in DOMAIN q}

Post(d, m) ==
  /\ Present(d)
  /\ m.kind # "NewUser"
  /\ Concerns(d, m, host, guests)
  /\ mailbox' = [mailbox EXCEPT ![d] = Append(@, m)]
  /\ UNCHANGED <<standing, host, guests, sessions>>

Read(u) ==
  /\ Present(u)
  /\ mailbox[u] # << >>
  /\ mailbox' = [mailbox EXCEPT ![u] = Tail(@)]
  /\ UNCHANGED <<standing, host, guests, sessions>>

Depart(u) ==
  /\ Present(u)
  /\ standing' = [standing EXCEPT ![u] = "departed"]
  /\ mailbox' = [mailbox EXCEPT ![u] = << >>]
  /\ UNCHANGED <<host, guests, sessions>>

CloseSession(s) ==
  /\ s \in sessions
  /\ ~Present(host[s])
  /\ sessions' = sessions \ {s}
  /\ UNCHANGED <<standing, mailbox, host, guests>>

Next ==
  \/ \E u \in UserID : Arrive(u) \/ Read(u) \/ Depart(u)
  \/ \E u \in UserID, s \in SessionID : OpenSession(u, s) \/ Join(u, s)
  \/ \E d \in UserID : \E m \in Contents(mailbox'[d]) : Post(d, m)
  \/ \E s \in SessionID : CloseSession(s)

Spec == Init /\ [][Next]_vars
===============================================================================
