--------------------------- MODULE SignallingServer ---------------------------
(***************************************************************************)
(* signalling-server/src/signalling-server.rs.                             *)
(*                                                                         *)
(* One async task runs handle_connection for each accepted connection.     *)
(* The tasks run in parallel on the executor's threads and share three     *)
(* maps, each behind a mutex of its own.  A step of this module is one     *)
(* critical section of a task: between two steps of one task every other   *)
(* task may take its own.  Within a task, handle_message is synchronous,   *)
(* so the task forwards nothing to its socket while it is handling a       *)
(* message.                                                                *)
(*                                                                         *)
(* handle_connection's program counter, in order:                          *)
(*   "new"       no connection yet                                         *)
(*   "accepted"  handshake done, sender inserted into peer_map             *)
(*   "listed"    user inserted into user_list                              *)
(*   "serving"   inside future::select, ready to read or to forward        *)
(*   "sending"   inside handle_message, its reply composed but not sent    *)
(*   "leaving"   select has returned                                       *)
(*   "unmapped"  removed from peer_map                                     *)
(*   "unlisted"  removed from user_list                                    *)
(*   "closing"   removing the collected sessions one by one                *)
(*   "ended"     the task returned; its queue and its socket are dropped   *)
(*   "panicked"  the task unwound out of handle_message                    *)
(***************************************************************************)
EXTENDS SignalProtocol, Sequences

CONSTANTS
  Addr,         \* socket addresses of clients
  ClientKinds,  \* kinds of messages that clients send
  MaxRequests,  \* bound: messages the server reads from one connection
  UniqueIDs,    \* generate_id(5) never draws a session identifier twice
  EarlyReuse    \* an address may be reused as soon as its client has closed

ASSUME ConstantsAssumption ==
  /\ None \notin Addr
  /\ ClientKinds \subseteq Requests \cup Replies
  /\ MaxRequests \in Nat
  /\ UniqueIDs \in BOOLEAN
  /\ EarlyReuse \in BOOLEAN

VARIABLES
  peer_map,      \* address -> connection whose queue the stored sender feeds
  user_list,     \* user -> address
  session_list,  \* session -> SessionMembers
  pc,            \* program counter of each connection's task
  addr,          \* address of each connection, from accept on
  open,          \* the client has not closed the connection
  out,           \* unbounded queue of each connection, towards its socket
  envelope,      \* handle_message's message_to_client and destination
  received,      \* number of messages read from each connection
  doomed,        \* handle_connection's sess_list
  host_of,       \* history: the user that created a session
  guests_of      \* history: the users that ever joined a session

tables  == <<peer_map, user_list, session_list>>
history == <<host_of, guests_of>>
vars    == <<tables, pc, addr, open, out, envelope, received, doomed, history>>

-------------------------------------------------------------------------------
SessionMembers == [host : UserID, guest : UserID \cup {None}]
NoSession      == [host |-> None, guest |-> None]

SourcePeer   == [type |-> "SourcePeer", peer |-> None]
OtherPeer(u) == [type |-> "OtherPeer", peer |-> u]
Destination  == {SourcePeer} \cup {OtherPeer(u) : u \in UserID}

NoEnvelope == [msg |-> SessionJoinError, dest |-> SourcePeer]

SetupStates   == {"accepted", "listed"}
ServingStates == {"serving", "sending"}
CleanupStates == {"leaving", "unmapped", "unlisted", "closing"}
PcStates == SetupStates \cup ServingStates \cup CleanupStates
              \cup {"new", "ended", "panicked"}

TypeOK ==
  /\ peer_map \in [Addr -> UserID \cup {None}]
  /\ user_list \in [UserID -> Addr \cup {None}]
  /\ session_list \in [SessionID -> SessionMembers \cup {NoSession}]
  /\ pc \in [UserID -> PcStates]
  /\ addr \in [UserID -> Addr \cup {None}]
  /\ open \in [UserID -> BOOLEAN]
  /\ out \in [UserID -> Seq(SignalEnum)]
  /\ envelope \in [UserID -> [msg : SignalEnum, dest : Destination]]
  /\ received \in [UserID -> Nat]
  /\ doomed \in [UserID -> SUBSET SessionID]
  /\ host_of \in [SessionID -> UserID \cup {None}]
  /\ guests_of \in [SessionID -> SUBSET UserID]

Init ==
  /\ peer_map = [a \in Addr |-> None]
  /\ user_list = [u \in UserID |-> None]
  /\ session_list = [s \in SessionID |-> NoSession]
  /\ pc = [u \in UserID |-> "new"]
  /\ addr = [u \in UserID |-> None]
  /\ open = [u \in UserID |-> FALSE]
  /\ out = [u \in UserID |-> << >>]
  /\ envelope = [u \in UserID |-> NoEnvelope]
  /\ received = [u \in UserID |-> 0]
  /\ doomed = [u \in UserID |-> {}]
  /\ host_of = [s \in SessionID |-> None]
  /\ guests_of = [s \in SessionID |-> {}]

-------------------------------------------------------------------------------
(***************************************************************************)
(* A task holds its socket until it ends.  The operating system hands out  *)
(* the address again after that, or, with EarlyReuse, as soon as the       *)
(* client's side of the connection is gone.                                *)
(***************************************************************************)
SocketDroppedBySelect(c) == pc[c] \in SetupStates \cup ServingStates   \* a mutant

HoldsSocket(c) == pc[c] \notin {"new", "ended", "panicked"}

Free(a) == \A d \in UserID : addr[d] = a /\ HoldsSocket(d) => EarlyReuse /\ ~open[d]

\* A mutant: entry(addr).or_insert.
AcceptOrInsert(c, a) ==
  /\ pc[c] = "new"
  /\ Free(a)
  /\ pc' = [pc EXCEPT ![c] = "accepted"]
  /\ addr' = [addr EXCEPT ![c] = a]
  /\ open' = [open EXCEPT ![c] = TRUE]
  /\ peer_map' = [peer_map EXCEPT ![a] = IF @ = None THEN c ELSE @]
  /\ UNCHANGED <<user_list, session_list, out, envelope, received, doomed, history>>

\* A new connection: accept, the websocket handshake, peer_map.insert.
Accept(c, a) ==
  /\ pc[c] = "new"
  /\ Free(a)
  /\ pc' = [pc EXCEPT ![c] = "accepted"]
  /\ addr' = [addr EXCEPT ![c] = a]
  /\ open' = [open EXCEPT ![c] = TRUE]
  /\ peer_map' = [peer_map EXCEPT ![a] = c]
  /\ UNCHANGED <<user_list, session_list, out, envelope, received, doomed, history>>

\* user_list.insert.
ListUser(c) ==
  /\ pc[c] = "accepted"
  /\ pc' = [pc EXCEPT ![c] = "listed"]
  /\ user_list' = [user_list EXCEPT ![c] = addr[c]]
  /\ UNCHANGED <<peer_map, session_list, addr, open, out, envelope, received, doomed, history>>

\* reply_with_id: the user's own identifier goes into its queue.
ReplyWithID(c) ==
  /\ pc[c] = "listed"
  /\ pc' = [pc EXCEPT ![c] = "serving"]
  /\ out' = [out EXCEPT ![c] = Append(@, NewUser(c))]
  /\ UNCHANGED <<tables, addr, open, envelope, received, doomed, history>>

\* The client closes its side, or the network does.
Close(c) ==
  /\ HoldsSocket(c)
  /\ open[c]
  /\ open' = [open EXCEPT ![c] = FALSE]
  /\ UNCHANGED <<tables, pc, addr, out, envelope, received, doomed, history>>

\* A mutant: a message that the socket refuses is queued again.
ForwardRequeues(c) ==
  /\ pc[c] = "serving"
  /\ out[c] # << >>
  /\ \/ out' = [out EXCEPT ![c] = Tail(@)]
     \/ out' = [out EXCEPT ![c] = Append(Tail(@), Head(@))]
  /\ UNCHANGED <<tables, pc, addr, open, envelope, received, doomed, history>>

\* rx.map(Ok).forward(outgoing): the oldest queued message goes to the socket.
Forward(c) ==
  /\ pc[c] = "serving"
  /\ out[c] # << >>
  /\ out' = [out EXCEPT ![c] = Tail(@)]
  /\ UNCHANGED <<tables, pc, addr, open, envelope, received, doomed, history>>

-------------------------------------------------------------------------------
(***************************************************************************)
(* handle_message, first half: the match on the message, which looks the   *)
(* session up under the session_list mutex and composes the reply.  Every  *)
(* handler either prepares an envelope or returns an error, which the      *)
(* caller logs.                                                            *)
(***************************************************************************)
Exists(s) == session_list[s] # NoSession

Prepare(c, m, dest) ==
  /\ envelope' = [envelope EXCEPT ![c] = [msg |-> m, dest |-> dest]]
  /\ pc' = [pc EXCEPT ![c] = "sending"]

ReturnErr == UNCHANGED <<pc, envelope, session_list, history>>

\* A mutant: host and guest mixed up.
OfferToGuest(c, m) ==
  /\ m.kind = "VideoOffer"
  /\ IF Exists(m.session) /\ session_list[m.session].guest # None
     THEN /\ Prepare(c, m, OtherPeer(session_list[m.session].guest))
          /\ UNCHANGED <<session_list, history>>
     ELSE ReturnErr

\* An offer goes to the host of its session, whoever sent it.
HandleVideoOffer(c, m) ==
  /\ m.kind = "VideoOffer"
  /\ IF Exists(m.session)
     THEN /\ Prepare(c, m, OtherPeer(session_list[m.session].host))
          /\ UNCHANGED <<session_list, history>>
     ELSE ReturnErr

\* A mutant: a session without a guest is not told apart.
AnswerUnchecked(c, m) ==
  /\ m.kind = "VideoAnswer"
  /\ IF Exists(m.session)
     THEN /\ Prepare(c, m, OtherPeer(session_list[m.session].guest))
          /\ UNCHANGED <<session_list, history>>
     ELSE ReturnErr

\* An answer goes to the present guest of its session, whoever sent it.
HandleVideoAnswer(c, m) ==
  /\ m.kind = "VideoAnswer"
  /\ IF Exists(m.session) /\ session_list[m.session].guest # None
     THEN /\ Prepare(c, m, OtherPeer(session_list[m.session].guest))
          /\ UNCHANGED <<session_list, history>>
     ELSE ReturnErr

\* A candidate goes to the other member; only the two members may send one.
CandidatePeer(c, s) ==
  IF c = session_list[s].guest THEN session_list[s].host ELSE session_list[s].guest

\* A mutant: no check that the sender is a member.
CandidateUnchecked(c, m) ==
  /\ m.kind = "IceCandidate"
  /\ IF Exists(m.session) /\ session_list[m.session].guest # None
     THEN /\ Prepare(c, m, OtherPeer(CandidatePeer(c, m.session)))
          /\ UNCHANGED <<session_list, history>>
     ELSE ReturnErr

HandleIceCandidate(c, m) ==
  /\ m.kind = "IceCandidate"
  /\ IF /\ Exists(m.session)
        /\ session_list[m.session].guest # None
        /\ c \in {session_list[m.session].guest, session_list[m.session].host}
     THEN /\ Prepare(c, m, OtherPeer(CandidatePeer(c, m.session)))
          /\ UNCHANGED <<session_list, history>>
     ELSE ReturnErr

\* generate_id(5) draws an identifier; an existing session is replaced.
HandleSessionNew(c, m) ==
  /\ m.kind = "SessionNew"
  /\ \E s \in SessionID :
       /\ UniqueIDs => host_of[s] = None
       /\ session_list' = [session_list EXCEPT ![s] = [host |-> c, guest |-> None]]
       /\ host_of' = [host_of EXCEPT ![s] = c]
       /\ Prepare(c, SessionReady(s), SourcePeer)
  /\ UNCHANGED guests_of

\* The joining user becomes the guest, in place of any earlier guest.
HandleSessionJoin(c, m) ==
  /\ m.kind = "SessionJoin"
  /\ UNCHANGED host_of
  /\ IF Exists(m.session)
     THEN /\ session_list' = [session_list EXCEPT ![m.session] = [host |-> @.host, guest |-> c]]
          /\ guests_of' = [guests_of EXCEPT ![m.session] = @ \cup {c}]
          /\ Prepare(c, SessionJoinSuccess(m.session), SourcePeer)
     ELSE /\ Prepare(c, SessionJoinError, SourcePeer)
          /\ UNCHANGED <<session_list, guests_of>>

\* Debug logs the tables; a kind only the server may send is an error.
HandleNothing(c, m) ==
  /\ m.kind \in {"Debug"} \cup Replies
  /\ ReturnErr

\* unimplemented!(): the panic unwinds handle_connection, whose clean-up after
\* the select is skipped.  No mutex is held, so none is poisoned, and the
\* executor's thread survives.  Unwinding drops the queue and the socket.
HandleICEError(c, m) ==
  /\ m.kind = "ICEError"
  /\ pc' = [pc EXCEPT ![c] = "panicked"]
  /\ open' = [open EXCEPT ![c] = FALSE]
  /\ out' = [out EXCEPT ![c] = << >>]
  /\ UNCHANGED <<session_list, envelope, history>>

HandleMessage(c, m) ==
  /\ pc[c] = "serving"
  /\ received' = [received EXCEPT ![c] = m.seq]
  /\ UNCHANGED <<peer_map, user_list, addr, doomed>>
  /\ \/ /\ \/ HandleVideoOffer(c, m)
           \/ HandleVideoAnswer(c, m)
           \/ HandleIceCandidate(c, m)
           \/ HandleSessionNew(c, m)
           \/ HandleSessionJoin(c, m)
           \/ HandleNothing(c, m)
        /\ UNCHANGED <<open, out>>
     \/ HandleICEError(c, m)

(***************************************************************************)
(* What the client of c may send next.  Only SessionNew and Debug carry no *)
(* session; the identifiers that the server-only kinds carry do not        *)
(* matter, as their handler ignores them.                                  *)
(***************************************************************************)
ClientMessages(c) ==
  {m \in [kind : ClientKinds, session : SessionID \cup {None},
          by : {c}, seq : {received[c] + 1}] :
     (m.session = None) <=> (m.kind \in {"SessionNew", "Debug"} \cup Replies)}

Receive(c) ==
  /\ received[c] < MaxRequests
  /\ \E m \in ClientMessages(c) : HandleMessage(c, m)

-------------------------------------------------------------------------------
(***************************************************************************)
(* handle_message, second half: find the sender and put the message into   *)
(* its queue.  For OtherPeer the user_list mutex is held from the look-up  *)
(* of the user to the end, so both look-ups act as one step, placed at the *)
(* look-up in peer_map.  A queue whose task is gone refuses the message.   *)
(***************************************************************************)
DestinationAddr(c) ==
  IF envelope[c].dest.type = "SourcePeer" THEN addr[c] ELSE user_list[envelope[c].dest.peer]

\* The connection whose queue the message goes to, or None.
Receiver(c) ==
  IF DestinationAddr(c) = None THEN None ELSE peer_map[DestinationAddr(c)]

Enqueue(d, m) ==
  IF d # None /\ HoldsSocket(d)
  THEN out' = [out EXCEPT ![d] = Append(@, m)]
  ELSE UNCHANGED out

Deliver(c) ==
  /\ pc[c] = "sending"
  /\ Enqueue(Receiver(c), envelope[c].msg)
  /\ pc' = [pc EXCEPT ![c] = "serving"]
  /\ envelope' = [envelope EXCEPT ![c] = NoEnvelope]
  /\ UNCHANGED <<tables, addr, open, received, doomed, history>>

-------------------------------------------------------------------------------
(***************************************************************************)
(* select returns when the incoming stream has ended, or when the queue is *)
(* empty and peer_map no longer holds a sender for it.                     *)
(***************************************************************************)
SenderDropped(c) == out[c] = << >> /\ \A a \in Addr : peer_map[a] # c

\* A mutant: join in place of select waits for both directions.
LeaveAfterBoth(c) ==
  /\ pc[c] = "serving"
  /\ ~open[c] /\ SenderDropped(c)
  /\ pc' = [pc EXCEPT ![c] = "leaving"]
  /\ UNCHANGED <<tables, addr, open, out, envelope, received, doomed, history>>

Leave(c) ==
  /\ pc[c] = "serving"
  /\ ~open[c] \/ SenderDropped(c)
  /\ pc' = [pc EXCEPT ![c] = "leaving"]
  /\ UNCHANGED <<tables, addr, open, out, envelope, received, doomed, history>>

\* A mutant: the sender stays behind.
UnmapNothing(c) ==
  /\ pc[c] = "leaving"
  /\ pc' = [pc EXCEPT ![c] = "unmapped"]
  /\ UNCHANGED <<tables, addr, open, out, envelope, received, doomed, history>>

\* peer_map.remove(&addr), whatever sender is stored there by now.
UnmapPeer(c) ==
  /\ pc[c] = "leaving"
  /\ pc' = [pc EXCEPT ![c] = "unmapped"]
  /\ peer_map' = [peer_map EXCEPT ![addr[c]] = None]
  /\ UNCHANGED <<user_list, session_list, addr, open, out, envelope, received, doomed, history>>

\* A mutant: the user stays listed.
UnlistNothing(c) ==
  /\ pc[c] = "unmapped"
  /\ pc' = [pc EXCEPT ![c] = "unlisted"]
  /\ UNCHANGED <<tables, addr, open, out, envelope, received, doomed, history>>

UnlistUser(c) ==
  /\ pc[c] = "unmapped"
  /\ pc' = [pc EXCEPT ![c] = "unlisted"]
  /\ user_list' = [user_list EXCEPT ![c] = None]
  /\ UNCHANGED <<peer_map, session_list, addr, open, out, envelope, received, doomed, history>>

\* A mutant: the sessions that the user joined are closed too.
CollectJoined(c) ==
  /\ pc[c] = "unlisted"
  /\ pc' = [pc EXCEPT ![c] = "closing"]
  /\ doomed' = [doomed EXCEPT ![c] =
       {s \in SessionID : c \in {session_list[s].host, session_list[s].guest}}]
  /\ UNCHANGED <<tables, addr, open, out, envelope, received, history>>

CollectSessions(c) ==
  /\ pc[c] = "unlisted"
  /\ pc' = [pc EXCEPT ![c] = "closing"]
  /\ doomed' = [doomed EXCEPT ![c] = {s \in SessionID : session_list[s].host = c}]
  /\ UNCHANGED <<tables, addr, open, out, envelope, received, history>>

\* session_list.remove(&s): the mutex is taken anew for every session.
CloseSession(c) ==
  /\ pc[c] = "closing"
  /\ \E s \in doomed[c] :
       /\ session_list' = [session_list EXCEPT ![s] = NoSession]
       /\ doomed' = [doomed EXCEPT ![c] = @ \ {s}]
  /\ UNCHANGED <<peer_map, user_list, pc, addr, open, out, envelope, received, history>>

\* A mutant: the loop over the sessions is left early.
EndEarly(c) ==
  /\ pc[c] = "closing"
  /\ pc' = [pc EXCEPT ![c] = "ended"]
  /\ open' = [open EXCEPT ![c] = FALSE]
  /\ out' = [out EXCEPT ![c] = << >>]
  /\ UNCHANGED <<tables, addr, envelope, received, doomed, history>>

\* The task returns and drops its queue and its socket.
End(c) ==
  /\ pc[c] = "closing"
  /\ doomed[c] = {}
  /\ pc' = [pc EXCEPT ![c] = "ended"]
  /\ open' = [open EXCEPT ![c] = FALSE]
  /\ out' = [out EXCEPT ![c] = << >>]
  /\ UNCHANGED <<tables, addr, envelope, received, doomed, history>>

-------------------------------------------------------------------------------
\* The steps of c's task that wait for nobody else.
TaskStep(c) ==
  \/ ListUser(c)
  \/ ReplyWithID(c)
  \/ Deliver(c)
  \/ Leave(c)
  \/ UnmapPeer(c)
  \/ UnlistUser(c)
  \/ CollectSessions(c)
  \/ CloseSession(c)
  \/ End(c)

Next ==
  \E c \in UserID :
    \/ \E a \in Addr : Accept(c, a)
    \/ Close(c)
    \/ Receive(c)
    \/ Forward(c)
    \/ TaskStep(c)

Spec == Init /\ [][Next]_vars

(***************************************************************************)
(* The executor polls every task that can run, and no step of TaskStep     *)
(* waits for a client or for another task beyond a short critical section. *)
(* Reading a further message and a client's closing are not promised.      *)
(***************************************************************************)
FairSpec == Spec /\ \A c \in UserID : WF_vars(TaskStep(c)) /\ WF_vars(Forward(c))
-------------------------------------------------------------------------------
(* Properties. *)

Gone(c) == pc[c] \in {"ended", "panicked"}

\* No session outlives the task of its host, however the clean-up of one
\* connection interleaves with the requests of the others (clean-up after
\* select, lines 487-512).
NoSessionWithoutHost ==
  \A s \in SessionID : Exists(s) => ~Gone(session_list[s].host)

\* A task that is over has left neither its sender in peer_map nor its user in
\* user_list, even where its address already serves another connection.
TablesNameTheLiving ==
  \A c \in UserID : pc[c] = "ended" =>
    user_list[c] = None /\ \A a \in Addr : peer_map[a] # c

\* Both maps lead to a connection from its insertion to its own clean-up: the
\* clean-up of an earlier connection from the same address, which removes by
\* address, never cuts off a later one.
Registered ==
  \A c \in UserID :
    /\ pc[c] \in SetupStates \cup ServingStates \cup {"leaving"} => peer_map[addr[c]] = c
    /\ pc[c] \in {"listed", "leaving", "unmapped"} \cup ServingStates => user_list[c] = addr[c]

\* What reaches a queue concerns its owner: an offer its session's host, an
\* answer somebody who joined the session, a candidate two of its members.
\* Between the look-up of the session and the look-up of the address no lock is
\* held, and the addressee may leave and its address be taken over.
RoutedToMember ==
  \A d \in UserID : \A i \in DOMAIN out[d] : Concerns(d, out[d][i], host_of, guests_of)

\* The first message of a connection is the NewUser with its own identifier,
\* though the maps lead to its queue two steps before reply_with_id.
NewUserFirst ==
  \A c \in UserID :
    /\ pc[c] \in SetupStates => out[c] = << >>
    /\ \A i \in DOMAIN out[c] : out[c][i].kind = "NewUser" => i = 1

\* The relayed messages of one sender keep their order in every queue: the
\* client needs an offer before the candidates that follow it.
InOrder ==
  \A d \in UserID : \A i, j \in DOMAIN out[d] :
    /\ i < j
    /\ {out[d][i].kind, out[d][j].kind} \subseteq Relayed
    /\ out[d][i].by = out[d][j].by
    => out[d][i].seq < out[d][j].seq

\* A session disappears, or changes hands, only in the clean-up of its host;
\* the clean-up works from a list collected under an earlier lock.
SessionEndsWithHost ==
  [][\A s \in SessionID :
       Exists(s) /\ session_list'[s].host # session_list[s].host
         => pc[session_list[s].host] = "closing"]_vars

\* "To manage a live session between two users" (shared-protocol, lib.rs:42):
\* a guest that is being served keeps its seat as long as the session exists.
GuestKeepsSeat ==
  [][\A s \in SessionID :
       /\ session_list[s].guest # None
       /\ pc[session_list[s].guest] \in ServingStates
       /\ Exists(s)'
       => session_list'[s].guest = session_list[s].guest]_vars

\* When the connection of a host is lost, its sessions eventually disappear.
LostHostEndsSession ==
  \A s \in SessionID, c \in UserID :
    session_list[s].host = c /\ ~open[c] ~> session_list[s].host # c

\* The server keeps what Rendezvous promises: a user is present while its task
\* serves it, and what a queue receives during set-up or clean-up is lost.
Standing == [c \in UserID |-> IF pc[c] \in {"new"} \cup SetupStates THEN "absent"
                              ELSE IF pc[c] \in ServingStates THEN "present" ELSE "departed"]
Mailbox  == [c \in UserID |-> IF pc[c] \in ServingStates THEN out[c] ELSE << >>]
Sessions == {s \in SessionID : Exists(s)}

Abstract == INSTANCE Rendezvous WITH
  standing <- Standing, mailbox <- Mailbox, host <- host_of, guests <- guests_of,
  sessions <- Sessions

ImplementsRendezvous == Abstract!Spec
===============================================================================
