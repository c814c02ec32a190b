------------------------ MODULE SignallingServerProofs ------------------------
(***************************************************************************)
(* Theorems about SignallingServer, for every set of users, sessions and   *)
(* addresses and for every number of messages.                             *)
(***************************************************************************)
EXTENDS SignallingServer, TLAPS

(***************************************************************************)
(* The messages, and what a client may send.                               *)
(***************************************************************************)
LEMMA ClientMessageType ==
  ASSUME TypeOK, NEW c \in UserID, NEW m \in ClientMessages(c)
  PROVE  /\ m \in SignalEnum
         /\ m.kind \in ClientKinds
         /\ m.by = c
         /\ m.seq = received[c] + 1
         /\ m.kind \notin {"SessionNew", "Debug"} \cup Replies => m.session \in SessionID
BY ConstantsAssumption DEF ClientMessages, SignalEnum, TypeOK

LEMMA ReplyTypes ==
  /\ \A u \in UserID : NewUser(u) \in SignalEnum
  /\ \A s \in SessionID : SessionReady(s) \in SignalEnum /\ SessionJoinSuccess(s) \in SignalEnum
  /\ SessionJoinError \in SignalEnum
  /\ NoEnvelope \in [msg : SignalEnum, dest : Destination]
BY DEF NewUser, SessionReady, SessionJoinSuccess, SessionJoinError, SignalEnum,
       Replies, NoEnvelope, Destination

LEMMA PrepareType ==
  ASSUME TypeOK, NEW c \in UserID, NEW m \in SignalEnum, NEW dest \in Destination,
         Prepare(c, m, dest)
  PROVE  /\ pc' \in [UserID -> PcStates]
         /\ envelope' \in [UserID -> [msg : SignalEnum, dest : Destination]]
BY DEF TypeOK, Prepare, PcStates, ServingStates

LEMMA EnqueueType ==
  ASSUME TypeOK, NEW d, d \in UserID \cup {None}, NEW m \in SignalEnum, Enqueue(d, m)
  PROVE  out' \in [UserID -> Seq(SignalEnum)]
<1>1. CASE d # None /\ HoldsSocket(d)
  <2>1. d \in UserID /\ out[d] \in Seq(SignalEnum)
    BY <1>1 DEF TypeOK
  <2>2. Append(out[d], m) \in Seq(SignalEnum)
    BY <2>1
  <2> QED BY <1>1, <2>1, <2>2 DEF TypeOK, Enqueue
<1>2. CASE ~(d # None /\ HoldsSocket(d))
  BY <1>2 DEF TypeOK, Enqueue
<1> QED BY <1>1, <1>2

\* A connection that serves, or leaves, has an address; the look-ups of Deliver
\* are within the domains of the maps.
LEMMA ReceiverType ==
  ASSUME TypeOK, NEW c \in UserID
  PROVE  Receiver(c) \in UserID \cup {None}
BY DEF Receiver, DestinationAddr, TypeOK, Destination, SourcePeer, OtherPeer

-------------------------------------------------------------------------------
\* Every variable keeps its type: no handler stores an absent user as an
\* addressee, and no look-up leaves the domain of its map.
LEMMA TypeInit == Init => TypeOK
BY ReplyTypes DEF Init, TypeOK, NoSession, SessionMembers, PcStates

LEMMA SessionTypes ==
  ASSUME TypeOK, NEW s \in SessionID
  PROVE  /\ session_list[s] \in SessionMembers \cup {NoSession}
         /\ Exists(s) <=> session_list[s].host \in UserID
         /\ Exists(s) => session_list[s] \in SessionMembers
BY NoneIsNoIdentifier DEF TypeOK, SessionMembers, NoSession, Exists

LEMMA TypeReceive ==
  ASSUME TypeOK, NEW c \in UserID, Receive(c)
  PROVE  TypeOK'
<1>1. PICK m \in ClientMessages(c) : HandleMessage(c, m)
  BY DEF Receive
<1>2. m \in SignalEnum /\ m.seq \in Nat
  BY ClientMessageType DEF SignalEnum
<1>3. received' \in [UserID -> Nat]
  BY <1>1, <1>2 DEF HandleMessage, TypeOK
<1> DEFINE Composed == \E r \in SignalEnum, dest \in Destination : Prepare(c, r, dest)
           Kept == UNCHANGED <<open, out>>
           Same == UNCHANGED <<session_list, history>>
<1>4. ASSUME Composed, Kept, Same
      PROVE  TypeOK'
  <2>1. PICK r \in SignalEnum, dest \in Destination : Prepare(c, r, dest)
    BY <1>4
  <2> QED BY <1>1, <1>3, <1>4, <2>1, PrepareType DEF HandleMessage, TypeOK, history
<1>5. ASSUME ReturnErr, Kept
      PROVE  TypeOK'
  BY <1>1, <1>3, <1>5 DEF HandleMessage, ReturnErr, TypeOK, history
<1>6. CASE HandleVideoOffer(c, m) /\ Kept
  <2>1. m.session \in SessionID
    BY <1>6, ClientMessageType DEF HandleVideoOffer, Replies
  <2>2. Exists(m.session) => OtherPeer(session_list[m.session].host) \in Destination
    BY <2>1, SessionTypes DEF Destination
  <2> QED BY <1>2, <1>4, <1>5, <1>6, <2>2 DEF HandleVideoOffer
<1>7. CASE HandleVideoAnswer(c, m) /\ Kept
  <2>1. m.session \in SessionID
    BY <1>7, ClientMessageType DEF HandleVideoAnswer, Replies
  <2>2. Exists(m.session) /\ session_list[m.session].guest # None
          => OtherPeer(session_list[m.session].guest) \in Destination
    BY <2>1, SessionTypes DEF Destination, SessionMembers
  <2> QED BY <1>2, <1>4, <1>5, <1>7, <2>2 DEF HandleVideoAnswer
<1>8. CASE HandleIceCandidate(c, m) /\ Kept
  <2>1. m.session \in SessionID
    BY <1>8, ClientMessageType DEF HandleIceCandidate, Replies
  <2>2. Exists(m.session) /\ session_list[m.session].guest # None
          => OtherPeer(CandidatePeer(c, m.session)) \in Destination
    BY <2>1, SessionTypes DEF Destination, SessionMembers, CandidatePeer
  <2> QED BY <1>2, <1>4, <1>5, <1>8, <2>2 DEF HandleIceCandidate
<1>9. CASE HandleSessionNew(c, m) /\ Kept
  <2>1. PICK s \in SessionID :
          /\ session_list' = [session_list EXCEPT ![s] = [host |-> c, guest |-> None]]
          /\ host_of' = [host_of EXCEPT ![s] = c]
          /\ Prepare(c, SessionReady(s), SourcePeer)
    BY <1>9 DEF HandleSessionNew
  <2>2. [host |-> c, guest |-> None] \in SessionMembers
    BY DEF SessionMembers
  <2>3. pc' \in [UserID -> PcStates] /\ envelope' \in [UserID -> [msg : SignalEnum, dest : Destination]]
    BY <2>1, ReplyTypes, PrepareType DEF Destination
  <2>4. guests_of' = guests_of
    BY <1>9 DEF HandleSessionNew
  <2> QED BY <1>1, <1>3, <1>9, <2>1, <2>2, <2>3, <2>4 DEF HandleMessage, TypeOK
<1>10. CASE HandleSessionJoin(c, m) /\ Kept
  <2>1. m.session \in SessionID
    BY <1>10, ClientMessageType DEF HandleSessionJoin, Replies
  <2>2. pc' \in [UserID -> PcStates] /\ envelope' \in [UserID -> [msg : SignalEnum, dest : Destination]]
    BY <1>10, <2>1, ReplyTypes, PrepareType DEF HandleSessionJoin, Destination
  <2>3. CASE Exists(m.session)
    <3>1. [host |-> session_list[m.session].host, guest |-> c] \in SessionMembers
      BY <2>1, <2>3, SessionTypes DEF SessionMembers
    <3>2. session_list' \in [SessionID -> SessionMembers \cup {NoSession}]
      BY <1>10, <2>3, <3>1 DEF HandleSessionJoin, TypeOK
    <3>3. guests_of' \in [SessionID -> SUBSET UserID]
      <4>1. guests_of' = [guests_of EXCEPT ![m.session] = @ \cup {c}]
        BY <1>10, <2>3 DEF HandleSessionJoin
      <4>2. guests_of \in [SessionID -> SUBSET UserID]
        BY DEF TypeOK
      <4> QED BY <4>1, <4>2
    <3>4. host_of' = host_of
      BY <1>10 DEF HandleSessionJoin
    <3> QED BY <1>1, <1>3, <1>10, <2>2, <3>2, <3>3, <3>4 DEF HandleMessage, TypeOK
  <2>4. CASE ~Exists(m.session)
    BY <1>1, <1>3, <1>10, <2>2, <2>4 DEF HandleSessionJoin, HandleMessage, TypeOK
  <2> QED BY <2>3, <2>4
<1>11. CASE HandleNothing(c, m) /\ Kept
  BY <1>5, <1>11 DEF HandleNothing
<1>12. CASE HandleICEError(c, m)
  BY <1>1, <1>3, <1>12 DEF HandleICEError, HandleMessage, TypeOK, PcStates, history
<1> HIDE DEF Kept
<1> QED BY <1>1, <1>6, <1>7, <1>8, <1>9, <1>10, <1>11, <1>12 DEF HandleMessage, Kept

LEMMA TypeNext == TypeOK /\ [Next]_vars => TypeOK'
<1> SUFFICES ASSUME TypeOK, [Next]_vars PROVE TypeOK'
  OBVIOUS
<1> USE DEF TypeOK
<1>1. ASSUME NEW c \in UserID, NEW a \in Addr, Accept(c, a) PROVE TypeOK'
  BY <1>1 DEF Accept, PcStates, SetupStates, history
<1>2. ASSUME NEW c \in UserID, Close(c) PROVE TypeOK'
  BY <1>2 DEF Close, tables, history
<1>3. ASSUME NEW c \in UserID, Receive(c) PROVE TypeOK'
  BY <1>3, TypeReceive
<1>4. ASSUME NEW c \in UserID, Forward(c) PROVE TypeOK'
  BY <1>4 DEF Forward, tables, history
<1>5. ASSUME NEW c \in UserID, ListUser(c) PROVE TypeOK'
  BY <1>5 DEF ListUser, PcStates, SetupStates, history
<1>6. ASSUME NEW c \in UserID, ReplyWithID(c) PROVE TypeOK'
  <2>1. Append(out[c], NewUser(c)) \in Seq(SignalEnum)
    BY ReplyTypes
  <2> QED BY <1>6, <2>1 DEF ReplyWithID, PcStates, ServingStates, tables, history
<1>7. ASSUME NEW c \in UserID, Deliver(c) PROVE TypeOK'
  <2>1. out' \in [UserID -> Seq(SignalEnum)]
    BY <1>7, ReceiverType, EnqueueType DEF Deliver
  <2> QED BY <1>7, <2>1, ReplyTypes DEF Deliver, PcStates, ServingStates, tables, history
<1>8. ASSUME NEW c \in UserID, Leave(c) PROVE TypeOK'
  BY <1>8 DEF Leave, PcStates, CleanupStates, tables, history
<1>9. ASSUME NEW c \in UserID, UnmapPeer(c) PROVE TypeOK'
  BY <1>9 DEF UnmapPeer, PcStates, CleanupStates, history
<1>10. ASSUME NEW c \in UserID, UnlistUser(c) PROVE TypeOK'
  BY <1>10 DEF UnlistUser, PcStates, CleanupStates, history
<1>11. ASSUME NEW c \in UserID, CollectSessions(c) PROVE TypeOK'
  BY <1>11 DEF CollectSessions, PcStates, CleanupStates, tables, history
<1>12. ASSUME NEW c \in UserID, CloseSession(c) PROVE TypeOK'
  BY <1>12 DEF CloseSession, history
<1>13. ASSUME NEW c \in UserID, End(c) PROVE TypeOK'
  BY <1>13 DEF End, PcStates, tables, history
<1>14. CASE UNCHANGED vars
  BY <1>14 DEF vars, tables, history
<1> QED
  BY <1>1, <1>2, <1>3, <1>4, <1>5, <1>6, <1>7, <1>8, <1>9, <1>10, <1>11, <1>12, <1>13, <1>14
  DEF Next, TaskStep

THEOREM TypeCorrect == Spec => []TypeOK
<1>1. Init => TypeOK
  BY TypeInit
<1>2. TypeOK /\ [Next]_vars => TypeOK'
  BY TypeNext
<1> QED BY <1>1, <1>2, PTL DEF Spec

-------------------------------------------------------------------------------
(***************************************************************************)
(* What reading one message may do to the state that the invariants below  *)
(* speak of.  Only an ICEError panics.                                     *)
(***************************************************************************)
LEMMA ReceiveEffect ==
  ASSUME TypeOK, NEW c \in UserID, Receive(c)
  PROVE  /\ pc[c] = "serving"
         /\ UNCHANGED <<peer_map, user_list, addr, doomed>>
         /\ \E p \in ServingStates \cup {"panicked"} :
              /\ pc' = [pc EXCEPT ![c] = p]
              /\ p = "panicked" => "ICEError" \in ClientKinds
              /\ p # "panicked" => UNCHANGED <<open, out>>
         /\ \A s \in SessionID :
              \/ session_list'[s] = session_list[s]
              \/ session_list'[s].host = c
              \/ Exists(s) /\ session_list'[s].host = session_list[s].host
<1>1. PICK m \in ClientMessages(c) : HandleMessage(c, m)
  BY DEF Receive
<1>2. pc[c] = "serving" /\ UNCHANGED <<peer_map, user_list, addr, doomed>>
  BY <1>1 DEF HandleMessage
<1>3. pc = [pc EXCEPT ![c] = "serving"]
  BY <1>2 DEF TypeOK
<1>4. \A r, dest : Prepare(c, r, dest) => pc' = [pc EXCEPT ![c] = "sending"]
  BY DEF Prepare
<1>5. ReturnErr => pc' = [pc EXCEPT ![c] = "serving"] /\ session_list' = session_list
  BY <1>3 DEF ReturnErr
<1>6. m.kind \in ClientKinds
  BY ClientMessageType
<1>7. CASE HandleICEError(c, m)
  BY <1>2, <1>6, <1>7 DEF HandleICEError
<1>8. CASE HandleSessionNew(c, m) /\ UNCHANGED <<open, out>>
  <2>1. PICK s \in SessionID :
          /\ session_list' = [session_list EXCEPT ![s] = [host |-> c, guest |-> None]]
          /\ Prepare(c, SessionReady(s), SourcePeer)
    BY <1>8 DEF HandleSessionNew
  <2>2. pc' = [pc EXCEPT ![c] = "sending"]
    BY <2>1, <1>4
  <2>3. \A t \in SessionID : session_list'[t] = session_list[t] \/ session_list'[t].host = c
    BY <2>1 DEF TypeOK
  <2> QED BY <1>2, <1>8, <2>2, <2>3 DEF ServingStates
<1>9. CASE HandleSessionJoin(c, m) /\ UNCHANGED <<open, out>>
  <2>1. pc' = [pc EXCEPT ![c] = "sending"]
    BY <1>4, <1>9 DEF HandleSessionJoin
  <2>2. CASE Exists(m.session)
    <3>1. session_list' = [session_list EXCEPT ![m.session] = [host |-> @.host, guest |-> c]]
      BY <1>9, <2>2 DEF HandleSessionJoin
    <3>2. \A t \in SessionID : t # m.session => session_list'[t] = session_list[t]
      BY <3>1 DEF TypeOK
    <3>3. m.session \in SessionID => session_list'[m.session].host = session_list[m.session].host
      BY <3>1 DEF TypeOK
    <3> QED BY <1>2, <1>9, <2>1, <2>2, <3>2, <3>3 DEF ServingStates
  <2>3. CASE ~Exists(m.session)
    BY <1>2, <1>9, <2>1, <2>3 DEF HandleSessionJoin, ServingStates
  <2> QED BY <2>2, <2>3
<1>10. CASE /\ HandleVideoOffer(c, m) \/ HandleVideoAnswer(c, m) \/ HandleIceCandidate(c, m) \/ HandleNothing(c, m)
            /\ UNCHANGED <<open, out>>
  <2>1. /\ session_list' = session_list
        /\ pc' = [pc EXCEPT ![c] = "sending"] \/ pc' = [pc EXCEPT ![c] = "serving"]
    BY <1>4, <1>5, <1>10
    DEF HandleVideoOffer, HandleVideoAnswer, HandleIceCandidate, HandleNothing
  <2> QED BY <1>2, <1>10, <2>1 DEF ServingStates
<1> QED BY <1>1, <1>7, <1>8, <1>9, <1>10 DEF HandleMessage

-------------------------------------------------------------------------------
(***************************************************************************)
(* Sessions and their hosts.  NoSessionWithoutHost is not inductive: the   *)
(* task ends when its list of sessions is used up, so while it works on    *)
(* that list, the list must hold every session of the host.  The sessions  *)
(* cannot grow behind it, because only the host's own task creates them    *)
(* and it reads no message any more.                                       *)
(***************************************************************************)
HostPresent ==
  \A s \in SessionID : Exists(s) =>
    /\ pc[session_list[s].host] \in ServingStates \cup CleanupStates
    /\ pc[session_list[s].host] = "closing" => s \in doomed[session_list[s].host]

LEMMA HostPresentInit == Init => HostPresent
BY DEF Init, HostPresent, Exists

LEMMA HostPresentNext ==
  ASSUME "ICEError" \notin ClientKinds
  PROVE  TypeOK /\ HostPresent /\ [Next]_vars => HostPresent'
<1> SUFFICES ASSUME TypeOK, HostPresent, [Next]_vars PROVE HostPresent'
  OBVIOUS
<1> USE DEF HostPresent, Exists, ServingStates, CleanupStates
<1> DEFINE Hosts(s, h) == Exists(s) /\ session_list[s].host = h
<1>0. \A s \in SessionID : Exists(s) => session_list[s].host \in UserID
  BY SessionTypes
<1>1. ASSUME NEW c \in UserID, NEW a \in Addr, Accept(c, a) PROVE HostPresent'
  BY <1>0, <1>1 DEF Accept, TypeOK
<1>2. ASSUME NEW c \in UserID, Close(c) PROVE HostPresent'
  BY <1>2 DEF Close, tables
<1>3. ASSUME NEW c \in UserID, Receive(c) PROVE HostPresent'
  <2>1. PICK p \in ServingStates : pc' = [pc EXCEPT ![c] = p]
    BY <1>3, ReceiveEffect
  <2>2. pc[c] = "serving" /\ doomed' = doomed
    BY <1>3, ReceiveEffect
  <2> SUFFICES ASSUME NEW s \in SessionID, Exists(s)'
               PROVE  /\ pc'[session_list'[s].host] \in ServingStates \cup CleanupStates
                      /\ pc'[session_list'[s].host] = "closing" => s \in doomed'[session_list'[s].host]
    OBVIOUS
  <2>3. \/ session_list'[s].host = c
        \/ Exists(s) /\ session_list'[s].host = session_list[s].host
    <3>1. \/ session_list'[s] = session_list[s]
          \/ session_list'[s].host = c
          \/ Exists(s) /\ session_list'[s].host = session_list[s].host
      BY <1>3, ReceiveEffect
    <3> QED BY <3>1
  <2>4. CASE session_list'[s].host = c
    BY <2>1, <2>4 DEF TypeOK
  <2>5. CASE Exists(s) /\ session_list'[s].host = session_list[s].host /\ session_list[s].host # c
    BY <1>0, <2>1, <2>2, <2>5 DEF TypeOK
  <2> QED BY <2>3, <2>4, <2>5
<1>4. ASSUME NEW c \in UserID, Forward(c) PROVE HostPresent'
  BY <1>4 DEF Forward, tables
<1>5. ASSUME NEW c \in UserID, ListUser(c) PROVE HostPresent'
  BY <1>0, <1>5 DEF ListUser, TypeOK
<1>6. ASSUME NEW c \in UserID, ReplyWithID(c) PROVE HostPresent'
  BY <1>0, <1>6 DEF ReplyWithID, TypeOK, tables
<1>7. ASSUME NEW c \in UserID, Deliver(c) PROVE HostPresent'
  BY <1>0, <1>7 DEF Deliver, TypeOK, tables
<1>8. ASSUME NEW c \in UserID, Leave(c) PROVE HostPresent'
  BY <1>0, <1>8 DEF Leave, TypeOK, tables
<1>9. ASSUME NEW c \in UserID, UnmapPeer(c) PROVE HostPresent'
  BY <1>0, <1>9 DEF UnmapPeer, TypeOK
<1>10. ASSUME NEW c \in UserID, UnlistUser(c) PROVE HostPresent'
  BY <1>0, <1>10 DEF UnlistUser, TypeOK
<1>11. ASSUME NEW c \in UserID, CollectSessions(c) PROVE HostPresent'
  BY <1>0, <1>11 DEF CollectSessions, TypeOK, tables
<1>12. ASSUME NEW c \in UserID, CloseSession(c) PROVE HostPresent'
  BY <1>0, <1>12 DEF CloseSession, TypeOK
<1>13. ASSUME NEW c \in UserID, End(c) PROVE HostPresent'
  BY <1>0, <1>13 DEF End, TypeOK, tables
<1>14. CASE UNCHANGED vars
  BY <1>14 DEF vars, tables
<1> QED
  BY <1>1, <1>2, <1>3, <1>4, <1>5, <1>6, <1>7, <1>8, <1>9, <1>10, <1>11, <1>12, <1>13, <1>14
  DEF Next, TaskStep

\* As long as no client sends ICEError, no session outlives its host's task:
\* even if identifiers of sessions collide and addresses are reused early.
THEOREM SessionsHaveHosts ==
  ASSUME "ICEError" \notin ClientKinds
  PROVE  Spec => []NoSessionWithoutHost
<1>1. Init => TypeOK /\ HostPresent
  BY TypeInit, HostPresentInit
<1>2. TypeOK /\ HostPresent /\ [Next]_vars => TypeOK' /\ HostPresent'
  BY TypeNext, HostPresentNext
<1>3. TypeOK /\ HostPresent => NoSessionWithoutHost
  BY DEF HostPresent, NoSessionWithoutHost, Gone, ServingStates, CleanupStates
<1> QED BY <1>1, <1>2, <1>3, PTL DEF Spec

-------------------------------------------------------------------------------
(***************************************************************************)
(* Addresses and the two maps.  The clean-up removes by address, so that   *)
(* it spares the entries of others rests on a task holding its socket, and *)
(* with it its address, to the very end.                                   *)
(***************************************************************************)
OwnAddress ==
  \A c \in UserID : HoldsSocket(c) =>
    /\ addr[c] \in Addr
    /\ \A d \in UserID : HoldsSocket(d) /\ addr[d] = addr[c] => d = c

\* The steps that change neither of the two maps, and how they move pc.
LocalStep(c) ==
  \/ Receive(c) \/ Forward(c) \/ ReplyWithID(c) \/ Deliver(c) \/ Leave(c)
  \/ CollectSessions(c) \/ CloseSession(c) \/ End(c) \/ Close(c)

LocalMoves ==
  (({"listed"} \cup ServingStates) \X ({"panicked", "leaving"} \cup ServingStates))
    \cup ({"unlisted", "closing"} \X {"closing", "ended"})

LEMMA LocalEffect ==
  ASSUME TypeOK, NEW c \in UserID, LocalStep(c)
  PROVE  /\ UNCHANGED <<peer_map, user_list, addr>>
         /\ \E p \in PcStates :
              /\ pc' = [pc EXCEPT ![c] = p]
              /\ p = pc[c] \/ <<pc[c], p>> \in LocalMoves
<1>1. pc = [pc EXCEPT ![c] = pc[c]] /\ pc[c] \in PcStates
  BY DEF TypeOK
<1> USE DEF PcStates, SetupStates, ServingStates, CleanupStates, LocalMoves
<1>2. CASE Receive(c)
  BY <1>2, ReceiveEffect
<1>3. CASE Forward(c) \/ CloseSession(c) \/ Close(c)
  BY <1>1, <1>3 DEF Forward, CloseSession, Close, tables
<1>4. CASE ReplyWithID(c) \/ Deliver(c) \/ Leave(c)
  BY <1>4 DEF ReplyWithID, Deliver, Leave, tables
<1>5. CASE CollectSessions(c) \/ End(c)
  BY <1>5 DEF CollectSessions, End, tables
<1> QED BY <1>2, <1>3, <1>4, <1>5 DEF LocalStep

LEMMA OwnAddressNext ==
  ASSUME ~EarlyReuse
  PROVE  TypeOK /\ OwnAddress /\ [Next]_vars => OwnAddress'
<1> SUFFICES ASSUME TypeOK, OwnAddress, [Next]_vars PROVE OwnAddress'
  OBVIOUS
<1> USE DEF OwnAddress, HoldsSocket
<1>1. ASSUME NEW c \in UserID, NEW a \in Addr, Accept(c, a) PROVE OwnAddress'
  BY <1>1, ConstantsAssumption DEF Accept, Free, TypeOK
<1>2. ASSUME NEW c \in UserID, LocalStep(c) PROVE OwnAddress'
  <2>1. addr' = addr
    BY <1>2, LocalEffect
  <2>2. \A d \in UserID : HoldsSocket(d)' => HoldsSocket(d)
    <3>1. PICK p \in PcStates :
            /\ pc' = [pc EXCEPT ![c] = p]
            /\ p = pc[c] \/ <<pc[c], p>> \in LocalMoves
      BY <1>2, LocalEffect
    <3> QED BY <3>1 DEF TypeOK, ServingStates, LocalMoves
  <2> QED BY <2>1, <2>2
<1>3. ASSUME NEW c \in UserID, ListUser(c) \/ UnmapPeer(c) \/ UnlistUser(c) PROVE OwnAddress'
  BY <1>3 DEF ListUser, UnmapPeer, UnlistUser, TypeOK
<1>4. CASE UNCHANGED vars
  BY <1>4 DEF vars
<1> QED BY <1>1, <1>2, <1>3, <1>4 DEF Next, TaskStep, LocalStep

LEMMA RegisteredNext ==
  ASSUME ~EarlyReuse
  PROVE  TypeOK /\ OwnAddress /\ Registered /\ [Next]_vars => Registered'
<1> SUFFICES ASSUME TypeOK, OwnAddress, Registered, [Next]_vars PROVE Registered'
  OBVIOUS
<1> USE DEF Registered, SetupStates, ServingStates
<1>1. ASSUME NEW c \in UserID, NEW a \in Addr, Accept(c, a) PROVE Registered'
  <2>1. \A d \in UserID : HoldsSocket(d) => addr[d] \in Addr \ {a}
    BY <1>1 DEF Accept, Free, OwnAddress
  <2>2. pc' = [pc EXCEPT ![c] = "accepted"] /\ addr' = [addr EXCEPT ![c] = a]
    BY <1>1 DEF Accept
  <2>3. peer_map' = [peer_map EXCEPT ![a] = c] /\ user_list' = user_list
    BY <1>1 DEF Accept
  <2>4. \A d \in UserID \ {c} : pc'[d] = pc[d] /\ addr'[d] = addr[d]
    BY <2>2 DEF TypeOK
  <2>5. pc'[c] = "accepted" /\ addr'[c] = a /\ peer_map'[a] = c
    BY <2>2, <2>3 DEF TypeOK
  <2>6. \A d \in UserID : HoldsSocket(d) => peer_map'[addr[d]] = peer_map[addr[d]]
    BY <2>1, <2>3 DEF TypeOK
  <2> QED BY <2>3, <2>4, <2>5, <2>6 DEF HoldsSocket
<1>2. ASSUME NEW c \in UserID, LocalStep(c) PROVE Registered'
  <2>1. UNCHANGED <<peer_map, user_list, addr>>
    BY <1>2, LocalEffect
  <2>2. PICK p \in PcStates :
          /\ pc' = [pc EXCEPT ![c] = p]
          /\ p = pc[c] \/ <<pc[c], p>> \in LocalMoves
    BY <1>2, LocalEffect
  <2> QED BY <2>1, <2>2 DEF TypeOK, LocalMoves
<1>3. ASSUME NEW c \in UserID, ListUser(c) PROVE Registered'
  BY <1>3 DEF ListUser, TypeOK
<1>4. ASSUME NEW c \in UserID, UnmapPeer(c) PROVE Registered'
  <2>1. \A d \in UserID \ {c} : HoldsSocket(d) => addr[d] \in Addr \ {addr[c]}
    BY <1>4 DEF UnmapPeer, OwnAddress, HoldsSocket
  <2> QED BY <1>4, <2>1 DEF UnmapPeer, HoldsSocket, TypeOK
<1>5. ASSUME NEW c \in UserID, UnlistUser(c) PROVE Registered'
  BY <1>5 DEF UnlistUser, TypeOK
<1>6. CASE UNCHANGED vars
  BY <1>6 DEF vars, tables
<1> QED BY <1>1, <1>2, <1>3, <1>4, <1>5, <1>6 DEF Next, TaskStep, LocalStep

\* If an address is given out again only after its task has ended, both maps
\* lead to every connection, from its insertion to its own clean-up, even where
\* other tasks panic and leave their entries behind.
THEOREM ConnectionsRegistered ==
  ASSUME ~EarlyReuse
  PROVE  Spec => []Registered
<1>1. Init => TypeOK /\ OwnAddress /\ Registered
  BY TypeInit DEF Init, OwnAddress, Registered, HoldsSocket, SetupStates, ServingStates
<1>2. TypeOK /\ OwnAddress /\ Registered /\ [Next]_vars => TypeOK' /\ OwnAddress' /\ Registered'
  BY TypeNext, OwnAddressNext, RegisteredNext
<1> QED BY <1>1, <1>2, PTL DEF Spec

-------------------------------------------------------------------------------
(***************************************************************************)
(* The entries of the maps, seen from the maps.  A task that panicked may  *)
(* leave its entries behind, a task that ended does not, whoever holds its *)
(* address by then.                                                        *)
(***************************************************************************)
TableEntries ==
  /\ \A u \in UserID : user_list[u] # None =>
       /\ user_list[u] = addr[u]
       /\ pc[u] \in {"listed", "leaving", "unmapped", "panicked"} \cup ServingStates
  /\ \A a \in Addr : peer_map[a] # None =>
       /\ addr[peer_map[a]] = a
       /\ pc[peer_map[a]] \in SetupStates \cup ServingStates \cup {"leaving", "panicked"}

LEMMA TableEntriesNext == TypeOK /\ TableEntries /\ [Next]_vars => TableEntries'
<1> SUFFICES ASSUME TypeOK, TableEntries, [Next]_vars PROVE TableEntries'
  OBVIOUS
<1> USE DEF TableEntries, SetupStates, ServingStates
<1>1. ASSUME NEW c \in UserID, NEW a \in Addr, Accept(c, a) PROVE TableEntries'
  <2>1. pc' = [pc EXCEPT ![c] = "accepted"] /\ addr' = [addr EXCEPT ![c] = a] /\ pc[c] = "new"
    BY <1>1 DEF Accept
  <2>2. peer_map' = [peer_map EXCEPT ![a] = c] /\ user_list' = user_list
    BY <1>1 DEF Accept
  <2> QED BY <2>1, <2>2 DEF TypeOK
<1>2. ASSUME NEW c \in UserID, LocalStep(c) PROVE TableEntries'
  <2>1. UNCHANGED <<peer_map, user_list, addr>>
    BY <1>2, LocalEffect
  <2>2. PICK p \in PcStates :
          /\ pc' = [pc EXCEPT ![c] = p]
          /\ p = pc[c] \/ <<pc[c], p>> \in LocalMoves
    BY <1>2, LocalEffect
  <2> QED BY <2>1, <2>2 DEF TypeOK, LocalMoves
<1>3. ASSUME NEW c \in UserID, ListUser(c) PROVE TableEntries'
  BY <1>3 DEF ListUser, TypeOK
<1>4. ASSUME NEW c \in UserID, UnmapPeer(c) PROVE TableEntries'
  BY <1>4 DEF UnmapPeer, TypeOK
<1>5. ASSUME NEW c \in UserID, UnlistUser(c) PROVE TableEntries'
  BY <1>5 DEF UnlistUser, TypeOK
<1>6. CASE UNCHANGED vars
  BY <1>6 DEF vars, tables
<1> QED BY <1>1, <1>2, <1>3, <1>4, <1>5, <1>6 DEF Next, TaskStep, LocalStep

\* A task that ended has left nothing in the two maps, without any assumption.
THEOREM EndedTasksForgotten == Spec => []TablesNameTheLiving
<1>1. Init => TypeOK /\ TableEntries
  BY TypeInit DEF Init, TableEntries
<1>2. TypeOK /\ TableEntries /\ [Next]_vars => TypeOK' /\ TableEntries'
  BY TypeNext, TableEntriesNext
<1>3. TableEntries => TablesNameTheLiving
  <2> SUFFICES ASSUME TableEntries, NEW c \in UserID, pc[c] = "ended"
               PROVE  user_list[c] = None /\ \A a \in Addr : peer_map[a] # c
    BY DEF TablesNameTheLiving
  <2>1. user_list[c] = None
    BY DEF TableEntries, ServingStates
  <2>2. c # None
    BY NoneIsNoIdentifier
  <2>3. ASSUME NEW a \in Addr, peer_map[a] = c PROVE FALSE
    BY <2>2, <2>3 DEF TableEntries, SetupStates, ServingStates
  <2> QED BY <2>1, <2>3
<1> QED BY <1>1, <1>2, <1>3, PTL DEF Spec
===============================================================================
