---------------------------- MODULE RoutingProofs ----------------------------
(***************************************************************************)
(* Where the messages of SignallingServer go, for every value of the       *)
(* constants under which addresses are not reused early, identifiers of    *)
(* sessions do not collide and nobody sends ICEError: what the browser     *)
(* client and the operating system keep to.                                *)
(*                                                                         *)
(* A message is addressed under one lock and delivered under others.  That *)
(* it still reaches its addressee, or nobody, rests on three facts: the    *)
(* envelope's addressee belongs to the session's history, which only       *)
(* grows; an entry of user_list or of peer_map belongs to a connection     *)
(* that still holds its socket; and no two such connections share an       *)
(* address.                                                                *)
(***************************************************************************)
EXTENDS SignallingServerProofs

WellBehaved == ~EarlyReuse /\ UniqueIDs /\ "ICEError" \notin ClientKinds

NoPanic == \A c \in UserID : pc[c] # "panicked"

Started(u) == pc[u] \notin {"new"} \cup SetupStates

\* m has a session and a sender where it needs them, and d is whom it concerns.
SessionKinds == Relayed \cup {"SessionReady", "SessionJoinSuccess"}

For(d, m, host, guests) ==
  /\ m.kind \in SessionKinds => m.session \in SessionID
  /\ m.kind \in Relayed => m.by \in UserID
  /\ Concerns(d, m, host, guests)

HistoryStarted ==
  \A s \in SessionID :
    /\ host_of[s] # None => Started(host_of[s])
    /\ \A g \in guests_of[s] : Started(g)

SessionsRecorded ==
  \A s \in SessionID : Exists(s) =>
    /\ session_list[s].host = host_of[s]
    /\ session_list[s].guest # None => session_list[s].guest \in guests_of[s]

Addressee(c) == IF envelope[c].dest.type = "SourcePeer" THEN c ELSE envelope[c].dest.peer

EnvelopeAddressed ==
  \A c \in UserID : pc[c] = "sending" =>
    /\ Started(Addressee(c))
    /\ envelope[c].msg.kind # "NewUser"
    /\ For(Addressee(c), envelope[c].msg, host_of, guests_of)

QueuesAddressed ==
  \A d \in UserID :
    /\ ~Started(d) => out[d] = << >>
    /\ \A i \in DOMAIN out[d] :
         /\ out[d][i].kind = "NewUser" => i = 1
         /\ For(d, out[d][i], host_of, guests_of)

RoutingInv ==
  /\ TypeOK
  /\ OwnAddress
  /\ Registered
  /\ TableEntries
  /\ NoPanic
  /\ HistoryStarted
  /\ SessionsRecorded
  /\ EnvelopeAddressed
  /\ QueuesAddressed

-------------------------------------------------------------------------------
\* A message stays addressed as the history of the sessions grows.
HistoryGrows ==
  \A s \in SessionID :
    /\ host_of[s] # None => host_of'[s] = host_of[s]
    /\ guests_of[s] \subseteq guests_of'[s]

LEMMA ForStable ==
  ASSUME HistoryGrows
  PROVE  \A d \in UserID, m \in SignalEnum :
           For(d, m, host_of, guests_of) => For(d, m, host_of', guests_of')
<1> SUFFICES ASSUME NEW d \in UserID, NEW m \in SignalEnum, For(d, m, host_of, guests_of)
             PROVE  For(d, m, host_of', guests_of')
  OBVIOUS
<1>1. d # None /\ None \notin UserID
  BY NoneIsNoIdentifier
<1>2. m.kind \in SessionKinds =>
        /\ m.session \in SessionID
        /\ \A u \in UserID :
             /\ u = host_of[m.session] => u = host_of'[m.session]
             /\ u \in guests_of[m.session] => u \in guests_of'[m.session]
  BY <1>1 DEF For, HistoryGrows
<1>3. m.kind = "IceCandidate" =>
        {d, m.by} \subseteq {host_of'[m.session]} \cup guests_of'[m.session]
  BY <1>2 DEF For, Concerns, SessionKinds, Relayed
<1> QED BY <1>2, <1>3 DEF For, Concerns, SessionKinds, Relayed

\* All steps but Receive leave the history and the envelopes of others alone.
LEMMA QuietStep ==
  ASSUME [Next]_vars, \A c \in UserID : ~Receive(c)
  PROVE  UNCHANGED history
BY DEF Next, TaskStep, Accept, ListUser, ReplyWithID, Close, Forward, Deliver, Leave, UnmapPeer,
       UnlistUser, CollectSessions, CloseSession, End, vars, history

LEMMA HistoryOfReceive ==
  ASSUME UniqueIDs, TypeOK, NEW c \in UserID, Receive(c)
  PROVE  /\ HistoryGrows
         /\ \A s \in SessionID :
              /\ host_of'[s] \in {host_of[s], c}
              /\ guests_of'[s] \subseteq guests_of[s] \cup {c}
<1>1. PICK m \in ClientMessages(c) : HandleMessage(c, m)
  BY DEF Receive
<1>2. CASE HandleSessionNew(c, m)
  <2>1. PICK s \in SessionID : host_of[s] = None /\ host_of' = [host_of EXCEPT ![s] = c]
    BY <1>2 DEF HandleSessionNew
  <2>2. guests_of' = guests_of
    BY <1>2 DEF HandleSessionNew
  <2>3. \A t \in SessionID : t # s => host_of'[t] = host_of[t]
    BY <2>1 DEF TypeOK
  <2>4. host_of'[s] = c
    BY <2>1 DEF TypeOK
  <2> QED BY <2>1, <2>2, <2>3, <2>4 DEF HistoryGrows
<1>3. CASE HandleSessionJoin(c, m)
  <2>1. CASE Exists(m.session)
    <3>1. guests_of' = [guests_of EXCEPT ![m.session] = @ \cup {c}] /\ host_of' = host_of
      BY <1>3, <2>1 DEF HandleSessionJoin
    <3>2. \A s \in SessionID : guests_of'[s] \in {guests_of[s], guests_of[s] \cup {c}}
      BY <3>1 DEF TypeOK
    <3> QED BY <3>1, <3>2 DEF HistoryGrows
  <2>2. CASE ~Exists(m.session)
    BY <1>3, <2>2 DEF HandleSessionJoin, HistoryGrows
  <2> QED BY <2>1, <2>2
<1>4. CASE ~HandleSessionNew(c, m) /\ ~HandleSessionJoin(c, m)
  <2>1. UNCHANGED history
    BY <1>1, <1>4 DEF HandleMessage, HandleVideoOffer, HandleVideoAnswer, HandleIceCandidate,
       HandleNothing, HandleICEError, ReturnErr
  <2> QED BY <2>1 DEF history, HistoryGrows
<1> QED BY <1>2, <1>3, <1>4

LEMMA HistoryNext ==
  ASSUME UniqueIDs, TypeOK, [Next]_vars
  PROVE  HistoryGrows
BY HistoryOfReceive, QuietStep DEF HistoryGrows, history

\* A task that has started never goes back.
LEMMA StartedNext ==
  ASSUME TypeOK, [Next]_vars
  PROVE  \A u \in UserID : Started(u) => Started(u)'
<1> USE DEF Started, SetupStates
<1>1. ASSUME NEW c \in UserID, LocalStep(c)
      PROVE  \A u \in UserID : Started(u) => Started(u)'
  <2>1. PICK p \in PcStates :
          /\ pc' = [pc EXCEPT ![c] = p]
          /\ p = pc[c] \/ <<pc[c], p>> \in LocalMoves
    BY <1>1, LocalEffect
  <2> QED BY <2>1 DEF TypeOK, LocalMoves, ServingStates
<1>2. ASSUME NEW c \in UserID, \/ \E a \in Addr : Accept(c, a)
                              \/ ListUser(c) \/ UnmapPeer(c) \/ UnlistUser(c)
      PROVE  \A u \in UserID : Started(u) => Started(u)'
  BY <1>2 DEF Accept, ListUser, UnmapPeer, UnlistUser, TypeOK
<1>3. CASE UNCHANGED vars
  BY <1>3 DEF vars
<1> QED BY <1>1, <1>2, <1>3 DEF Next, TaskStep, LocalStep

LEMMA NoPanicNext ==
  ASSUME "ICEError" \notin ClientKinds, TypeOK, NoPanic, [Next]_vars
  PROVE  NoPanic'
<1> USE DEF NoPanic
<1>1. ASSUME NEW c \in UserID, Receive(c) PROVE NoPanic'
  <2>1. PICK p \in ServingStates : pc' = [pc EXCEPT ![c] = p]
    BY <1>1, ReceiveEffect
  <2> QED BY <2>1 DEF TypeOK, ServingStates
<1>2. CASE \A c \in UserID : ~Receive(c)
  BY <1>2 DEF Next, TaskStep, Accept, ListUser, ReplyWithID, Close, Forward, Deliver, Leave,
     UnmapPeer, UnlistUser, CollectSessions, CloseSession, End, vars, TypeOK
<1> QED BY <1>1, <1>2

LEMMA HistoryStartedNext ==
  ASSUME UniqueIDs, TypeOK, HistoryStarted, [Next]_vars
  PROVE  HistoryStarted'
<1>1. \A u \in UserID : Started(u) => Started(u)'
  BY StartedNext
<1>2. \A s \in SessionID : host_of[s] \in UserID \cup {None} /\ guests_of[s] \subseteq UserID
  BY DEF TypeOK
<1>3. ASSUME NEW c \in UserID, Receive(c) PROVE HistoryStarted'
  <2>1. Started(c)'
    BY <1>1, <1>3, ReceiveEffect DEF Started, SetupStates
  <2>2. \A s \in SessionID :
          /\ host_of'[s] \in {host_of[s], c}
          /\ guests_of'[s] \subseteq guests_of[s] \cup {c}
    BY <1>3, HistoryOfReceive
  <2> QED BY <1>1, <1>2, <2>1, <2>2 DEF HistoryStarted
<1>4. CASE \A c \in UserID : ~Receive(c)
  <2>1. UNCHANGED <<host_of, guests_of>>
    BY <1>4, QuietStep DEF history
  <2> QED BY <1>1, <1>2, <2>1 DEF HistoryStarted
<1> QED BY <1>3, <1>4

-------------------------------------------------------------------------------
LEMMA SessionsRecordedNext ==
  ASSUME UniqueIDs, TypeOK, SessionsRecorded, [Next]_vars
  PROVE  SessionsRecorded'
<1> USE DEF SessionsRecorded, Exists
<1>1. ASSUME NEW c \in UserID, Receive(c) PROVE SessionsRecorded'
  <2>1. PICK m \in ClientMessages(c) : HandleMessage(c, m)
    BY <1>1 DEF Receive
  <2>2. HistoryGrows
    BY HistoryNext
  <2>3. CASE HandleSessionNew(c, m)
    <3>1. PICK s \in SessionID :
            /\ session_list' = [session_list EXCEPT ![s] = [host |-> c, guest |-> None]]
            /\ host_of' = [host_of EXCEPT ![s] = c]
      BY <2>3 DEF HandleSessionNew
    <3>2. guests_of' = guests_of
      BY <2>3 DEF HandleSessionNew
    <3> QED BY <3>1, <3>2 DEF TypeOK
  <2>4. CASE HandleSessionJoin(c, m) /\ Exists(m.session)
    <3>1. m.session \in SessionID
      BY <2>4, ClientMessageType DEF HandleSessionJoin, Replies
    <3>2. /\ session_list' = [session_list EXCEPT ![m.session] = [host |-> @.host, guest |-> c]]
          /\ guests_of' = [guests_of EXCEPT ![m.session] = @ \cup {c}]
          /\ host_of' = host_of
      BY <2>4 DEF HandleSessionJoin
    <3>3. /\ session_list'[m.session] = [host |-> session_list[m.session].host, guest |-> c]
          /\ c \in guests_of'[m.session]
      BY <3>1, <3>2 DEF TypeOK
    <3>4. \A t \in SessionID \ {m.session} :
            session_list'[t] = session_list[t] /\ guests_of'[t] = guests_of[t]
      BY <3>1, <3>2 DEF TypeOK
    <3> QED BY <2>4, <3>1, <3>2, <3>3, <3>4
  <2>5. CASE ~HandleSessionNew(c, m) /\ ~(HandleSessionJoin(c, m) /\ Exists(m.session))
    <3>1. session_list' = session_list
      BY <2>1, <2>5 DEF HandleMessage, HandleVideoOffer, HandleVideoAnswer, HandleIceCandidate,
         HandleSessionJoin, HandleNothing, HandleICEError, ReturnErr
    <3>2. UNCHANGED history
      BY <2>1, <2>5 DEF HandleMessage, HandleVideoOffer, HandleVideoAnswer, HandleIceCandidate,
         HandleSessionJoin, HandleNothing, HandleICEError, ReturnErr, history
    <3> QED BY <3>1, <3>2 DEF history
  <2> QED BY <2>3, <2>4, <2>5
<1>2. ASSUME NEW c \in UserID, CloseSession(c) PROVE SessionsRecorded'
  BY <1>2 DEF CloseSession, history, TypeOK
<1>3. CASE \A c \in UserID : ~Receive(c) /\ ~CloseSession(c)
  <2>1. UNCHANGED <<session_list, host_of, guests_of>>
    BY <1>3 DEF Next, TaskStep, Accept, ListUser, ReplyWithID, Close, Forward, Deliver, Leave,
       UnmapPeer, UnlistUser, CollectSessions, End, vars, tables, history
  <2> QED BY <2>1
<1> QED BY <1>1, <1>2, <1>3

\* Every handler addresses its envelope to somebody whom the message concerns.
LEMMA EnvelopeOfReceive ==
  ASSUME UniqueIDs, "ICEError" \notin ClientKinds, TypeOK, HistoryStarted, SessionsRecorded,
         NEW c \in UserID, Receive(c), pc'[c] = "sending"
  PROVE  /\ Started(Addressee(c))'
         /\ envelope'[c].msg.kind # "NewUser"
         /\ For(Addressee(c)', envelope'[c].msg, host_of', guests_of')
<1>1. PICK m \in ClientMessages(c) : HandleMessage(c, m)
  BY DEF Receive
<1>2. /\ pc[c] = "serving"
      /\ m.by = c
      /\ m.kind \notin {"SessionNew", "Debug"} \cup Replies => m.session \in SessionID
  BY <1>1, ClientMessageType DEF HandleMessage
<1>3. \A u \in UserID : Started(u) => Started(u)'
  <2>1. pc' = [pc EXCEPT ![c] = "sending"]
    BY ReceiveEffect DEF TypeOK
  <2> QED BY <2>1 DEF Started, SetupStates, TypeOK
<1>4. Started(c)'
  BY <1>2, <1>3 DEF Started, SetupStates
<1>5. \A r, dest : Prepare(c, r, dest) => envelope'[c] = [msg |-> r, dest |-> dest]
  BY DEF Prepare, TypeOK
<1>6. ~ReturnErr
  BY <1>2 DEF ReturnErr
<1> USE DEF Addressee, SourcePeer, OtherPeer, SessionKinds, Relayed, For, Concerns
<1> DEFINE s == m.session
<1>7. s \in SessionID /\ Exists(s) =>
        /\ session_list[s].host = host_of[s]
        /\ session_list[s].host \in UserID
        /\ Started(session_list[s].host)
        /\ session_list[s].guest # None =>
             /\ session_list[s].guest \in guests_of[s]
             /\ session_list[s].guest \in UserID
             /\ Started(session_list[s].guest)
  BY SessionTypes, NoneIsNoIdentifier DEF SessionsRecorded, HistoryStarted, SessionMembers
<1>8. CASE HandleVideoOffer(c, m)
  <2>1. s \in SessionID /\ Exists(s) /\ Prepare(c, m, OtherPeer(session_list[s].host))
    BY <1>2, <1>6, <1>8 DEF HandleVideoOffer, Replies
  <2>2. UNCHANGED <<host_of, guests_of>>
    BY <1>8, <2>1 DEF HandleVideoOffer, history
  <2>3. envelope'[c] = [msg |-> m, dest |-> OtherPeer(session_list[s].host)] /\ m.kind = "VideoOffer"
    BY <1>5, <1>8, <2>1 DEF HandleVideoOffer
  <2> QED BY <1>2, <1>3, <1>7, <2>1, <2>2, <2>3
<1>9. CASE HandleVideoAnswer(c, m)
  <2>1. /\ s \in SessionID /\ Exists(s) /\ session_list[s].guest # None
        /\ Prepare(c, m, OtherPeer(session_list[s].guest))
    BY <1>2, <1>6, <1>9 DEF HandleVideoAnswer, Replies
  <2>2. UNCHANGED <<host_of, guests_of>>
    BY <1>9, <2>1 DEF HandleVideoAnswer, history
  <2>3. envelope'[c] = [msg |-> m, dest |-> OtherPeer(session_list[s].guest)] /\ m.kind = "VideoAnswer"
    BY <1>5, <1>9, <2>1 DEF HandleVideoAnswer
  <2> QED BY <1>2, <1>3, <1>7, <2>1, <2>2, <2>3
<1>10. CASE HandleIceCandidate(c, m)
  <2>1. /\ s \in SessionID /\ Exists(s) /\ session_list[s].guest # None
        /\ c \in {session_list[s].guest, session_list[s].host}
        /\ Prepare(c, m, OtherPeer(CandidatePeer(c, s)))
    BY <1>2, <1>6, <1>10 DEF HandleIceCandidate, Replies
  <2>2. UNCHANGED <<host_of, guests_of>>
    BY <1>10, <2>1 DEF HandleIceCandidate, history
  <2>3. envelope'[c] = [msg |-> m, dest |-> OtherPeer(CandidatePeer(c, s))] /\ m.kind = "IceCandidate"
    BY <1>5, <1>10, <2>1 DEF HandleIceCandidate
  <2>4. /\ CandidatePeer(c, s) \in UserID /\ Started(CandidatePeer(c, s))
        /\ {CandidatePeer(c, s), c} \subseteq {host_of[s]} \cup guests_of[s]
    BY <1>7, <2>1 DEF CandidatePeer
  <2> QED BY <1>2, <1>3, <2>1, <2>2, <2>3, <2>4
<1>11. CASE HandleSessionNew(c, m)
  <2>1. PICK t \in SessionID : host_of' = [host_of EXCEPT ![t] = c] /\ Prepare(c, SessionReady(t), SourcePeer)
    BY <1>11 DEF HandleSessionNew
  <2>2. host_of'[t] = c
    BY <2>1 DEF TypeOK
  <2>3. envelope'[c] = [msg |-> SessionReady(t), dest |-> SourcePeer]
    BY <1>5, <2>1
  <2> QED BY <1>4, <2>2, <2>3 DEF SessionReady
<1>12. CASE HandleSessionJoin(c, m)
  <2>1. CASE Exists(s)
    <3>1. s \in SessionID
      BY <1>2, <1>12 DEF HandleSessionJoin, Replies
    <3>2. guests_of' = [guests_of EXCEPT ![s] = @ \cup {c}] /\ Prepare(c, SessionJoinSuccess(s), SourcePeer)
      BY <1>12, <2>1 DEF HandleSessionJoin
    <3>3. c \in guests_of'[s]
      BY <3>1, <3>2 DEF TypeOK
    <3>4. envelope'[c] = [msg |-> SessionJoinSuccess(s), dest |-> SourcePeer]
      BY <1>5, <3>2
    <3> QED BY <1>4, <3>1, <3>3, <3>4 DEF SessionJoinSuccess
  <2>2. CASE ~Exists(s)
    <3>1. Prepare(c, SessionJoinError, SourcePeer)
      BY <1>12, <2>2 DEF HandleSessionJoin
    <3>2. envelope'[c] = [msg |-> SessionJoinError, dest |-> SourcePeer]
      BY <1>5, <3>1
    <3> QED BY <1>4, <3>2 DEF SessionJoinError
  <2> QED BY <2>1, <2>2
<1>13. CASE HandleNothing(c, m) \/ HandleICEError(c, m)
  <2>1. m.kind # "ICEError"
    BY ClientMessageType
  <2> QED BY <1>6, <1>13, <2>1 DEF HandleNothing, HandleICEError
<1> QED BY <1>1, <1>8, <1>9, <1>10, <1>11, <1>12, <1>13 DEF HandleMessage

LEMMA EnvelopeAddressedNext ==
  ASSUME UniqueIDs, "ICEError" \notin ClientKinds, TypeOK, HistoryStarted, SessionsRecorded,
         EnvelopeAddressed, [Next]_vars
  PROVE  EnvelopeAddressed'
<1>1. \A u \in UserID : Started(u) => Started(u)'
  BY StartedNext
<1>2. HistoryGrows
  BY HistoryNext
<1>3. ASSUME NEW e \in UserID, pc'[e] = "sending", envelope'[e] = envelope[e], pc[e] = "sending"
      PROVE  /\ Started(Addressee(e))'
             /\ envelope'[e].msg.kind # "NewUser"
             /\ For(Addressee(e)', envelope'[e].msg, host_of', guests_of')
  <2>1. Addressee(e)' = Addressee(e) /\ Addressee(e) \in UserID
    BY <1>3 DEF Addressee, TypeOK, Destination, SourcePeer, OtherPeer
  <2>2. envelope[e].msg \in SignalEnum
    BY DEF TypeOK
  <2>3. /\ Started(Addressee(e))
        /\ envelope[e].msg.kind # "NewUser"
        /\ For(Addressee(e), envelope[e].msg, host_of, guests_of)
    BY <1>3 DEF EnvelopeAddressed
  <2>4. For(Addressee(e), envelope[e].msg, host_of', guests_of')
    BY <1>2, <2>1, <2>2, <2>3, ForStable
  <2> QED BY <1>1, <1>3, <2>1, <2>3, <2>4 DEF Started
<1>4. ASSUME NEW e \in UserID, pc'[e] = "sending", ~(envelope'[e] = envelope[e] /\ pc[e] = "sending")
      PROVE  Receive(e)
  <2>1. ASSUME NEW c \in UserID, Receive(c), c # e PROVE FALSE
    <3>1. envelope'[e] = envelope[e]
      BY <1>4, <2>1 DEF Receive, HandleMessage, HandleVideoOffer, HandleVideoAnswer,
         HandleIceCandidate, HandleSessionNew, HandleSessionJoin, HandleNothing, HandleICEError,
         Prepare, ReturnErr, TypeOK
    <3>2. pc'[e] = pc[e]
      BY <2>1, ReceiveEffect DEF TypeOK
    <3> QED BY <1>4, <3>1, <3>2
  <2>2. CASE \A c \in UserID : ~Receive(c)
    BY <1>4, <2>2 DEF Next, TaskStep, Accept, ListUser, ReplyWithID, Close, Forward, Deliver, Leave,
       UnmapPeer, UnlistUser, CollectSessions, CloseSession, End, vars, TypeOK
  <2> QED BY <2>1, <2>2
<1> QED BY <1>3, <1>4, EnvelopeOfReceive DEF EnvelopeAddressed

-------------------------------------------------------------------------------
\* The look-ups of Deliver find the addressee or nobody.
LEMMA ReceiverIsAddressee ==
  ASSUME TypeOK, OwnAddress, Registered, TableEntries, NoPanic,
         NEW c \in UserID, pc[c] = "sending", Receiver(c) # None
  PROVE  Receiver(c) = Addressee(c) /\ HoldsSocket(Addressee(c)) /\ Addressee(c) \in UserID
<1> USE DEF Addressee, Receiver, DestinationAddr
<1>1. HoldsSocket(c) /\ addr[c] \in Addr /\ peer_map[addr[c]] = c
  BY DEF HoldsSocket, OwnAddress, Registered, ServingStates
<1>2. CASE envelope[c].dest.type = "SourcePeer"
  BY <1>1, <1>2
<1>3. CASE envelope[c].dest.type # "SourcePeer"
  <2> DEFINE u == envelope[c].dest.peer
             a == user_list[u]
             d == peer_map[a]
  <2>1. u \in UserID
    BY <1>3 DEF TypeOK, Destination, SourcePeer, OtherPeer
  <2>2. a # None /\ a \in Addr /\ d # None /\ d \in UserID
    BY <1>3, <2>1 DEF TypeOK
  <2>3. a = addr[u] /\ HoldsSocket(u)
    BY <2>1, <2>2 DEF TableEntries, NoPanic, HoldsSocket, ServingStates
  <2>4. addr[d] = a /\ HoldsSocket(d)
    BY <2>2, ZenonT(60) DEF TableEntries, NoPanic, HoldsSocket, SetupStates, ServingStates
  <2>5. d = u
    BY <2>1, <2>2, <2>3, <2>4 DEF OwnAddress
  <2> QED BY <1>3, <2>1, <2>2, <2>3, <2>5
<1> QED BY <1>2, <1>3

LEMMA QueuesAddressedNext ==
  ASSUME WellBehaved, RoutingInv, [Next]_vars
  PROVE  QueuesAddressed'
<1>1. TypeOK /\ QueuesAddressed /\ "ICEError" \notin ClientKinds /\ UniqueIDs
  BY DEF RoutingInv, WellBehaved
<1>2. \A u \in UserID : Started(u) => Started(u)'
  BY <1>1, StartedNext
<1>3. \A d \in UserID, m \in SignalEnum :
        For(d, m, host_of, guests_of) => For(d, m, host_of', guests_of')
  BY <1>1, HistoryNext, ForStable
<1>4. \A d \in UserID : out[d] \in Seq(SignalEnum)
  BY <1>1 DEF TypeOK
<1>5. \A d \in UserID : \A i \in DOMAIN out[d] : out[d][i] \in SignalEnum
  BY <1>4
\* It is enough to look at each queue, and to look at those that change.
<1> DEFINE Good(d, q) ==
             \A i \in DOMAIN q : /\ q[i].kind = "NewUser" => i = 1
                               /\ For(d, q[i], host_of', guests_of')
<1>6. \A d \in UserID : Good(d, out[d])
  BY <1>1, <1>3, <1>5 DEF QueuesAddressed
<1>7. ASSUME \A d \in UserID : Good(d, out'[d]) /\ (~Started(d) => out'[d] = out[d])
      PROVE  QueuesAddressed'
  BY <1>1, <1>2, <1>7 DEF QueuesAddressed
<1> HIDE DEF Good
<1>8. CASE UNCHANGED out
  BY <1>6, <1>7, <1>8
<1>9. ASSUME NEW c \in UserID, NEW q, out' = [out EXCEPT ![c] = q], Good(c, q), Started(c)
      PROVE  QueuesAddressed'
  <2>1. \A d \in UserID : d # c => out'[d] = out[d]
    BY <1>1, <1>9 DEF TypeOK
  <2>2. out'[c] = q
    BY <1>1, <1>9 DEF TypeOK
  <2> QED BY <1>6, <1>7, <1>9, <2>1, <2>2
<1>10. ASSUME NEW c \in UserID, ReplyWithID(c) PROVE QueuesAddressed'
  <2>1. out[c] = << >>
    BY <1>1, <1>10 DEF ReplyWithID, QueuesAddressed, Started, SetupStates
  <2>2. out' = [out EXCEPT ![c] = <<NewUser(c)>>]
    BY <1>10, <2>1 DEF ReplyWithID
  <2>3. Good(c, <<NewUser(c)>>)
    BY DEF Good, For, Concerns, NewUser, SessionKinds, Relayed
  <2>4. out'[c] = <<NewUser(c)>> /\ \A d \in UserID : d # c => out'[d] = out[d]
    BY <1>1, <2>2 DEF TypeOK
  <2>5. Started(c)'
    BY <1>1, <1>10 DEF ReplyWithID, Started, SetupStates, TypeOK
  <2>6. \A d \in UserID : (~Started(d))' => out'[d] = << >>
    BY <1>1, <1>2, <2>4, <2>5 DEF QueuesAddressed
  <2>7. \A d \in UserID : Good(d, out'[d])
    BY <1>6, <2>3, <2>4
  <2> QED BY <2>6, <2>7 DEF QueuesAddressed, Good
<1>11. ASSUME NEW c \in UserID, Forward(c) PROVE QueuesAddressed'
  <2>1. out' = [out EXCEPT ![c] = Tail(out[c])] /\ Started(c) /\ out[c] # << >>
    BY <1>11 DEF Forward, Started, SetupStates
  <2>2. \A i \in DOMAIN Tail(out[c]) : i + 1 \in DOMAIN out[c] /\ Tail(out[c])[i] = out[c][i + 1] /\ i >= 1 /\ i \in Nat
    BY <1>4, <2>1
  <2>3. Good(c, Tail(out[c]))
    BY <1>6, <2>2 DEF Good
  <2> QED BY <1>9, <2>1, <2>3
<1>12. ASSUME NEW c \in UserID, Deliver(c) PROVE QueuesAddressed'
  <2> DEFINE d == Receiver(c)
             m == envelope[c].msg
  <2>1. CASE d # None /\ HoldsSocket(d)
    <3>1. d = Addressee(c) /\ d \in UserID
      BY <1>12, <2>1, ReceiverIsAddressee DEF RoutingInv, Deliver
    <3>2. Started(d) /\ m.kind # "NewUser" /\ For(d, m, host_of, guests_of) /\ m \in SignalEnum
      BY <1>12, <3>1 DEF RoutingInv, EnvelopeAddressed, Deliver, TypeOK
    <3>3. out' = [out EXCEPT ![d] = Append(out[d], m)]
      BY <1>12, <2>1 DEF Deliver, Enqueue
    <3>4. For(d, m, host_of', guests_of')
      BY <1>3, <3>1, <3>2
    <3>5. \A i \in DOMAIN Append(out[d], m) :
            Append(out[d], m)[i] = m \/ (i \in DOMAIN out[d] /\ Append(out[d], m)[i] = out[d][i])
      BY <1>4, <3>1, <3>2
    <3>6. Good(d, Append(out[d], m))
      BY <1>6, <3>1, <3>2, <3>4, <3>5 DEF Good
    <3> HIDE DEF d, m
    <3> QED BY <1>9, <3>1, <3>2, <3>3, <3>6
  <2>2. CASE ~(d # None /\ HoldsSocket(d))
    BY <1>8, <1>12, <2>2 DEF Deliver, Enqueue
  <2> QED BY <2>1, <2>2
<1>13. ASSUME NEW c \in UserID, End(c) PROVE QueuesAddressed'
  <2>1. Good(c, << >>)
    BY DEF Good
  <2> QED BY <1>9, <1>13, <2>1 DEF End, Started, SetupStates
<1>14. ASSUME NEW c \in UserID, Receive(c) PROVE QueuesAddressed'
  BY <1>1, <1>8, <1>14, ReceiveEffect
<1>15. ASSUME NEW c \in UserID,
              \/ \E a \in Addr : Accept(c, a)
              \/ ListUser(c) \/ Close(c) \/ Leave(c) \/ UnmapPeer(c) \/ UnlistUser(c)
              \/ CollectSessions(c) \/ CloseSession(c)
       PROVE QueuesAddressed'
  BY <1>8, <1>15 DEF Accept, ListUser, Close, Leave, UnmapPeer, UnlistUser, CollectSessions, CloseSession
<1>16. CASE UNCHANGED vars
  BY <1>8, <1>16 DEF vars
<1> QED BY <1>10, <1>11, <1>12, <1>13, <1>14, <1>15, <1>16 DEF Next, TaskStep

-------------------------------------------------------------------------------
LEMMA RoutingInit == Init => RoutingInv
<1> SUFFICES ASSUME Init PROVE RoutingInv
  OBVIOUS
<1>1. TypeOK
  BY TypeInit
<1>2. OwnAddress /\ Registered /\ TableEntries /\ NoPanic
  BY DEF Init, OwnAddress, Registered, TableEntries, NoPanic, HoldsSocket, SetupStates, ServingStates
<1>3. HistoryStarted /\ SessionsRecorded /\ EnvelopeAddressed
  BY DEF Init, HistoryStarted, SessionsRecorded, EnvelopeAddressed, Exists
<1>4. QueuesAddressed
  BY DEF Init, QueuesAddressed
<1> QED BY <1>1, <1>2, <1>3, <1>4 DEF RoutingInv

LEMMA RoutingNext ==
  ASSUME WellBehaved, RoutingInv, [Next]_vars
  PROVE  RoutingInv'
<1> USE DEF RoutingInv, WellBehaved
<1>1. TypeOK' /\ OwnAddress' /\ Registered' /\ TableEntries'
  BY TypeNext, OwnAddressNext, RegisteredNext, TableEntriesNext
<1>2. NoPanic' /\ HistoryStarted' /\ SessionsRecorded'
  BY NoPanicNext, HistoryStartedNext, SessionsRecordedNext
<1>3. EnvelopeAddressed' /\ QueuesAddressed'
  BY EnvelopeAddressedNext, QueuesAddressedNext
<1> QED BY <1>1, <1>2, <1>3

LEMMA RoutingInvHolds == WellBehaved => (Spec => []RoutingInv)
<1> SUFFICES ASSUME WellBehaved PROVE Spec => []RoutingInv
  OBVIOUS
<1>1. RoutingInv /\ [Next]_vars => RoutingInv'
  BY RoutingNext
<1> QED BY <1>1, RoutingInit, PTL DEF Spec

\* Every message in a queue concerns the queue's owner, though sessions are
\* looked up and messages delivered under different locks.
THEOREM MessagesReachMembers == WellBehaved => (Spec => []RoutedToMember)
<1>1. RoutingInv => RoutedToMember
  BY DEF RoutingInv, QueuesAddressed, RoutedToMember, For
<1> QED BY <1>1, RoutingInvHolds, PTL

\* A connection's first message is its own identifier.
THEOREM IdentifierFirst == WellBehaved => (Spec => []NewUserFirst)
<1>1. RoutingInv => NewUserFirst
  BY DEF RoutingInv, QueuesAddressed, NewUserFirst, Started
<1> QED BY <1>1, RoutingInvHolds, PTL

-------------------------------------------------------------------------------
(***************************************************************************)
(* Sessions end with their hosts.  The clean-up removes by a list that it  *)
(* collected earlier; what is on the list still belongs to its task.       *)
(***************************************************************************)
DoomedOwned ==
  \A c \in UserID : \A s \in doomed[c] : pc[c] = "closing" /\ host_of[s] = c

LEMMA DoomedOwnedNext ==
  ASSUME UniqueIDs, TypeOK, SessionsRecorded, DoomedOwned, [Next]_vars
  PROVE  DoomedOwned'
<1> USE DEF DoomedOwned
<1>1. \A c \in UserID : \A s \in doomed[c] : s \in SessionID /\ host_of'[s] = host_of[s]
  BY HistoryNext, NoneIsNoIdentifier DEF HistoryGrows, TypeOK
<1>2. ASSUME NEW c \in UserID, CollectSessions(c) PROVE DoomedOwned'
  <2>1. \A s \in SessionID : session_list[s].host = c => host_of[s] = c
    BY SessionTypes DEF SessionsRecorded
  <2> QED BY <1>2, <2>1 DEF CollectSessions, TypeOK, history
<1>3. ASSUME NEW c \in UserID, CloseSession(c) PROVE DoomedOwned'
  BY <1>3 DEF CloseSession, TypeOK, history
<1>4. ASSUME NEW c \in UserID, End(c) PROVE DoomedOwned'
  BY <1>4 DEF End, TypeOK, history
<1>5. ASSUME NEW c \in UserID, Receive(c) PROVE DoomedOwned'
  <2>1. doomed' = doomed /\ \A d \in UserID : pc[d] = "closing" => pc'[d] = "closing"
    BY <1>5, ReceiveEffect DEF TypeOK
  <2> QED BY <1>1, <2>1
<1>6. ASSUME NEW c \in UserID,
             \/ \E a \in Addr : Accept(c, a)
             \/ ListUser(c) \/ ReplyWithID(c) \/ Close(c) \/ Forward(c) \/ Deliver(c)
             \/ Leave(c) \/ UnmapPeer(c) \/ UnlistUser(c)
      PROVE DoomedOwned'
  <2>1. doomed' = doomed /\ \A d \in UserID : pc[d] = "closing" => pc'[d] = "closing"
    BY <1>6 DEF Accept, ListUser, ReplyWithID, Close, Forward, Deliver, Leave, UnmapPeer, UnlistUser, TypeOK
  <2> QED BY <1>1, <2>1
<1>7. CASE UNCHANGED vars
  BY <1>1, <1>7 DEF vars
<1> QED BY <1>2, <1>3, <1>4, <1>5, <1>6, <1>7 DEF Next, TaskStep

\* No step but the clean-up of its host removes a session or hands it over, as
\* long as identifiers of sessions do not collide, panics or not.
THEOREM SessionsEndWithHosts == UniqueIDs => (Spec => SessionEndsWithHost)
<1> SUFFICES ASSUME UniqueIDs PROVE Spec => SessionEndsWithHost
  OBVIOUS
<1> DEFINE Inv == TypeOK /\ SessionsRecorded /\ DoomedOwned
           Kept == \A s \in SessionID :
                     Exists(s) /\ session_list'[s].host # session_list[s].host
                       => pc[session_list[s].host] = "closing"
<1>1. Init => Inv
  BY TypeInit DEF Init, SessionsRecorded, DoomedOwned, Exists
<1>2. Inv /\ [Next]_vars => Inv'
  BY TypeNext, SessionsRecordedNext, DoomedOwnedNext
<1>3. Inv /\ [Next]_vars => [Kept]_vars
  <2> SUFFICES ASSUME Inv, Next, NEW s \in SessionID, Exists(s),
                      session_list'[s].host # session_list[s].host
               PROVE  pc[session_list[s].host] = "closing"
    OBVIOUS
  <2>1. session_list[s].host = host_of[s] /\ host_of[s] \in UserID
    BY SessionTypes DEF SessionsRecorded
  <2>2. ASSUME NEW c \in UserID, Receive(c) PROVE FALSE
    <3>1. PICK m \in ClientMessages(c) : HandleMessage(c, m)
      BY <2>2 DEF Receive
    <3>2. CASE HandleSessionNew(c, m)
      <4>1. PICK t \in SessionID :
              /\ host_of[t] = None
              /\ session_list' = [session_list EXCEPT ![t] = [host |-> c, guest |-> None]]
        BY <3>2 DEF HandleSessionNew
      <4>2. t # s
        BY <2>1, <4>1, NoneIsNoIdentifier
      <4> QED BY <4>1, <4>2 DEF TypeOK
    <3>3. CASE HandleSessionJoin(c, m) /\ Exists(m.session)
      <4>1. session_list' = [session_list EXCEPT ![m.session] = [host |-> @.host, guest |-> c]]
        BY <3>3 DEF HandleSessionJoin
      <4> QED BY <4>1 DEF TypeOK
    <3>4. CASE ~HandleSessionNew(c, m) /\ ~(HandleSessionJoin(c, m) /\ Exists(m.session))
      BY <3>1, <3>4 DEF HandleMessage, HandleVideoOffer, HandleVideoAnswer, HandleIceCandidate,
         HandleSessionJoin, HandleNothing, HandleICEError, ReturnErr
    <3> QED BY <3>2, <3>3, <3>4
  <2>3. PICK c \in UserID : CloseSession(c)
    BY <2>2 DEF Next, TaskStep, Accept, ListUser, ReplyWithID, Close, Forward, Deliver, Leave,
       UnmapPeer, UnlistUser, CollectSessions, End, tables
  <2>4. s \in doomed[c]
    BY <2>3 DEF CloseSession, TypeOK
  <2> QED BY <2>1, <2>3, <2>4 DEF DoomedOwned, CloseSession
<1> QED BY <1>1, <1>2, <1>3, PTL DEF Spec, SessionEndsWithHost

-------------------------------------------------------------------------------
(***************************************************************************)
(* The order of relayed messages, for every value of the constants, clients *)
(* that send ICEError and addresses that are reused early included.        *)
(*                                                                         *)
(* InOrder speaks of the queues alone and is not inductive: what keeps a   *)
(* message from overtaking an earlier one is that its sender's task reads  *)
(* nothing while it holds a composed reply.  A task counts what it reads,  *)
(* so the envelope it holds carries the latest count, and everything of it *)
(* in any queue an earlier one.                                            *)
(***************************************************************************)

\* The task of c holds a relayed message that it has not delivered.
Undelivered(c) == pc[c] = "sending" /\ envelope[c].msg.kind \in Relayed

Counted ==
  \A c \in UserID : Undelivered(c) =>
    envelope[c].msg.by = c /\ envelope[c].msg.seq = received[c]

Holders == {c \in UserID : Undelivered(c)}

\* m is no news, given what the tasks have read and who of them holds a message.
Earlier(m, read, holders) ==
  m.kind \in Relayed =>
    /\ m.by \in UserID
    /\ m.seq \in Nat
    /\ m.seq <= read[m.by]
    /\ m.by \in holders => m.seq < read[m.by]

QueuedEarlier ==
  \A d \in UserID : \A i \in DOMAIN out[d] : Earlier(out[d][i], received, Holders)

Ordered(q) ==
  \A i, j \in DOMAIN q :
    i < j /\ {q[i].kind, q[j].kind} \subseteq Relayed /\ q[i].by = q[j].by => q[i].seq < q[j].seq

OrderInv ==
  /\ TypeOK
  /\ Counted
  /\ QueuedEarlier
  /\ \A d \in UserID : Ordered(out[d])

-------------------------------------------------------------------------------
\* Reading a message: the count grows, and what is composed carries the count.
LEMMA CountReceive ==
  ASSUME TypeOK, NEW c \in UserID, Receive(c)
  PROVE  /\ received' = [received EXCEPT ![c] = received[c] + 1]
         /\ pc[c] = "serving"
         /\ \A e \in UserID \ {c} : envelope'[e] = envelope[e] /\ pc'[e] = pc[e]
         /\ Undelivered(c)' => envelope'[c].msg.by = c /\ envelope'[c].msg.seq = received'[c]
         /\ out' = out \/ out' = [out EXCEPT ![c] = << >>]
<1>1. PICK m \in ClientMessages(c) : HandleMessage(c, m)
  BY DEF Receive
<1>2. m.by = c /\ m.seq = received[c] + 1
  BY ClientMessageType
<1>3. received' = [received EXCEPT ![c] = received[c] + 1] /\ pc[c] = "serving"
  BY <1>1, <1>2 DEF HandleMessage
<1>4. received'[c] = received[c] + 1
  BY <1>3 DEF TypeOK
<1>5. \A e \in UserID \ {c} : envelope'[e] = envelope[e] /\ pc'[e] = pc[e]
  BY <1>1 DEF HandleMessage, HandleVideoOffer, HandleVideoAnswer, HandleIceCandidate,
     HandleSessionNew, HandleSessionJoin, HandleNothing, HandleICEError, Prepare, ReturnErr, TypeOK
<1>6. out' = out \/ out' = [out EXCEPT ![c] = << >>]
  BY <1>1 DEF HandleMessage, HandleICEError
<1>7. ASSUME Undelivered(c)' PROVE envelope'[c].msg.by = c /\ envelope'[c].msg.seq = received'[c]
  <2>1. \A r, dest : Prepare(c, r, dest) => envelope'[c].msg = r
    BY DEF Prepare, TypeOK
  <2>2. pc'[c] = "sending" /\ envelope'[c].msg.kind \in Relayed
    BY <1>7 DEF Undelivered
  <2>3. ~ReturnErr
    BY <1>3, <2>2 DEF ReturnErr
  <2>4. CASE HandleVideoOffer(c, m) \/ HandleVideoAnswer(c, m) \/ HandleIceCandidate(c, m)
    <3>1. envelope'[c].msg = m
      BY <2>1, <2>3, <2>4 DEF HandleVideoOffer, HandleVideoAnswer, HandleIceCandidate
    <3> QED BY <1>2, <1>4, <3>1
  <2>5. CASE HandleSessionNew(c, m)
    BY <2>1, <2>2, <2>5 DEF HandleSessionNew, SessionReady, Relayed
  <2>6. CASE HandleSessionJoin(c, m)
    BY <2>1, <2>2, <2>6 DEF HandleSessionJoin, SessionJoinSuccess, SessionJoinError, Relayed
  <2>7. CASE HandleNothing(c, m)
    BY <2>3, <2>7 DEF HandleNothing
  <2>8. CASE HandleICEError(c, m)
    BY <2>2, <2>8 DEF HandleICEError, TypeOK
  <2> QED BY <1>1, <2>4, <2>5, <2>6, <2>7, <2>8 DEF HandleMessage
<1> QED BY <1>3, <1>5, <1>6, <1>7

\* What counts as earlier stays earlier, except in the queue Deliver appends to.
LEMMA EarlierNext ==
  ASSUME TypeOK, [Next]_vars
  PROVE  \A m \in SignalEnum : 
           Earlier(m, received, Holders) => Earlier(m, received', Holders')
<1> SUFFICES ASSUME NEW m \in SignalEnum, m.kind \in Relayed, Earlier(m, received, Holders)
             PROVE  /\ m.seq <= received'[m.by]
                    /\ m.by \in Holders' => m.seq < received'[m.by]
  BY DEF Earlier
<1>0. m.by \in UserID /\ m.seq \in Nat /\ received[m.by] \in Nat
  BY DEF Earlier, TypeOK
<1>1. ASSUME NEW c \in UserID, Receive(c)
      PROVE  m.seq <= received'[m.by] /\ (m.by \in Holders' => m.seq < received'[m.by])
  <2>1. CASE m.by = c
    <3>1. received'[m.by] = received[m.by] + 1
      BY <1>0, <1>1, <2>1, CountReceive DEF TypeOK
    <3>2. m.seq <= received[m.by]
      BY DEF Earlier
    <3> QED BY <1>0, <3>1, <3>2
  <2>2. CASE m.by # c
    <3>1. received'[m.by] = received[m.by] /\ (m.by \in Holders' => m.by \in Holders)
      BY <1>0, <1>1, <2>2, CountReceive DEF Holders, Undelivered, TypeOK
    <3> QED BY <3>1 DEF Earlier
  <2> QED BY <2>1, <2>2
<1>2. CASE \A c \in UserID : ~Receive(c)
  <2>1. received' = received
    BY <1>2 DEF Next, TaskStep, Accept, ListUser, ReplyWithID, Close, Forward, Deliver, Leave,
       UnmapPeer, UnlistUser, CollectSessions, CloseSession, End, vars
  <2>2. \A e \in UserID : Undelivered(e)' => Undelivered(e)
    BY <1>2, ZenonT(60) DEF Next, TaskStep, Accept, ListUser, ReplyWithID, Close, Forward, Deliver, Leave,
       UnmapPeer, UnlistUser, CollectSessions, CloseSession, End, vars, Undelivered, TypeOK
  <2> QED BY <2>1, <2>2 DEF Earlier, Holders
<1> QED BY <1>1, <1>2

LEMMA CountedNext ==
  ASSUME TypeOK, Counted, [Next]_vars
  PROVE  Counted'
<1>1. ASSUME NEW c \in UserID, Receive(c) PROVE Counted'
  <2> SUFFICES ASSUME NEW e \in UserID, Undelivered(e)'
               PROVE  envelope'[e].msg.by = e /\ envelope'[e].msg.seq = received'[e]
    BY DEF Counted
  <2>1. CASE e = c
    BY <1>1, <2>1, CountReceive
  <2>2. CASE e # c
    <3>1. Undelivered(e) /\ envelope'[e] = envelope[e] /\ received'[e] = received[e]
      BY <1>1, <2>2, CountReceive DEF Undelivered, TypeOK
    <3> QED BY <3>1 DEF Counted
  <2> QED BY <2>1, <2>2
<1>2. CASE \A c \in UserID : ~Receive(c)
  <2>1. \A e \in UserID : Undelivered(e)' => Undelivered(e) /\ envelope'[e] = envelope[e]
    BY <1>2 DEF Next, TaskStep, Accept, ListUser, ReplyWithID, Close, Forward, Deliver, Leave,
       UnmapPeer, UnlistUser, CollectSessions, CloseSession, End, vars, Undelivered, TypeOK
  <2>2. received' = received
    BY <1>2 DEF Next, TaskStep, Accept, ListUser, ReplyWithID, Close, Forward, Deliver, Leave,
       UnmapPeer, UnlistUser, CollectSessions, CloseSession, End, vars
  <2> QED BY <2>1, <2>2 DEF Counted
<1> QED BY <1>1, <1>2

-------------------------------------------------------------------------------
\* A queue stays ordered if it is emptied, loses its first message, or gets a
\* message that is later than what it holds of that sender.
LEMMA OrderedTail ==
  ASSUME NEW q \in Seq(SignalEnum), q # << >>, Ordered(q)
  PROVE  Ordered(Tail(q))
<1>1. \A i \in DOMAIN Tail(q) : i \in Nat /\ i + 1 \in DOMAIN q /\ Tail(q)[i] = q[i + 1]
  OBVIOUS
<1> SUFFICES ASSUME NEW i \in DOMAIN Tail(q), NEW j \in DOMAIN Tail(q), i < j,
                    {Tail(q)[i].kind, Tail(q)[j].kind} \subseteq Relayed, Tail(q)[i].by = Tail(q)[j].by
             PROVE  Tail(q)[i].seq < Tail(q)[j].seq
  BY DEF Ordered
<1>2. i + 1 \in DOMAIN q /\ j + 1 \in DOMAIN q /\ i + 1 < j + 1
  BY <1>1
<1> QED BY <1>1, <1>2 DEF Ordered

LEMMA OrderedAppend ==
  ASSUME NEW q \in Seq(SignalEnum), NEW m \in SignalEnum, Ordered(q),
         m.kind \in Relayed => \A i \in DOMAIN q :
           q[i].kind \in Relayed /\ q[i].by = m.by => q[i].seq < m.seq
  PROVE  Ordered(Append(q, m))
<1> DEFINE r == Append(q, m)
<1>1. \A i \in DOMAIN r : i \in 1..(Len(q) + 1) /\ (i \in DOMAIN q \/ i = Len(q) + 1)
  OBVIOUS
<1>2. /\ \A i \in DOMAIN q : r[i] = q[i] /\ i \in 1..Len(q)
      /\ r[Len(q) + 1] = m
      /\ Len(q) \in Nat
  OBVIOUS
<1> HIDE DEF r
<1> SUFFICES ASSUME NEW i \in DOMAIN r, NEW j \in DOMAIN r, i < j,
                    {r[i].kind, r[j].kind} \subseteq Relayed, r[i].by = r[j].by
             PROVE  r[i].seq < r[j].seq
  BY DEF Ordered, r
<1>3. i \in DOMAIN q
  BY <1>1, <1>2
<1>4. CASE j \in DOMAIN q
  BY <1>2, <1>3, <1>4 DEF Ordered
<1>5. CASE j = Len(q) + 1
  BY <1>2, <1>3, <1>5
<1> QED BY <1>1, <1>4, <1>5

LEMMA QueuesNext ==
  ASSUME OrderInv, [Next]_vars
  PROVE  QueuedEarlier' /\ \A d \in UserID : Ordered(out'[d])
<1>1. TypeOK /\ Counted /\ QueuedEarlier /\ \A d \in UserID : Ordered(out[d])
  BY DEF OrderInv
<1>2. \A d \in UserID : out[d] \in Seq(SignalEnum)
  BY <1>1 DEF TypeOK
\* It is enough to look at the queue that changes.
<1> DEFINE Good(q) == Ordered(q) /\ \A i \in DOMAIN q : Earlier(q[i], received', Holders')
<1>3. \A d \in UserID : Good(out[d])
  <2>1. \A d \in UserID : \A i \in DOMAIN out[d] : out[d][i] \in SignalEnum
    BY <1>2
  <2> QED BY <1>1, <2>1, EarlierNext DEF QueuedEarlier
<1>4. ASSUME \A d \in UserID : Good(out'[d])
      PROVE  QueuedEarlier' /\ \A d \in UserID : Ordered(out'[d])
  BY <1>4 DEF QueuedEarlier
<1> DEFINE Goal == QueuedEarlier' /\ \A d \in UserID : Ordered(out'[d])
<1> HIDE DEF Good
<1>5. CASE UNCHANGED out
  BY <1>3, <1>4, <1>5
<1>6. ASSUME NEW d \in UserID, NEW q, out' = [out EXCEPT ![d] = q], Good(q) PROVE Goal
  <2>1. \A e \in UserID : out'[e] = IF e = d THEN q ELSE out[e]
    BY <1>1, <1>6 DEF TypeOK
  <2> QED BY <1>3, <1>4, <1>6, <2>1
<1>7. Good(<< >>)
  BY DEF Good, Ordered
<1>8. ASSUME NEW c \in UserID, Receive(c) PROVE Goal
  BY <1>1, <1>5, <1>6, <1>7, <1>8, CountReceive
<1>9. ASSUME NEW c \in UserID, Forward(c) PROVE Goal
  <2>1. out' = [out EXCEPT ![c] = Tail(out[c])] /\ out[c] # << >>
    BY <1>9 DEF Forward
  <2>2. \A i \in DOMAIN Tail(out[c]) : i + 1 \in DOMAIN out[c] /\ Tail(out[c])[i] = out[c][i + 1]
    BY <1>2, <2>1
  <2>3. Good(Tail(out[c]))
    BY <1>2, <1>3, <2>1, <2>2, OrderedTail DEF Good
  <2> QED BY <1>6, <2>1, <2>3
<1>10. ASSUME NEW d \in UserID, NEW m \in SignalEnum,
              out' = [out EXCEPT ![d] = Append(out[d], m)], Earlier(m, received', Holders'),
              m.kind \in Relayed => \A i \in DOMAIN out[d] :
                out[d][i].kind \in Relayed /\ out[d][i].by = m.by => out[d][i].seq < m.seq
       PROVE  Goal
  <2>1. \A i \in DOMAIN Append(out[d], m) :
          \/ Append(out[d], m)[i] = m
          \/ i \in DOMAIN out[d] /\ Append(out[d], m)[i] = out[d][i]
    BY <1>2, <1>10
  <2>2. Ordered(Append(out[d], m))
    BY <1>1, <1>2, <1>10, OrderedAppend
  <2>3. \A i \in DOMAIN out[d] : Earlier(out[d][i], received', Holders')
    BY <1>3 DEF Good
  <2>4. Good(Append(out[d], m))
    BY <1>10, <2>1, <2>2, <2>3 DEF Good
  <2> QED BY <1>6, <1>10, <2>4
<1>11. ASSUME NEW c \in UserID, ReplyWithID(c) PROVE Goal
  <2>1. NewUser(c) \in SignalEnum /\ NewUser(c).kind \notin Relayed
    BY ReplyTypes DEF NewUser, Relayed
  <2>2. Earlier(NewUser(c), received', Holders')
    BY <2>1 DEF Earlier
  <2> QED BY <1>10, <1>11, <2>1, <2>2 DEF ReplyWithID
<1>12. ASSUME NEW c \in UserID, Deliver(c) PROVE Goal
  <2> DEFINE d == Receiver(c)
             m == envelope[c].msg
  <2>1. CASE d # None /\ HoldsSocket(d)
    <3>1. d \in UserID /\ m \in SignalEnum
      BY <1>1, <2>1, ReceiverType DEF TypeOK
    <3>2. out' = [out EXCEPT ![d] = Append(out[d], m)] /\ pc[c] = "sending"
      BY <1>12, <2>1 DEF Deliver, Enqueue
    <3>3. m.kind \in Relayed => Undelivered(c) /\ m.by = c /\ m.seq = received[c]
      BY <1>1, <3>2 DEF Counted, Undelivered
    <3>4. Earlier(m, received', Holders')
      <4>1. received' = received /\ c \notin Holders' /\ received[c] \in Nat
        BY <1>1, <1>12 DEF Deliver, Holders, Undelivered, TypeOK
      <4> QED BY <3>1, <3>3, <4>1 DEF Earlier
    <3>5. m.kind \in Relayed => \A i \in DOMAIN out[d] :
            out[d][i].kind \in Relayed /\ out[d][i].by = m.by => out[d][i].seq < m.seq
      BY <1>1, <3>1, <3>3 DEF QueuedEarlier, Earlier, Holders
    <3> HIDE DEF d, m
    <3> QED BY <1>10, <3>1, <3>2, <3>4, <3>5
  <2>2. CASE ~(d # None /\ HoldsSocket(d))
    BY <1>5, <1>12, <2>2 DEF Deliver, Enqueue
  <2> QED BY <2>1, <2>2
<1>13. ASSUME NEW c \in UserID, End(c) PROVE Goal
  BY <1>6, <1>7, <1>13 DEF End
<1>14. ASSUME NEW c \in UserID,
              \/ \E a \in Addr : Accept(c, a)
              \/ ListUser(c) \/ Close(c) \/ Leave(c) \/ UnmapPeer(c) \/ UnlistUser(c)
              \/ CollectSessions(c) \/ CloseSession(c)
       PROVE Goal
  BY <1>5, <1>14 DEF Accept, ListUser, Close, Leave, UnmapPeer, UnlistUser, CollectSessions, CloseSession
<1>15. CASE UNCHANGED vars
  BY <1>5, <1>15 DEF vars
<1> QED BY <1>8, <1>9, <1>11, <1>12, <1>13, <1>14, <1>15 DEF Next, TaskStep

-------------------------------------------------------------------------------
\* What one sender has relayed to one receiver is never reordered: an offer
\* stays ahead of the candidates found after it, whatever the other tasks do
\* between the steps of the sender's.
THEOREM RelayedInOrder == Spec => []InOrder
<1>1. Init => OrderInv
  BY TypeInit DEF Init, OrderInv, Counted, Undelivered, QueuedEarlier, Ordered
<1>2. OrderInv /\ [Next]_vars => OrderInv'
  BY TypeNext, CountedNext, QueuesNext DEF OrderInv
<1>3. OrderInv => InOrder
  BY DEF OrderInv, Ordered, InOrder
<1> QED BY <1>1, <1>2, <1>3, PTL DEF Spec
===============================================================================
