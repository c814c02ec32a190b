--------------------------- MODULE RefinementProofs ---------------------------
(***************************************************************************)
(* SignallingServer implements Rendezvous, for every value of the          *)
(* constants that RoutingProofs admits.                                    *)
(***************************************************************************)
EXTENDS RoutingProofs

Inv == RoutingInv /\ DoomedOwned

LEMMA InvHolds == WellBehaved => (Spec => []Inv)
<1> SUFFICES ASSUME WellBehaved PROVE Spec => []Inv
  OBVIOUS
<1>1. Init => DoomedOwned
  BY DEF Init, DoomedOwned
<1>2. RoutingInv /\ DoomedOwned /\ [Next]_vars => DoomedOwned'
  BY DoomedOwnedNext DEF WellBehaved, RoutingInv
<1>3. Spec => []RoutingInv
  BY RoutingInvHolds
<1> QED BY <1>1, <1>2, <1>3, PTL DEF Spec, Inv

LEMMA InitImplements == Init => Abstract!Init
BY DEF Init, Abstract!Init, Standing, Mailbox, Sessions, Exists, ServingStates

\* The part of the state that Rendezvous sees.
Seen == <<Standing, Mailbox, host_of, guests_of, Sessions>>

\* A step that moves one task from p to q and keeps the queues is a stutter, or
\* a departure.
LEMMA StandingOf ==
  ASSUME TypeOK, NEW c \in UserID, NEW p, pc' = [pc EXCEPT ![c] = p]
  PROVE  Standing' = [Standing EXCEPT ![c] =
           IF p \in {"new"} \cup SetupStates THEN "absent"
           ELSE IF p \in ServingStates THEN "present" ELSE "departed"]
BY DEF Standing, TypeOK

LEMMA MailboxOf ==
  ASSUME TypeOK, NEW c \in UserID, NEW p, pc' = [pc EXCEPT ![c] = p],
         \A d \in UserID : d # c => out'[d] = out[d]
  PROVE  Mailbox' = [Mailbox EXCEPT ![c] = IF p \in ServingStates THEN out'[c] ELSE << >>]
BY DEF Mailbox, TypeOK

LEMMA StutterOf ==
  ASSUME TypeOK, NEW c \in UserID, NEW p, pc' = [pc EXCEPT ![c] = p],
         UNCHANGED <<out, session_list, host_of, guests_of>>,
         \/ pc[c] \in {"new"} \cup SetupStates /\ p \in {"new"} \cup SetupStates
         \/ pc[c] \in ServingStates /\ p \in ServingStates
         \/ pc[c] \in CleanupStates \cup {"ended"} /\ p \in CleanupStates \cup {"ended"}
  PROVE  UNCHANGED Seen
<1>1. Standing' = Standing
  BY DEF Standing, TypeOK, SetupStates, ServingStates, CleanupStates
<1>2. Mailbox' = Mailbox
  BY DEF Mailbox, TypeOK, SetupStates, ServingStates, CleanupStates
<1>3. Sessions' = Sessions
  BY DEF Sessions, Exists
<1> QED BY <1>1, <1>2, <1>3 DEF Seen

-------------------------------------------------------------------------------
LEMMA ReplyImplements ==
  ASSUME Inv, NEW c \in UserID, ReplyWithID(c)
  PROVE  Abstract!Arrive(c)
<1>1. TypeOK /\ out[c] = << >>
  BY DEF Inv, RoutingInv, QueuesAddressed, Started, SetupStates, ReplyWithID
<1>2. pc[c] = "listed" /\ pc' = [pc EXCEPT ![c] = "serving"] /\ out' = [out EXCEPT ![c] = <<NewUser(c)>>]
  BY <1>1 DEF ReplyWithID
<1>3. out'[c] = <<NewUser(c)>> /\ \A d \in UserID : d # c => out'[d] = out[d]
  BY <1>1, <1>2 DEF TypeOK
<1>4. Standing' = [Standing EXCEPT ![c] = "present"]
  BY <1>1, <1>2, StandingOf DEF SetupStates, ServingStates
<1>5. Mailbox' = [Mailbox EXCEPT ![c] = <<NewUser(c)>>]
  BY <1>1, <1>2, <1>3, MailboxOf DEF ServingStates
<1>6. Standing[c] = "absent"
  BY <1>2 DEF Standing, SetupStates
<1>7. UNCHANGED <<host_of, guests_of, Sessions>>
  BY DEF ReplyWithID, tables, history, Sessions, Exists
<1> QED BY <1>4, <1>5, <1>6, <1>7 DEF Abstract!Arrive, NewUser, Abstract!NewUser

LEMMA ForwardImplements ==
  ASSUME Inv, NEW c \in UserID, Forward(c)
  PROVE  Abstract!Read(c)
<1>1. TypeOK /\ pc[c] = "serving" /\ out' = [out EXCEPT ![c] = Tail(@)] /\ UNCHANGED pc /\ out[c] # << >>
  BY DEF Inv, RoutingInv, Forward
<1>2. pc' = [pc EXCEPT ![c] = "serving"]
  BY <1>1 DEF TypeOK
<1>3. out'[c] = Tail(out[c]) /\ \A d \in UserID : d # c => out'[d] = out[d]
  BY <1>1 DEF TypeOK
<1>4. Mailbox[c] = out[c] /\ Standing[c] = "present"
  BY <1>1 DEF Mailbox, Standing, ServingStates, SetupStates
<1>5. Mailbox' = [Mailbox EXCEPT ![c] = Tail(out[c])]
  BY <1>1, <1>2, <1>3, MailboxOf DEF ServingStates
<1>6. UNCHANGED <<Standing, host_of, guests_of, Sessions>>
  BY <1>1 DEF Forward, tables, history, Sessions, Exists, Standing
<1> QED BY <1>1, <1>4, <1>5, <1>6 DEF Abstract!Read, Abstract!Present

LEMMA LeaveImplements ==
  ASSUME Inv, NEW c \in UserID, Leave(c)
  PROVE  Abstract!Depart(c)
<1>1. TypeOK /\ pc[c] = "serving" /\ pc' = [pc EXCEPT ![c] = "leaving"] /\ UNCHANGED out
  BY DEF Inv, RoutingInv, Leave
<1>2. Standing' = [Standing EXCEPT ![c] = "departed"]
  BY <1>1, StandingOf DEF SetupStates, ServingStates
<1>3. Mailbox' = [Mailbox EXCEPT ![c] = << >>]
  BY <1>1, MailboxOf DEF ServingStates
<1>4. Standing[c] = "present"
  BY <1>1 DEF Standing, ServingStates, SetupStates
<1>5. UNCHANGED <<host_of, guests_of, Sessions>>
  BY DEF Leave, tables, history, Sessions, Exists
<1> QED BY <1>2, <1>3, <1>4, <1>5 DEF Abstract!Depart, Abstract!Present

\* Removing a session that is there closes it; its host has departed.
LEMMA CloseImplements ==
  ASSUME Inv, NEW c \in UserID, CloseSession(c)
  PROVE  (\E s \in SessionID : Abstract!CloseSession(s)) \/ UNCHANGED Seen
<1>1. TypeOK /\ pc[c] = "closing" /\ UNCHANGED <<pc, out, host_of, guests_of>>
  BY DEF Inv, RoutingInv, CloseSession, history
<1>2. PICK s \in doomed[c] : session_list' = [session_list EXCEPT ![s] = NoSession]
  BY DEF CloseSession
<1>3. s \in SessionID /\ host_of[s] = c
  BY <1>1, <1>2 DEF Inv, DoomedOwned, TypeOK
<1>4. Sessions' = Sessions \ {s}
  BY <1>1, <1>2, <1>3 DEF Sessions, Exists, TypeOK
<1>5. Standing[c] = "departed"
  BY <1>1 DEF Standing, SetupStates, ServingStates
<1>6. UNCHANGED <<Standing, Mailbox>>
  BY <1>1 DEF Standing, Mailbox
<1>7. CASE s \in Sessions
  BY <1>1, <1>3, <1>4, <1>5, <1>6, <1>7 DEF Abstract!CloseSession, Abstract!Present
<1>8. CASE s \notin Sessions
  BY <1>1, <1>4, <1>6, <1>8 DEF Seen
<1> QED BY <1>7, <1>8

\* Delivering to a user that is being served posts a message that concerns it;
\* what reaches the queue of a user that is leaving is lost.
LEMMA DeliverImplements ==
  ASSUME Inv, NEW c \in UserID, Deliver(c)
  PROVE  \/ \E d \in UserID : \E m \in Abstract!Contents(Mailbox'[d]) : Abstract!Post(d, m)
         \/ UNCHANGED Seen
<1> DEFINE d == Receiver(c)
           m == envelope[c].msg
<1>1. TypeOK /\ pc[c] = "sending" /\ pc' = [pc EXCEPT ![c] = "serving"]
  BY DEF Inv, RoutingInv, Deliver
<1>2. UNCHANGED <<session_list, host_of, guests_of>>
  BY DEF Deliver, tables, history
<1>3. Standing' = Standing /\ Sessions' = Sessions
  BY <1>1, <1>2 DEF Standing, Sessions, Exists, SetupStates, ServingStates, TypeOK
<1>4. \A u \in UserID : pc'[u] \in ServingStates <=> pc[u] \in ServingStates
  BY <1>1 DEF ServingStates, TypeOK
<1>5. CASE d # None /\ HoldsSocket(d)
  <2>1. d = Addressee(c) /\ d \in UserID
    BY <1>1, <1>5, ReceiverIsAddressee DEF Inv, RoutingInv
  <2>2. m.kind # "NewUser" /\ Concerns(d, m, host_of, guests_of) /\ m \in SignalEnum
    BY <1>1, <2>1 DEF Inv, RoutingInv, EnvelopeAddressed, For, TypeOK
  <2>3. out' = [out EXCEPT ![d] = Append(out[d], m)]
    BY <1>5 DEF Deliver, Enqueue
  <2>4. out[d] \in Seq(SignalEnum) /\ out'[d] = Append(out[d], m) /\ \A u \in UserID : u # d => out'[u] = out[u]
    BY <1>1, <2>1, <2>3 DEF TypeOK
  <2> HIDE DEF d, m
  <2>5. CASE pc[d] \in ServingStates
    <3>1. Mailbox' = [Mailbox EXCEPT ![d] = Append(@, m)]
      BY <1>4, <2>1, <2>4, <2>5 DEF Mailbox
    <3>2. Mailbox'[d] = Append(out[d], m)
      BY <1>4, <2>1, <2>4, <2>5 DEF Mailbox
    <3>3. m \in Abstract!Contents(Mailbox'[d])
      <4>1. Len(out[d]) + 1 \in DOMAIN Append(out[d], m) /\ Append(out[d], m)[Len(out[d]) + 1] = m
        BY <2>2, <2>4
      <4> QED BY <3>2, <4>1 DEF Abstract!Contents
    <3>4. Standing[d] = "present"
      BY <2>1, <2>5 DEF Standing, SetupStates, ServingStates
    <3>5. Abstract!Concerns(d, m, host_of, guests_of)
      BY <2>2 DEF Concerns, Abstract!Concerns
    <3>6. Abstract!Post(d, m)
      BY <1>2, <1>3, <2>2, <3>1, <3>4, <3>5 DEF Abstract!Post, Abstract!Present
    <3> QED BY <2>1, <3>3, <3>6
  <2>6. CASE pc[d] \notin ServingStates
    <3>1. Mailbox' = Mailbox
      BY <1>4, <2>4, <2>6 DEF Mailbox
    <3> QED BY <1>2, <1>3, <3>1 DEF Seen
  <2> QED BY <2>5, <2>6
<1>6. CASE ~(d # None /\ HoldsSocket(d))
  <2>1. out' = out
    BY <1>6 DEF Deliver, Enqueue
  <2>2. Mailbox' = Mailbox
    BY <1>4, <2>1 DEF Mailbox
  <2> QED BY <1>2, <1>3, <2>2 DEF Seen
<1> QED BY <1>5, <1>6

LEMMA ReceiveImplements ==
  ASSUME WellBehaved, Inv, NEW c \in UserID, Receive(c)
  PROVE  \/ \E s \in SessionID : Abstract!OpenSession(c, s) \/ Abstract!Join(c, s)
         \/ UNCHANGED Seen
<1>1. PICK m \in ClientMessages(c) : HandleMessage(c, m)
  BY DEF Receive
<1>2. TypeOK
  BY DEF Inv, RoutingInv
<1>3. PICK p \in ServingStates : pc' = [pc EXCEPT ![c] = p] /\ UNCHANGED out
  BY <1>2, ReceiveEffect DEF WellBehaved
<1>4. pc[c] = "serving"
  BY <1>2, ReceiveEffect
<1>5. UNCHANGED <<Standing, Mailbox>>
  BY <1>2, <1>3, <1>4 DEF Standing, Mailbox, SetupStates, ServingStates, TypeOK
<1>6. Standing[c] = "present"
  BY <1>4 DEF Standing, SetupStates, ServingStates
<1>7. CASE HandleSessionNew(c, m)
  <2>1. PICK s \in SessionID :
          /\ host_of[s] = None
          /\ session_list' = [session_list EXCEPT ![s] = [host |-> c, guest |-> None]]
          /\ host_of' = [host_of EXCEPT ![s] = c]
    BY <1>7 DEF HandleSessionNew, WellBehaved
  <2>2. guests_of' = guests_of
    BY <1>7 DEF HandleSessionNew
  <2>3. [host |-> c, guest |-> None] # NoSession
    BY NoneIsNoIdentifier DEF NoSession
  <2>4. Sessions' = Sessions \cup {s}
    BY <1>2, <2>1, <2>3 DEF Sessions, Exists, TypeOK
  <2> QED BY <1>5, <1>6, <2>1, <2>2, <2>4 DEF Abstract!OpenSession, Abstract!Present
<1>8. CASE HandleSessionJoin(c, m) /\ Exists(m.session)
  <2>1. m.session \in SessionID
    BY <1>2, <1>8, ClientMessageType DEF HandleSessionJoin, Replies
  <2>2. /\ session_list' = [session_list EXCEPT ![m.session] = [host |-> @.host, guest |-> c]]
        /\ guests_of' = [guests_of EXCEPT ![m.session] = @ \cup {c}]
        /\ host_of' = host_of
    BY <1>8 DEF HandleSessionJoin
  <2>3. [host |-> session_list[m.session].host, guest |-> c] # NoSession
    BY NoneIsNoIdentifier DEF NoSession
  <2>4. Sessions' = Sessions
    BY <1>2, <1>8, <2>1, <2>2, <2>3 DEF Sessions, Exists, TypeOK
  <2>5. m.session \in Sessions
    BY <1>8, <2>1 DEF Sessions
  <2> QED BY <1>5, <1>6, <2>1, <2>2, <2>4, <2>5 DEF Abstract!Join, Abstract!Present
<1>9. CASE ~HandleSessionNew(c, m) /\ ~(HandleSessionJoin(c, m) /\ Exists(m.session))
  <2>1. UNCHANGED <<session_list, host_of, guests_of>>
    BY <1>1, <1>9 DEF HandleMessage, HandleVideoOffer, HandleVideoAnswer, HandleIceCandidate,
       HandleSessionJoin, HandleNothing, HandleICEError, ReturnErr, history
  <2>2. Sessions' = Sessions
    BY <2>1 DEF Sessions, Exists
  <2> QED BY <1>5, <2>1, <2>2 DEF Seen
<1> QED BY <1>7, <1>8, <1>9

\* The steps that Rendezvous does not see.
LEMMA OtherStutters ==
  ASSUME Inv, NEW c \in UserID,
         \/ \E a \in Addr : Accept(c, a)
         \/ ListUser(c) \/ Close(c) \/ UnmapPeer(c) \/ UnlistUser(c) \/ CollectSessions(c)
  PROVE  UNCHANGED Seen
<1>1. TypeOK /\ UNCHANGED <<out, session_list, host_of, guests_of>>
  BY DEF Inv, RoutingInv, Accept, ListUser, Close, UnmapPeer, UnlistUser, CollectSessions, tables, history
<1>2. CASE Close(c)
  <2>1. UNCHANGED pc
    BY <1>2 DEF Close
  <2> QED BY <1>1, <2>1 DEF Seen, Standing, Mailbox, Sessions, Exists
<1>3. CASE (\E a \in Addr : Accept(c, a)) \/ ListUser(c)
  BY <1>1, <1>3, StutterOf DEF Accept, ListUser, SetupStates
<1>4. CASE UnmapPeer(c) \/ UnlistUser(c) \/ CollectSessions(c)
  BY <1>1, <1>4, StutterOf DEF UnmapPeer, UnlistUser, CollectSessions, CleanupStates
<1> QED BY <1>2, <1>3, <1>4

LEMMA EndStutters ==
  ASSUME Inv, NEW c \in UserID, End(c)
  PROVE  UNCHANGED Seen
<1>1. /\ TypeOK /\ pc[c] = "closing" /\ pc' = [pc EXCEPT ![c] = "ended"]
      /\ out' = [out EXCEPT ![c] = << >>] /\ UNCHANGED <<session_list, host_of, guests_of>>
  BY DEF Inv, RoutingInv, End, tables, history
<1>2. UNCHANGED <<Standing, Mailbox>>
  BY <1>1 DEF Standing, Mailbox, SetupStates, ServingStates, TypeOK
<1> QED BY <1>1, <1>2 DEF Seen, Sessions, Exists

LEMMA NextImplements ==
  ASSUME WellBehaved, Inv, [Next]_vars
  PROVE  [Abstract!Next]_(Abstract!vars)
<1>1. UNCHANGED Seen => UNCHANGED Abstract!vars
  BY DEF Abstract!vars, Seen
<1>2. CASE UNCHANGED vars
  BY <1>1, <1>2 DEF vars, tables, history, Seen, Standing, Mailbox, Sessions, Exists
<1>3. ASSUME NEW c \in UserID, ReplyWithID(c) \/ Forward(c) \/ Leave(c)
      PROVE  Abstract!Next
  BY <1>3, ReplyImplements, ForwardImplements, LeaveImplements DEF Abstract!Next
<1>4. ASSUME NEW c \in UserID, CloseSession(c) PROVE [Abstract!Next]_(Abstract!vars)
  BY <1>1, <1>4, CloseImplements DEF Abstract!Next
<1>5. ASSUME NEW c \in UserID, Deliver(c) PROVE [Abstract!Next]_(Abstract!vars)
  BY <1>1, <1>5, DeliverImplements DEF Abstract!Next
<1>6. ASSUME NEW c \in UserID, Receive(c) PROVE [Abstract!Next]_(Abstract!vars)
  BY <1>1, <1>6, ReceiveImplements DEF Abstract!Next
<1>7. ASSUME NEW c \in UserID,
             \/ \E a \in Addr : Accept(c, a)
             \/ ListUser(c) \/ Close(c) \/ UnmapPeer(c) \/ UnlistUser(c) \/ CollectSessions(c)
             \/ End(c)
      PROVE  UNCHANGED Seen
  BY <1>7, OtherStutters, EndStutters
<1> QED BY <1>1, <1>2, <1>3, <1>4, <1>5, <1>6, <1>7 DEF Next, TaskStep

\* The server keeps every promise of Rendezvous: maps, locks and tasks drop out.
THEOREM ServerImplementsRendezvous == WellBehaved => (Spec => ImplementsRendezvous)
<1> SUFFICES ASSUME WellBehaved PROVE Spec => ImplementsRendezvous
  OBVIOUS
<1>1. Init => Abstract!Init
  BY InitImplements
<1>2. Inv /\ [Next]_vars => [Abstract!Next]_(Abstract!vars)
  BY NextImplements
<1>3. Spec => []Inv
  BY InvHolds
<1> QED BY <1>1, <1>2, <1>3, PTL DEF Spec, ImplementsRendezvous, Abstract!Spec
===============================================================================
