------------------------------ MODULE LocksProofs ------------------------------
(***************************************************************************)
(* Theorems about ServerLocks, for every value of the constants: its tasks *)
(* never wait for each other, and it implements SignallingServer, so that  *)
(* what is proved of the server's critical sections holds of its mutexes.  *)
(***************************************************************************)
EXTENDS ServerLocks, RefinementProofs

Finding == {"find user", "find sender", "post"}
Dumps   == {"dump users", "dump sessions"}
Formats == {"format users", "format sessions"}

\* What a task waits for, and where its connection stands, at each place.
Placed(c) ==
  /\ at[c] \in {"idle"} \cup Formats => wants[c] = None
  /\ at[c] = "look" => wants[c] = "session_list"
  /\ at[c] \in {"stranger", "find user"} => wants[c] = "user_list"
  /\ at[c] = "find sender" => wants[c] = "peer_map"
  /\ at[c] \in {"note", "post"} \cup Dumps => wants[c] = "log"
  /\ at[c] \in {"look", "stranger"} \cup Dumps \cup Formats => pc[c] = "serving"
  /\ at[c] = "note" => pc[c] \in ServingStates
  /\ at[c] \in Finding => pc[c] = "sending"
  /\ at[c] = "idle" => pc[c] # "sending"

\* Where the holder of each mutex is.
Nested(c) ==
  /\ holder["session_list"] = c => at[c] \in {"stranger", "note"}
  /\ holder["user_list"] = c => at[c] \in {"note", "find sender", "post"}
  /\ holder["peer_map"] = c => at[c] = "post"
  /\ holder["log"] = c => at[c] \in Formats

\* A message that waits to be looked up is one the client may send next.
Pending(c) ==
  at[c] = "look" =>
    /\ received[c] < MaxRequests
    /\ request[c] \in ClientMessages(c)
    /\ request[c].kind \in LookedUp

\* A connection that was accepted has an address.
AddrKnown(c) == pc[c] # "new" => addr[c] \in Addr

\* What was read under a mutex that is still held is still there.
Fresh(c) ==
  /\ at[c] = "find user" => envelope[c].dest.type = "OtherPeer"
  /\ /\ at[c] \in {"find sender", "post"}
     /\ envelope[c].dest.type = "OtherPeer"
     => /\ holder["user_list"] = c
        /\ socket[c] = user_list[envelope[c].dest.peer]
        /\ at[c] = "find sender" => socket[c] # None
  /\ at[c] = "post" =>
       /\ sender[c] = Receiver(c)
       /\ DestinationAddr(c) # None => holder["peer_map"] = c
  /\ at[c] # "post" => sender[c] = None

Good(c) == Placed(c) /\ Nested(c) /\ Pending(c) /\ AddrKnown(c) /\ Fresh(c)

LockInv == LocksTypeOK /\ \A c \in UserID : Good(c)

-------------------------------------------------------------------------------
LEMMA LockInitInv == LockInit => LockInv
<1> SUFFICES ASSUME LockInit PROVE LockInv
  OBVIOUS
<1> USE NoneIsNoIdentifier DEF LockInit
<1>1. TypeOK
  BY TypeInit
<1>2. SessionJoinError \in SignalEnum
  BY ReplyTypes
<1>3. LocksTypeOK
  BY <1>1, <1>2 DEF LocksTypeOK, Mutex, Places
<1>4. \A c \in UserID : Good(c)
  BY DEF Init, Good, Placed, Nested, Pending, AddrKnown, Fresh, Finding, Dumps, Formats, Mutex
<1> QED BY <1>3, <1>4 DEF LockInv

\* What HandleMessage does to the task, for the kinds that are looked up and for
\* the others.
LEMMA LookedUpEffect ==
  ASSUME TypeOK, NEW c \in UserID, NEW m \in ClientMessages(c), HandleMessage(c, m),
         m.kind \in LookedUp
  PROVE  /\ pc[c] = "serving"
         /\ UNCHANGED <<peer_map, user_list, addr>>
         /\ \E p \in ServingStates : pc' = [pc EXCEPT ![c] = p]
         /\ \A d \in UserID : d # c => envelope'[d] = envelope[d] /\ received'[d] = received[d]
         /\ Misaligned(c, m) => pc' = pc
<1>1. /\ pc[c] = "serving"
      /\ UNCHANGED <<peer_map, user_list, addr>>
      /\ received' = [received EXCEPT ![c] = m.seq]
  BY DEF HandleMessage
<1>2. m.kind # "ICEError"
  BY DEF LookedUp, Relayed
<1>3. pc = [pc EXCEPT ![c] = "serving"]
  BY <1>1 DEF TypeOK
<1>4. ASSUME NEW r, NEW dest, Prepare(c, r, dest)
      PROVE  /\ pc' = [pc EXCEPT ![c] = "sending"]
             /\ \A d \in UserID : d # c => envelope'[d] = envelope[d]
  BY <1>4 DEF Prepare, TypeOK
<1>5. /\ \E p \in ServingStates : pc' = [pc EXCEPT ![c] = p]
      /\ \A d \in UserID : d # c => envelope'[d] = envelope[d]
  BY <1>2, <1>3, <1>4 DEF HandleMessage, HandleVideoOffer, HandleVideoAnswer,
     HandleIceCandidate, HandleSessionNew, HandleSessionJoin, HandleNothing,
     HandleICEError, ReturnErr, ServingStates
<1>6. Misaligned(c, m) => pc' = pc
  BY <1>2 DEF Misaligned, HandleMessage, HandleVideoOffer, HandleVideoAnswer,
     HandleIceCandidate, HandleSessionNew, HandleSessionJoin, HandleNothing,
     HandleICEError, ReturnErr, Replies
<1> QED BY <1>1, <1>5, <1>6 DEF TypeOK

LEMMA OtherKindsEffect ==
  ASSUME TypeOK, NEW c \in UserID, NEW m \in ClientMessages(c), HandleMessage(c, m),
         m.kind \notin LookedUp
  PROVE  /\ UNCHANGED <<peer_map, user_list, addr, envelope>>
         /\ pc' = pc \/ (m.kind = "ICEError" /\ pc' = [pc EXCEPT ![c] = "panicked"])
         /\ \A d \in UserID : d # c => received'[d] = received[d]
<1>1. /\ UNCHANGED <<peer_map, user_list, addr>>
      /\ received' = [received EXCEPT ![c] = m.seq]
  BY DEF HandleMessage
<1>2. HandleNothing(c, m) \/ HandleICEError(c, m)
  BY DEF HandleMessage, HandleVideoOffer, HandleVideoAnswer, HandleIceCandidate,
     HandleSessionNew, HandleSessionJoin, LookedUp, Relayed
<1>3. UNCHANGED envelope /\ (pc' = pc \/ (m.kind = "ICEError" /\ pc' = [pc EXCEPT ![c] = "panicked"]))
  BY <1>2 DEF HandleNothing, HandleICEError, ReturnErr
<1> QED BY <1>1, <1>3 DEF TypeOK
-------------------------------------------------------------------------------
(***************************************************************************)
(* Every step is one of SignallingServer, or none of its business.         *)
(***************************************************************************)
LEMMA PostDelivers ==
  ASSUME LockInv, NEW c \in UserID, Post(c)
  PROVE  Deliver(c)
<1>1. Placed(c) /\ Fresh(c) /\ at[c] = "post"
  BY DEF LockInv, Good, Post
<1>2. pc[c] = "sending" /\ sender[c] = Receiver(c)
  BY <1>1 DEF Placed, Fresh, Finding
<1> QED BY <1>2 DEF Post, Deliver

LEMMA HandlerStepImplements ==
  ASSUME LockInv, NEW c \in UserID, ReadMessage(c) \/ HandlerStep(c)
  PROVE  Receive(c) \/ Deliver(c) \/ UNCHANGED vars
<1>1. CASE ReadMessage(c)
  BY <1>1 DEF ReadMessage, Receive
<1>2. CASE Look(c)
  <2>1. received[c] < MaxRequests /\ request[c] \in ClientMessages(c)
    BY <1>2 DEF Look, LockInv, Good, Pending
  <2> QED BY <1>2, <2>1 DEF Look, Receive
<1>3. CASE Post(c)
  BY <1>3, PostDelivers
<1>4. CASE \/ Stranger(c) \/ Note(c) \/ FindUser(c) \/ FindSender(c)
  BY <1>4 DEF Stranger, Note, FindUser, FindSender
<1>5. CASE \/ DumpUsers(c) \/ FormatUsers(c) \/ DumpSessions(c) \/ FormatSessions(c)
  BY <1>5 DEF DumpUsers, FormatUsers, DumpSessions, FormatSessions, Dumping, Formatted
<1> QED BY <1>1, <1>2, <1>3, <1>4, <1>5 DEF HandlerStep

LEMMA StepImplements == LockInv /\ [LockNext]_allVars => [Next]_vars
<1> SUFFICES ASSUME LockInv, [LockNext]_allVars PROVE [Next]_vars
  OBVIOUS
<1>1. CASE UNCHANGED allVars
  BY <1>1 DEF allVars
<1>2. ASSUME NEW c \in UserID, ReadMessage(c) \/ HandlerStep(c) PROVE [Next]_vars
  BY <1>2, HandlerStepImplements DEF Next, TaskStep
<1>3. ASSUME NEW c \in UserID, LockedAccept(c) \/ Close(c) \/ ForwardIdle(c) \/ ConnectionStep(c)
      PROVE  [Next]_vars
  BY <1>3 DEF LockedAccept, ForwardIdle, ConnectionStep, Next, TaskStep
<1> QED BY <1>1, <1>2, <1>3 DEF LockNext

-------------------------------------------------------------------------------
(***************************************************************************)
(* What one task does leaves the others where they are, with the mutexes   *)
(* they hold and with what these protect.                                  *)
(***************************************************************************)
OthersKept(c) ==
  /\ \A d \in UserID \ {c} :
       /\ at'[d] = at[d] /\ wants'[d] = wants[d] /\ request'[d] = request[d]
       /\ socket'[d] = socket[d] /\ sender'[d] = sender[d]
       /\ pc'[d] = pc[d] /\ addr'[d] = addr[d]
       /\ envelope'[d] = envelope[d] /\ received'[d] = received[d]
       /\ \A l \in Mutex : holder'[l] = d <=> holder[l] = d
       /\ holder["peer_map"] = d => peer_map' = peer_map
       /\ holder["user_list"] = d => user_list' = user_list

LEMMA OthersStayGood ==
  ASSUME LockInv, NEW c \in UserID, OthersKept(c), NEW d \in UserID \ {c}
  PROVE  Good(d)'
<1>1. Good(d) /\ TypeOK
  BY DEF LockInv, LocksTypeOK
<1>2. Placed(d)'
  BY <1>1 DEF Good, Placed, OthersKept
<1>3. Nested(d)'
  BY <1>1 DEF Good, Nested, OthersKept, Mutex
<1>4. Pending(d)'
  <2>1. ClientMessages(d)' = ClientMessages(d)
    BY DEF ClientMessages, OthersKept
  <2> QED BY <1>1, <2>1 DEF Good, Pending, OthersKept
<1>5. AddrKnown(d)'
  BY <1>1 DEF Good, AddrKnown, OthersKept
<1>6. Fresh(d)'
  <2>1. CASE at[d] \notin {"find sender", "post"}
    BY <1>1, <2>1 DEF Good, Fresh, OthersKept
  <2>2. CASE at[d] = "find sender"
    BY <1>1, <2>2 DEF Good, Fresh, OthersKept, Mutex
  <2>3. CASE at[d] = "post"
    <3>1. at'[d] = "post" /\ envelope'[d] = envelope[d]
      BY <2>3 DEF OthersKept
    <3>2. pc[d] = "sending" /\ addr[d] \in Addr /\ addr'[d] = addr[d]
      BY <1>1, <2>3 DEF Good, Placed, Finding, AddrKnown, OthersKept
    <3>3. DestinationAddr(d)' = DestinationAddr(d)
      <4>1. envelope[d].dest.type \in {"SourcePeer", "OtherPeer"}
        BY <1>1 DEF TypeOK, Destination, SourcePeer, OtherPeer
      <4>2. CASE envelope[d].dest.type = "SourcePeer"
        BY <3>1, <3>2, <4>2 DEF DestinationAddr
      <4>3. CASE envelope[d].dest.type = "OtherPeer"
        BY <1>1, <2>3, <3>1, <4>3 DEF Good, Fresh, OthersKept, DestinationAddr
      <4> QED BY <4>1, <4>2, <4>3
    <3>4. Receiver(d)' = Receiver(d)
      BY <1>1, <2>3, <3>3 DEF Good, Fresh, OthersKept, Receiver
    <3> QED BY <1>1, <2>3, <3>1, <3>3, <3>4 DEF Good, Fresh, OthersKept, Mutex
  <2> QED BY <2>1, <2>2, <2>3
<1> QED BY <1>2, <1>3, <1>4, <1>5, <1>6 DEF Good

-------------------------------------------------------------------------------
(***************************************************************************)
(* What a task does leaves itself in order too, action by action.          *)
(***************************************************************************)
LockTypes ==
  /\ holder \in [Mutex -> UserID \cup {None}]
  /\ at \in [UserID -> Places]
  /\ wants \in [UserID -> Mutex \cup {None}]
  /\ request \in [UserID -> SignalEnum]
  /\ socket \in [UserID -> Addr \cup {None}]
  /\ sender \in [UserID -> UserID \cup {None}]

Kept(c) == OthersKept(c) /\ Good(c)' /\ LockTypes'

LEMMA TakeEffect ==
  ASSUME LockInv, NEW c \in UserID, wants[c] \in Mutex, CanGo(c), Take(c)
  PROVE  /\ holder' \in [Mutex -> UserID \cup {None}]
         /\ \A l \in Mutex : holder'[l] = c <=> holder[l] = c \/ l = wants[c]
         /\ \A d \in UserID \ {c}, l \in Mutex : holder'[l] = d <=> holder[l] = d
BY NoneIsNoIdentifier, NoneIsNoMutex DEF CanGo, Take, Unlocked, LockInv, LocksTypeOK, Mutex

LEMMA DropEffect ==
  ASSUME LockInv, NEW c \in UserID, DropGuards(c)
  PROVE  /\ holder' \in [Mutex -> UserID \cup {None}]
         /\ \A l \in Mutex : holder'[l] # c
         /\ \A d \in UserID \ {c}, l \in Mutex : holder'[l] = d <=> holder[l] = d
BY NoneIsNoIdentifier DEF DropGuards, LockInv, LocksTypeOK, Mutex

LEMMA GotoEffect ==
  ASSUME LockInv, NEW c \in UserID, NEW p \in Places, NEW l \in Mutex \cup {None}, Goto(c, p, l)
  PROVE  /\ at' \in [UserID -> Places] /\ wants' \in [UserID -> Mutex \cup {None}]
         /\ at'[c] = p /\ wants'[c] = l
         /\ \A d \in UserID \ {c} : at'[d] = at[d] /\ wants'[d] = wants[d]
BY DEF Goto, LockInv, LocksTypeOK

\* Where the match on the destination leads.
LEMMA AfterMatchEffect ==
  ASSUME LockInv, NEW c \in UserID, NEW sending \in BOOLEAN, NEW dest \in Destination,
         AfterMatch(c, sending, dest)
  PROVE  /\ at' \in [UserID -> Places] /\ wants' \in [UserID -> Mutex \cup {None}]
         /\ \A d \in UserID \ {c} : at'[d] = at[d] /\ wants'[d] = wants[d]
         /\ \/ ~sending /\ at'[c] = "idle" /\ wants'[c] = None
            \/ sending /\ dest.type = "OtherPeer" /\ at'[c] = "find user" /\ wants'[c] = "user_list"
            \/ sending /\ dest.type # "OtherPeer" /\ at'[c] = "find sender" /\ wants'[c] = "peer_map"
<1>1. CASE ~sending
  BY <1>1 DEF AfterMatch, Goto, LockInv, LocksTypeOK, Places
<1>2. CASE sending /\ dest.type = "OtherPeer"
  BY <1>2 DEF AfterMatch, Goto, LockInv, LocksTypeOK, Places, Mutex
<1>3. CASE sending /\ dest.type # "OtherPeer"
  BY <1>3 DEF AfterMatch, Goto, LockInv, LocksTypeOK, Places, Mutex
<1> QED BY <1>1, <1>2, <1>3

\* The steps that only move within handle_message.
LEMMA StrangerKeeps ==
  ASSUME LockInv, NEW c \in UserID, Stranger(c)
  PROVE  Kept(c)
<1>1. Good(c) /\ at[c] = "stranger" /\ wants[c] = "user_list" /\ pc[c] = "serving"
  BY DEF LockInv, Good, Placed, Stranger
<1>2. /\ holder' \in [Mutex -> UserID \cup {None}]
      /\ \A l \in Mutex : holder'[l] = c <=> holder[l] = c \/ l = "user_list"
      /\ \A d \in UserID \ {c}, l \in Mutex : holder'[l] = d <=> holder[l] = d
  BY <1>1, TakeEffect DEF Stranger, Mutex
<1>3. /\ at' \in [UserID -> Places] /\ wants' \in [UserID -> Mutex \cup {None}]
      /\ at'[c] = "note" /\ wants'[c] = "log"
      /\ \A d \in UserID \ {c} : at'[d] = at[d] /\ wants'[d] = wants[d]
  BY GotoEffect DEF Stranger, Mutex, Places
<1>4. UNCHANGED <<vars, request, socket, sender>>
  BY DEF Stranger
<1>5. OthersKept(c) /\ LockTypes'
  BY <1>2, <1>3, <1>4 DEF OthersKept, LockTypes, vars, tables, LockInv, LocksTypeOK
<1>6. Good(c)'
  BY <1>1, <1>2, <1>3, <1>4
  DEF Good, Placed, Nested, Pending, AddrKnown, Fresh, vars, tables, Mutex,
      ServingStates, Finding, Dumps, Formats
<1> QED BY <1>5, <1>6 DEF Kept

LEMMA NoteKeeps ==
  ASSUME LockInv, NEW c \in UserID, Note(c)
  PROVE  Kept(c)
<1>1. Good(c) /\ at[c] = "note" /\ pc[c] \in ServingStates
  BY DEF LockInv, Good, Placed, Note
<1>2. /\ holder' \in [Mutex -> UserID \cup {None}]
      /\ \A l \in Mutex : holder'[l] # c
      /\ \A d \in UserID \ {c}, l \in Mutex : holder'[l] = d <=> holder[l] = d
  BY DropEffect DEF Note
<1>3. envelope[c].dest \in Destination
  BY DEF LockInv, LocksTypeOK, TypeOK
<1>4. /\ at' \in [UserID -> Places] /\ wants' \in [UserID -> Mutex \cup {None}]
      /\ \A d \in UserID \ {c} : at'[d] = at[d] /\ wants'[d] = wants[d]
      /\ \/ pc[c] # "sending" /\ at'[c] = "idle" /\ wants'[c] = None
         \/ /\ pc[c] = "sending" /\ envelope[c].dest.type = "OtherPeer"
            /\ at'[c] = "find user" /\ wants'[c] = "user_list"
         \/ /\ pc[c] = "sending" /\ envelope[c].dest.type # "OtherPeer"
            /\ at'[c] = "find sender" /\ wants'[c] = "peer_map"
  BY <1>3, AfterMatchEffect DEF Note
<1>5. UNCHANGED <<vars, request, socket, sender>>
  BY DEF Note
<1>6. OthersKept(c) /\ LockTypes'
  BY <1>2, <1>4, <1>5 DEF OthersKept, LockTypes, vars, tables, LockInv, LocksTypeOK
<1>7. Good(c)'
  BY <1>1, <1>2, <1>4, <1>5
  DEF Good, Placed, Nested, Pending, AddrKnown, Fresh, vars, tables, Mutex,
      ServingStates, Finding, Dumps, Formats
<1> QED BY <1>6, <1>7 DEF Kept

LEMMA FindUserKeeps ==
  ASSUME LockInv, NEW c \in UserID, FindUser(c)
  PROVE  Kept(c)
<1> DEFINE a == user_list[envelope[c].dest.peer]
<1>1. Good(c) /\ at[c] = "find user" /\ wants[c] = "user_list" /\ pc[c] = "sending"
  BY DEF LockInv, Good, Placed, Finding, FindUser
<1>2. /\ holder' \in [Mutex -> UserID \cup {None}]
      /\ \A l \in Mutex : holder'[l] = c <=> holder[l] = c \/ l = "user_list"
      /\ \A d \in UserID \ {c}, l \in Mutex : holder'[l] = d <=> holder[l] = d
  BY <1>1, TakeEffect, ZenonT(60) DEF FindUser, Mutex
<1>3. /\ at' \in [UserID -> Places] /\ wants' \in [UserID -> Mutex \cup {None}]
      /\ \/ a = None /\ at'[c] = "post" /\ wants'[c] = "log"
         \/ a # None /\ at'[c] = "find sender" /\ wants'[c] = "peer_map"
      /\ \A d \in UserID \ {c} : at'[d] = at[d] /\ wants'[d] = wants[d]
  BY GotoEffect DEF FindUser, Mutex, Places
<1>4. UNCHANGED <<vars, request, sender>> /\ socket' = [socket EXCEPT ![c] = a]
  BY DEF FindUser
<1>5. envelope[c].dest.type = "OtherPeer" /\ a \in Addr \cup {None}
  <2>1. envelope[c].dest \in Destination /\ envelope[c].dest.type = "OtherPeer"
    BY <1>1 DEF Good, Fresh, LockInv, LocksTypeOK, TypeOK
  <2>2. envelope[c].dest.peer \in UserID
    BY <2>1 DEF Destination, SourcePeer, OtherPeer
  <2> QED BY <2>1, <2>2 DEF LockInv, LocksTypeOK, TypeOK
<1>6. OthersKept(c) /\ LockTypes'
  BY <1>2, <1>3, <1>4, <1>5 DEF OthersKept, LockTypes, vars, tables, LockInv, LocksTypeOK
<1>7. Good(c)'
  <2>1. DestinationAddr(c)' = a /\ (a = None => Receiver(c)' = None)
    BY <1>4, <1>5 DEF DestinationAddr, Receiver, vars, tables
  <2>2. socket'[c] = a
    BY <1>4 DEF LockInv, LocksTypeOK
  <2> QED BY <1>1, <1>2, <1>3, <1>4, <1>5, <2>1, <2>2
    DEF Good, Placed, Nested, Pending, AddrKnown, Fresh, vars, tables, Mutex,
        ServingStates, Finding, Dumps, Formats
<1> QED BY <1>6, <1>7 DEF Kept

LEMMA FindSenderKeeps ==
  ASSUME LockInv, NEW c \in UserID, FindSender(c)
  PROVE  Kept(c)
<1>1. Good(c) /\ at[c] = "find sender" /\ wants[c] = "peer_map" /\ pc[c] = "sending"
  BY DEF LockInv, Good, Placed, Finding, FindSender
<1>2. /\ holder' \in [Mutex -> UserID \cup {None}]
      /\ \A l \in Mutex : holder'[l] = c <=> holder[l] = c \/ l = "peer_map"
      /\ \A d \in UserID \ {c}, l \in Mutex : holder'[l] = d <=> holder[l] = d
  BY <1>1, TakeEffect DEF FindSender, Mutex
<1>3. /\ at' \in [UserID -> Places] /\ wants' \in [UserID -> Mutex \cup {None}]
      /\ at'[c] = "post" /\ wants'[c] = "log"
      /\ \A d \in UserID \ {c} : at'[d] = at[d] /\ wants'[d] = wants[d]
  BY GotoEffect DEF FindSender, Mutex, Places
<1>4. UNCHANGED <<vars, request, socket>>
  BY DEF FindSender
<1>5. envelope[c].dest \in Destination
  BY DEF LockInv, LocksTypeOK, TypeOK
<1>6. /\ DestinationAddr(c) # None
      /\ sender' = [sender EXCEPT ![c] = Receiver(c)]
  <2>1. CASE envelope[c].dest.type = "SourcePeer"
    <3>1. DestinationAddr(c) = addr[c] /\ addr[c] # None
      BY <1>1, <2>1, ConstantsAssumption DEF Good, AddrKnown, DestinationAddr
    <3> QED BY <2>1, <3>1 DEF FindSender, Receiver
  <2>2. CASE envelope[c].dest.type = "OtherPeer"
    <3>1. DestinationAddr(c) = socket[c] /\ socket[c] # None
      BY <1>1, <2>2 DEF Good, Fresh, DestinationAddr
    <3> QED BY <2>2, <3>1 DEF FindSender, Receiver
  <2> QED BY <1>5, <2>1, <2>2 DEF Destination, SourcePeer, OtherPeer
<1>7. OthersKept(c) /\ LockTypes'
  BY <1>2, <1>3, <1>4, <1>6, ReceiverType DEF OthersKept, LockTypes, vars, tables, LockInv, LocksTypeOK
<1>8. Receiver(c)' = Receiver(c) /\ DestinationAddr(c)' = DestinationAddr(c)
  BY <1>4 DEF Receiver, DestinationAddr, vars, tables
<1>9. sender'[c] = Receiver(c)
  BY <1>6 DEF LockInv, LocksTypeOK
<1>10. Good(c)'
  BY <1>1, <1>2, <1>3, <1>4, <1>8, <1>9
  DEF Good, Placed, Nested, Pending, AddrKnown, Fresh, vars, tables, Mutex,
      ServingStates, Finding, Dumps, Formats
<1> QED BY <1>7, <1>10 DEF Kept

LEMMA DumpingKeeps ==
  ASSUME LockInv, NEW c \in UserID, DumpUsers(c) \/ DumpSessions(c)
  PROVE  Kept(c)
<1>1. Good(c) /\ at[c] \in Dumps /\ wants[c] = "log" /\ pc[c] = "serving" /\ CanGo(c) /\ Take(c)
  BY DEF LockInv, Good, Placed, Dumps, DumpUsers, DumpSessions, Dumping
<1>2. /\ holder' \in [Mutex -> UserID \cup {None}]
      /\ \A l \in Mutex : holder'[l] = c <=> holder[l] = c \/ l = "log"
      /\ \A d \in UserID \ {c}, l \in Mutex : holder'[l] = d <=> holder[l] = d
  BY <1>1, TakeEffect DEF Mutex
<1>3. PICK p \in Formats : Goto(c, p, None)
  BY DEF DumpUsers, DumpSessions, Dumping, Formats
<1>4. /\ at' \in [UserID -> Places] /\ wants' \in [UserID -> Mutex \cup {None}]
      /\ at'[c] = p /\ wants'[c] = None
      /\ \A d \in UserID \ {c} : at'[d] = at[d] /\ wants'[d] = wants[d]
  BY <1>3, GotoEffect DEF Places, Formats
<1>5. UNCHANGED <<vars, request, socket, sender>>
  BY DEF DumpUsers, DumpSessions, Dumping
<1>6. OthersKept(c) /\ LockTypes'
  BY <1>2, <1>4, <1>5 DEF OthersKept, LockTypes, vars, tables, LockInv, LocksTypeOK
<1>7. Good(c)'
  BY <1>1, <1>2, <1>4, <1>5
  DEF Good, Placed, Nested, Pending, AddrKnown, Fresh, vars, tables, Mutex,
      ServingStates, Finding, Dumps, Formats
<1> QED BY <1>6, <1>7 DEF Kept

LEMMA FormattedKeeps ==
  ASSUME LockInv, NEW c \in UserID, FormatUsers(c) \/ FormatSessions(c)
  PROVE  Kept(c)
<1>1. Good(c) /\ at[c] \in Formats /\ pc[c] = "serving" /\ DropGuards(c)
  BY DEF LockInv, Good, Placed, Formats, FormatUsers, FormatSessions, Formatted
<1>2. /\ holder' \in [Mutex -> UserID \cup {None}]
      /\ \A l \in Mutex : holder'[l] # c
      /\ \A d \in UserID \ {c}, l \in Mutex : holder'[l] = d <=> holder[l] = d
  BY <1>1, DropEffect
<1>3. /\ at' \in [UserID -> Places] /\ wants' \in [UserID -> Mutex \cup {None}]
      /\ \/ at'[c] = "idle" /\ wants'[c] = None
         \/ at'[c] = "dump sessions" /\ wants'[c] = "log"
      /\ \A d \in UserID \ {c} : at'[d] = at[d] /\ wants'[d] = wants[d]
  <2>1. CASE FormatUsers(c)
    BY <2>1, GotoEffect DEF FormatUsers, Places, Mutex
  <2>2. CASE FormatSessions(c)
    BY <2>2 DEF FormatSessions, Goto, Places, LockInv, LocksTypeOK
  <2> QED BY <2>1, <2>2
<1>4. UNCHANGED <<vars, request, socket, sender>>
  BY DEF FormatUsers, FormatSessions, Formatted
<1>5. OthersKept(c) /\ LockTypes'
  BY <1>2, <1>3, <1>4 DEF OthersKept, LockTypes, vars, tables, LockInv, LocksTypeOK
<1>6. Good(c)'
  BY <1>1, <1>2, <1>3, <1>4
  DEF Good, Placed, Nested, Pending, AddrKnown, Fresh, vars, tables, Mutex,
      ServingStates, Finding, Dumps, Formats
<1> QED BY <1>5, <1>6 DEF Kept

\* The message is posted to the queue of the task that was looked up.
LEMMA PostKeeps ==
  ASSUME LockInv, NEW c \in UserID, Post(c)
  PROVE  Kept(c)
<1>1. Good(c) /\ at[c] = "post" /\ pc[c] = "sending"
  BY DEF LockInv, Good, Placed, Finding, Post
<1>2. /\ holder' \in [Mutex -> UserID \cup {None}]
      /\ \A l \in Mutex : holder'[l] # c
      /\ \A d \in UserID \ {c}, l \in Mutex : holder'[l] = d <=> holder[l] = d
  BY DropEffect DEF Post
<1>3. /\ at' \in [UserID -> Places] /\ wants' \in [UserID -> Mutex \cup {None}]
      /\ at'[c] = "idle" /\ wants'[c] = None
      /\ \A d \in UserID \ {c} : at'[d] = at[d] /\ wants'[d] = wants[d]
  BY GotoEffect DEF Post, Places
<1>4. /\ UNCHANGED <<tables, addr, received, request>>
      /\ pc' = [pc EXCEPT ![c] = "serving"]
      /\ envelope' = [envelope EXCEPT ![c] = NoEnvelope]
      /\ socket' = [socket EXCEPT ![c] = None]
      /\ sender' = [sender EXCEPT ![c] = None]
  BY DEF Post
<1>5. OthersKept(c) /\ LockTypes'
  BY <1>2, <1>3, <1>4 DEF OthersKept, LockTypes, tables, LockInv, LocksTypeOK, TypeOK
<1>6. pc'[c] = "serving" /\ sender'[c] = None
  BY <1>4 DEF LockInv, LocksTypeOK, TypeOK
<1>7. Good(c)'
  BY <1>1, <1>2, <1>3, <1>4, <1>6
  DEF Good, Placed, Nested, Pending, AddrKnown, Fresh, vars, tables, Mutex,
      ServingStates, Finding, Dumps, Formats
<1> QED BY <1>5, <1>7 DEF Kept

\* Looking a session up leads to a log line, to the match on the destination, or
\* back.
LEMMA LookKeeps ==
  ASSUME LockInv, NEW c \in UserID, Look(c)
  PROVE  Kept(c)
<1> DEFINE m == request[c]
<1>1. /\ Good(c) /\ TypeOK /\ at[c] = "look" /\ wants[c] = "session_list"
      /\ m \in ClientMessages(c) /\ m.kind \in LookedUp /\ HandleMessage(c, m)
  BY DEF LockInv, LocksTypeOK, Good, Placed, Pending, Look
<1>2. /\ pc[c] = "serving" /\ UNCHANGED <<peer_map, user_list, addr>>
      /\ \A d \in UserID \ {c} : envelope'[d] = envelope[d] /\ received'[d] = received[d]
      /\ Misaligned(c, m) => pc' = pc
  BY <1>1, LookedUpEffect
<1>3. PICK p \in ServingStates : pc' = [pc EXCEPT ![c] = p]
  BY <1>1, LookedUpEffect
<1>4. pc'[c] = p /\ addr[c] \in Addr
  BY <1>1, <1>2, <1>3 DEF TypeOK, Good, AddrKnown
<1>5. UNCHANGED <<request, socket, sender>> /\ sender[c] = None
  BY <1>1 DEF Look, Good, Fresh
<1>6. CASE UNCHANGED holder /\ AfterMatch(c, pc'[c] = "sending", envelope'[c].dest)
  <2>1. envelope'[c].dest \in Destination
    <3>1. TypeOK'
      BY <1>1, TypeReceive DEF Receive, Good, Pending
    <3> QED BY <3>1 DEF TypeOK
  <2>2. /\ at' \in [UserID -> Places] /\ wants' \in [UserID -> Mutex \cup {None}]
        /\ \A d \in UserID \ {c} : at'[d] = at[d] /\ wants'[d] = wants[d]
        /\ \/ p # "sending" /\ at'[c] = "idle" /\ wants'[c] = None
           \/ /\ p = "sending" /\ envelope'[c].dest.type = "OtherPeer"
              /\ at'[c] = "find user" /\ wants'[c] = "user_list"
           \/ /\ p = "sending" /\ envelope'[c].dest.type # "OtherPeer"
              /\ at'[c] = "find sender" /\ wants'[c] = "peer_map"
    BY <1>4, <1>6, <2>1, AfterMatchEffect
  <2>3. OthersKept(c) /\ LockTypes'
    BY <1>2, <1>3, <1>5, <1>6, <2>2 DEF OthersKept, LockTypes, LockInv, LocksTypeOK, TypeOK
  <2>4. Good(c)'
    BY <1>1, <1>2, <1>4, <1>5, <1>6, <2>2
    DEF Good, Placed, Nested, Pending, AddrKnown, Fresh, vars, tables, Mutex,
      ServingStates, Finding, Dumps, Formats
  <2> QED BY <2>3, <2>4 DEF Kept
<1>7. ASSUME NEW place \in {"stranger", "note"}, NEW l \in Mutex,
             Take(c), Goto(c, place, l), CanGo(c),
             place = "stranger" => l = "user_list" /\ p = "serving",
             place = "note" => l = "log"
      PROVE  Kept(c)
  <2>1. /\ holder' \in [Mutex -> UserID \cup {None}]
        /\ \A k \in Mutex : holder'[k] = c <=> holder[k] = c \/ k = "session_list"
        /\ \A d \in UserID \ {c}, k \in Mutex : holder'[k] = d <=> holder[k] = d
    BY <1>1, <1>7, TakeEffect DEF Mutex
  <2>2. /\ at' \in [UserID -> Places] /\ wants' \in [UserID -> Mutex \cup {None}]
        /\ at'[c] = place /\ wants'[c] = l
        /\ \A d \in UserID \ {c} : at'[d] = at[d] /\ wants'[d] = wants[d]
    BY <1>7 DEF Goto, Places, LockInv, LocksTypeOK
  <2>3. OthersKept(c) /\ LockTypes'
    BY <1>2, <1>3, <1>5, <2>1, <2>2 DEF OthersKept, LockTypes, LockInv, LocksTypeOK, TypeOK
  <2>4. Good(c)'
    BY <1>1, <1>2, <1>4, <1>5, <1>7, <2>1, <2>2
    DEF Good, Placed, Nested, Pending, AddrKnown, Fresh, vars, tables, Mutex,
      ServingStates, Finding, Dumps, Formats
  <2> QED BY <2>3, <2>4 DEF Kept
<1>8. CASE Misaligned(c, m)
  <2>1. Take(c) /\ Goto(c, "stranger", "user_list") /\ CanGo(c)
    BY <1>8 DEF Look
  <2>2. p = "serving"
    BY <1>2, <1>4, <1>8
  <2> QED BY <2>1, <2>2, <1>7 DEF Mutex
<1>9. CASE ~Misaligned(c, m) /\ Noted(m)
  <2>1. Take(c) /\ Goto(c, "note", "log") /\ CanGo(c)
    BY <1>9 DEF Look
  <2> QED BY <2>1, <1>7 DEF Mutex
<1>10. CASE ~Misaligned(c, m) /\ ~Noted(m)
  <2>1. UNCHANGED holder /\ AfterMatch(c, pc'[c] = "sending", envelope'[c].dest)
    BY <1>10 DEF Look
  <2> QED BY <2>1, <1>6
<1> QED BY <1>8, <1>9, <1>10

LEMMA ReadMessageKeeps ==
  ASSUME LockInv, NEW c \in UserID, ReadMessage(c)
  PROVE  Kept(c)
<1>1. /\ Good(c) /\ TypeOK /\ at[c] = "idle" /\ pc[c] = "serving" /\ received[c] < MaxRequests
      /\ UNCHANGED <<holder, socket, sender>> /\ sender[c] = None
      /\ wants[c] = None
  BY DEF LockInv, LocksTypeOK, Good, Placed, Fresh, ReadMessage
<1>2. PICK m \in ClientMessages(c) :
        IF m.kind \in LookedUp
        THEN /\ Goto(c, "look", "session_list")
             /\ request' = [request EXCEPT ![c] = m]
             /\ UNCHANGED vars
        ELSE /\ HandleMessage(c, m)
             /\ IF m.kind = "Debug" THEN Goto(c, "dump users", "log") ELSE UNCHANGED <<at, wants>>
             /\ UNCHANGED request
  BY DEF ReadMessage
<1>3. CASE m.kind \in LookedUp
  <2>1. /\ at' \in [UserID -> Places] /\ wants' \in [UserID -> Mutex \cup {None}]
        /\ at'[c] = "look" /\ wants'[c] = "session_list"
        /\ \A d \in UserID \ {c} : at'[d] = at[d] /\ wants'[d] = wants[d]
    BY <1>2, <1>3 DEF Goto, Places, Mutex, LockInv, LocksTypeOK
  <2>2. UNCHANGED vars /\ request' = [request EXCEPT ![c] = m] /\ m \in SignalEnum
    BY <1>1, <1>2, <1>3, ClientMessageType
  <2>3. OthersKept(c) /\ LockTypes'
    BY <1>1, <2>1, <2>2 DEF OthersKept, LockTypes, vars, tables, LockInv, LocksTypeOK
  <2>4. request'[c] = m /\ ClientMessages(c)' = ClientMessages(c)
    BY <2>2 DEF ClientMessages, vars, LockInv, LocksTypeOK
  <2>5. Good(c)'
    BY <1>1, <1>2, <1>3, <2>1, <2>2, <2>4
    DEF Good, Placed, Nested, Pending, AddrKnown, Fresh, vars, tables, Mutex,
      ServingStates, Finding, Dumps, Formats
  <2> QED BY <2>3, <2>5 DEF Kept
<1>4. CASE m.kind \notin LookedUp
  <2>1. /\ UNCHANGED <<peer_map, user_list, addr, envelope, request>>
        /\ \/ pc' = pc
           \/ m.kind = "ICEError" /\ pc' = [pc EXCEPT ![c] = "panicked"]
        /\ \A d \in UserID \ {c} : received'[d] = received[d]
    BY <1>1, <1>2, <1>4, OtherKindsEffect
  <2>2. /\ at' \in [UserID -> Places] /\ wants' \in [UserID -> Mutex \cup {None}]
        /\ \/ at'[c] = "idle" /\ wants'[c] = None
           \/ m.kind = "Debug" /\ at'[c] = "dump users" /\ wants'[c] = "log"
        /\ \A d \in UserID \ {c} : at'[d] = at[d] /\ wants'[d] = wants[d]
    BY <1>1, <1>2, <1>4 DEF Goto, Places, Mutex, LockInv, LocksTypeOK
  <2>3. OthersKept(c) /\ LockTypes'
    BY <1>1, <2>1, <2>2 DEF OthersKept, LockTypes, LockInv, LocksTypeOK, TypeOK
  <2>4. pc'[c] = "serving" \/ (m.kind = "ICEError" /\ pc'[c] = "panicked")
    BY <1>1, <2>1 DEF TypeOK
  <2>5. Good(c)'
    BY <1>1, <2>1, <2>2, <2>4
    DEF Good, Placed, Nested, Pending, AddrKnown, Fresh, vars, tables, Mutex,
      ServingStates, Finding, Dumps, Formats
  <2> QED BY <2>3, <2>5 DEF Kept
<1> QED BY <1>3, <1>4

\* The rest of handle_connection: the task is not in handle_message, unless its
\* client closes, and takes a map only while its mutex is free.
LEMMA ConnectionKeeps ==
  ASSUME LockInv, NEW c \in UserID, UNCHANGED lockVars,
         LockedAccept(c) \/ Close(c) \/ ForwardIdle(c) \/ ConnectionStep(c)
  PROVE  Kept(c)
<1>1. Good(c) /\ TypeOK /\ LockTypes
  BY DEF LockInv, LocksTypeOK, LockTypes
<1>2. UNCHANGED <<holder, at, wants, request, socket, sender>> /\ LockTypes'
  BY <1>1 DEF lockVars, LockTypes
<1>3. CASE Close(c)
  BY <1>1, <1>2, <1>3, ZenonT(60) DEF Close, tables, Kept, OthersKept, Good, Placed, Nested, Pending,
     ClientMessages, AddrKnown, Fresh, Receiver, DestinationAddr
<1>4. ASSUME at[c] = "idle", UNCHANGED <<envelope, received>>,
             NEW p \in PcStates \ {"sending"}, pc' = [pc EXCEPT ![c] = p],
             addr'[c] \in Addr \/ p = "new",
             \A d \in UserID \ {c} : addr'[d] = addr[d],
             UNCHANGED peer_map \/ Unlocked("peer_map"),
             UNCHANGED user_list \/ Unlocked("user_list")
      PROVE  Kept(c)
  <2>1. OthersKept(c)
    BY <1>1, <1>2, <1>4, NoneIsNoIdentifier DEF OthersKept, Unlocked, TypeOK
  <2>2. pc'[c] = p
    BY <1>1, <1>4 DEF TypeOK
  <2>3. Good(c)'
    BY <1>1, <1>2, <1>4, <2>2 DEF Good, Placed, Nested, Pending, AddrKnown, Fresh, Finding,
       Dumps, Formats
  <2> QED BY <1>2, <2>1, <2>3 DEF Kept
<1>5. pc[c] \notin ServingStates => at[c] = "idle"
  BY <1>1 DEF LockTypes, Places, Good, Placed, Finding, Dumps, Formats, ServingStates
<1>6. CASE LockedAccept(c)
  <2>1. PICK a \in Addr : Accept(c, a)
    BY <1>6 DEF LockedAccept
  <2>2. addr'[c] = a /\ \A d \in UserID \ {c} : addr'[d] = addr[d]
    BY <1>1, <2>1 DEF Accept, TypeOK
  <2> QED BY <1>4, <1>5, <1>6, <2>1, <2>2
    DEF LockedAccept, Accept, PcStates, SetupStates, ServingStates
<1>7. CASE ForwardIdle(c)
  <2>1. pc' = [pc EXCEPT ![c] = "serving"] /\ pc[c] = "serving"
    BY <1>1, <1>7 DEF ForwardIdle, Forward, TypeOK
  <2> QED BY <1>1, <1>4, <1>7, <2>1
    DEF ForwardIdle, Forward, tables, PcStates, ServingStates, Good, AddrKnown
<1>8. CASE ReplyWithID(c) \/ (at[c] = "idle" /\ Leave(c)) \/ CollectSessions(c) \/ End(c)
  <2>1. \E p \in {"serving", "leaving", "closing", "ended"} : pc' = [pc EXCEPT ![c] = p]
    BY <1>8 DEF ReplyWithID, Leave, CollectSessions, End
  <2>2. pc[c] # "new" /\ at[c] = "idle" /\ UNCHANGED <<peer_map, user_list, addr, envelope, received>>
    BY <1>5, <1>8 DEF ReplyWithID, Leave, CollectSessions, End, tables, ServingStates
  <2> QED BY <1>1, <1>4, <2>1, <2>2 DEF PcStates, CleanupStates, ServingStates, Good, AddrKnown
<1>9. CASE Unlocked("user_list") /\ (ListUser(c) \/ UnlistUser(c))
  BY <1>1, <1>4, <1>5, <1>9 DEF ListUser, UnlistUser,
     PcStates, SetupStates, CleanupStates, ServingStates, Good, AddrKnown
<1>10. CASE Unlocked("peer_map") /\ UnmapPeer(c)
  BY <1>1, <1>4, <1>5, <1>10 DEF UnmapPeer, PcStates, CleanupStates, ServingStates, Good, AddrKnown
<1>11. CASE CloseSession(c)
  <2>1. pc' = [pc EXCEPT ![c] = "closing"] /\ pc[c] = "closing"
    BY <1>1, <1>11 DEF CloseSession, TypeOK
  <2> QED BY <1>1, <1>4, <1>5, <1>11, <2>1
    DEF CloseSession, PcStates, CleanupStates, ServingStates, Good, AddrKnown
<1> QED BY <1>3, <1>6, <1>7, <1>8, <1>9, <1>10, <1>11 DEF ConnectionStep

-------------------------------------------------------------------------------
LEMMA LockInvNext == LockInv /\ [LockNext]_allVars => LockInv'
<1> SUFFICES ASSUME LockInv, [LockNext]_allVars PROVE LockInv'
  OBVIOUS
<1>1. TypeOK'
  BY StepImplements, TypeNext DEF LockInv, LocksTypeOK
<1>2. CASE UNCHANGED allVars
  <2> USE <1>2 DEF allVars, lockVars, vars, tables
  <2>1. \A c \in UserID : Placed(c)' = Placed(c) /\ Nested(c)' = Nested(c) /\ AddrKnown(c)' = AddrKnown(c)
    BY DEF Placed, Nested, AddrKnown
  <2>2. \A c \in UserID : Pending(c)' = Pending(c)
    BY DEF Pending, ClientMessages
  <2>3. \A c \in UserID : Fresh(c)' = Fresh(c)
    BY DEF Fresh, Receiver, DestinationAddr
  <2>4. \A c \in UserID : Good(c)'
    BY <2>1, <2>2, <2>3 DEF Good, LockInv
  <2> QED BY <1>1, <2>4 DEF LockInv, LocksTypeOK
<1>3. CASE LockNext
  <2>1. PICK c \in UserID :
          \/ ReadMessage(c)
          \/ HandlerStep(c)
          \/ /\ LockedAccept(c) \/ Close(c) \/ ForwardIdle(c) \/ ConnectionStep(c)
             /\ UNCHANGED lockVars
    BY <1>3 DEF LockNext
  <2>2. Kept(c)
    BY <2>1, ReadMessageKeeps, LookKeeps, StrangerKeeps, NoteKeeps, FindUserKeeps,
       FindSenderKeeps, PostKeeps, DumpingKeeps, FormattedKeeps, ConnectionKeeps
    DEF HandlerStep
  <2>3. \A d \in UserID \ {c} : Good(d)'
    BY <2>2, OthersStayGood DEF Kept
  <2> QED BY <1>1, <2>2, <2>3 DEF Kept, LockTypes, LockInv, LocksTypeOK
<1> QED BY <1>2, <1>3

LEMMA LockInvHolds == LockSpec => []LockInv
BY LockInitInv, LockInvNext, PTL DEF LockSpec

\* Every step of handle_message leaves its locals and the mutexes well-typed; a
\* sender that was found is somebody's.
THEOREM LocksTypeCorrect == LockSpec => []LocksTypeOK
<1>1. LockInv => LocksTypeOK
  BY DEF LockInv
<1> QED BY <1>1, LockInvHolds, PTL

LEMMA NestingOrder ==
  ASSUME LockInv, NEW T \in SUBSET UserID,
         \A c \in T : wants[c] # None /\ holder[wants[c]] \in T
  PROVE  T = {}
<1>1. \A c \in T : Placed(c) /\ Nested(c) /\ wants[c] \in Mutex
  BY DEF LockInv, LocksTypeOK, Good
<1>2. \A c \in T : wants[c] # "log"
  BY <1>1 DEF Placed, Nested
<1>3. \A c \in T : wants[c] # "peer_map"
  BY <1>1, <1>2 DEF Placed, Nested
<1>4. \A c \in T : wants[c] # "user_list"
  BY <1>1, <1>2, <1>3, ZenonT(60) DEF Placed, Nested
<1>5. \A c \in T : wants[c] # "session_list"
  BY <1>1, <1>2, <1>4 DEF Placed, Nested
<1> QED BY <1>1, <1>2, <1>3, <1>4, <1>5 DEF Mutex

\* The mutexes of the three maps and of the logger are nested in one order, on
\* every path of handle_message, so that no tasks wait for each other.
THEOREM LocksNeverDeadlock == LockSpec => []NoDeadlock
<1>1. LockInv => NoDeadlock
  BY NestingOrder DEF NoDeadlock
<1> QED BY <1>1, LockInvHolds, PTL

\* handle_message, mutex by mutex, does nothing that the critical sections of
\* SignallingServer do not.
THEOREM LocksImplementServer == LockSpec => ImplementsServer
<1>1. LockInit => Init
  BY DEF LockInit
<1> QED BY <1>1, LockInvHolds, StepImplements, PTL DEF LockSpec, Spec, ImplementsServer

\* What is proved of the critical sections holds of the mutexes, too: both maps
\* lead to a connection as long as it is served, panics included.
THEOREM LocksKeepRegistration == ~EarlyReuse => (LockSpec => []Registered)
<1> SUFFICES ASSUME ~EarlyReuse PROVE LockSpec => []Registered
  OBVIOUS
<1>1. LockSpec => Spec
  BY LocksImplementServer DEF ImplementsServer
<1>2. Spec => []Registered
  BY ConnectionsRegistered
<1> QED BY <1>1, <1>2

\* With mutexes taken one by one the server still implements Rendezvous, with
\* SignallingServer in between.
THEOREM LocksImplementRendezvous == WellBehaved => (LockSpec => ImplementsRendezvous)
<1> SUFFICES ASSUME WellBehaved PROVE LockSpec => ImplementsRendezvous
  OBVIOUS
<1>1. LockSpec => Spec
  BY LocksImplementServer DEF ImplementsServer
<1>2. Spec => ImplementsRendezvous
  BY ServerImplementsRendezvous
<1> QED BY <1>1, <1>2
===============================================================================
