------------------------------ MODULE CallProofs ------------------------------
(***************************************************************************)
(* Pages and server together, for every set of users, sessions and         *)
(* addresses and for any number of clicks, candidates and messages.        *)
(*                                                                         *)
(* Each half relies on the other.  The routing of the server rests on what *)
(* clients send, and a page sends what it has been told: that it is the    *)
(* guest of this session, or the host an offer is meant for.  So the       *)
(* invariant is one of both: the server's, and for every page what it may  *)
(* have sent and what it may still be about to do, and between them that a *)
(* message in transit is one that its page has sent.                       *)
(***************************************************************************)
EXTENDS VideoCall, RefinementProofs

(***************************************************************************)
(* Sequences by their elements.                                            *)
(***************************************************************************)
LEMMA AppendRange ==
  ASSUME NEW S, NEW s \in Seq(S), NEW x \in S
  PROVE  Append(s, x) \in Seq(S) /\ Range(Append(s, x)) = Range(s) \cup {x}
<1>1. /\ Append(s, x) \in Seq(S)
      /\ DOMAIN Append(s, x) = 1..(Len(s) + 1)
      /\ \A i \in 1..Len(s) : Append(s, x)[i] = s[i]
      /\ Append(s, x)[Len(s) + 1] = x
      /\ DOMAIN s = 1..Len(s)
      /\ Len(s) \in Nat
  OBVIOUS
<1>2. 1..(Len(s) + 1) = 1..Len(s) \cup {Len(s) + 1}
  BY <1>1
<1> QED BY <1>1, <1>2 DEF Range

LEMMA TailRange ==
  ASSUME NEW S, NEW s \in Seq(S), s # << >>
  PROVE  Head(s) \in Range(s) /\ Tail(s) \in Seq(S) /\ Range(Tail(s)) \subseteq Range(s)
<1>1. /\ 1 \in DOMAIN s /\ Head(s) = s[1]
      /\ Tail(s) \in Seq(S)
      /\ \A i \in DOMAIN Tail(s) : i + 1 \in DOMAIN s /\ Tail(s)[i] = s[i + 1]
  OBVIOUS
<1> QED BY <1>1 DEF Range

LEMMA RemoveRange ==
  ASSUME NEW S, NEW s \in Seq(S), NEW i \in DOMAIN s
  PROVE  RemoveAt(s, i) \in Seq(S) /\ Range(RemoveAt(s, i)) \subseteq Range(s)
<1> DEFINE a == SubSeq(s, 1, i - 1)
           b == SubSeq(s, i + 1, Len(s))
<1>1. i \in 1..Len(s) /\ Len(s) \in Nat
  OBVIOUS
<1>2. a \in Seq(S) /\ Len(a) = i - 1 /\ \A j \in 1..(i - 1) : a[j] = s[j] /\ j \in DOMAIN s
  BY <1>1
<1>3. b \in Seq(S) /\ Len(b) = Len(s) - i /\ \A j \in 1..(Len(s) - i) : b[j] = s[i + j] /\ i + j \in DOMAIN s
  BY <1>1
<1> HIDE DEF a, b
<1>4. /\ a \o b \in Seq(S)
      /\ \A j \in DOMAIN (a \o b) :
           \/ j \in 1..Len(a) /\ (a \o b)[j] = a[j]
           \/ j - Len(a) \in 1..Len(b) /\ (a \o b)[j] = b[j - Len(a)]
  BY <1>2, <1>3
<1>5. \A j \in DOMAIN (a \o b) : (a \o b)[j] \in Range(s)
  BY <1>2, <1>3, <1>4 DEF Range
<1> QED BY <1>4, <1>5 DEF RemoveAt, Range, a, b

LEMMA MaxMinOfTwo ==
  ASSUME NEW a \in Nat, NEW b \in Nat
  PROVE  Max({a, b}) \in Nat /\ Min({a, b}) \in Nat
<1>1. \E x \in {a, b} : \A y \in {a, b} : x >= y
  OBVIOUS
<1>2. \E x \in {a, b} : \A y \in {a, b} : x =< y
  OBVIOUS
<1> QED BY <1>1, <1>2 DEF Max, Min

-------------------------------------------------------------------------------
(* The invariant. *)

Hosting(p, s) == s \in SessionID /\ host_of[s] = p
Joined(p, s)  == s \in SessionID /\ p \in guests_of[s]

\* What page p may have sent.
MaySend(p, m) ==
  /\ m.kind # "ICEError"
  /\ m.session = None <=> m.kind \in {"SessionNew", "Debug"}
  /\ m.kind = "VideoOffer" => Joined(p, m.session) /\ m.desc \in Description /\ m.desc.streams > 0
  /\ m.kind = "VideoAnswer" => Hosting(p, m.session) /\ m.desc \in Description

\* The operations that may wait in p's peer connection, when it has that many
\* streams of its own.
MayRun(p, o, streams) ==
  /\ o.op \in {"create_offer", "set_local_offer"} => Joined(p, o.session) /\ streams > 0
  /\ o.op = "set_local_offer" => o.desc \in Description /\ o.desc.streams > 0
  /\ o.op \in {"set_remote_offer", "create_answer", "set_local_answer"} => Hosting(p, o.session)
  /\ o.op \in {"set_remote_offer", "set_local_answer"} => o.desc \in Description

PageInv(p) ==
  /\ \A m \in Range(sent[p]) : MaySend(p, m)
  /\ \A w \in Range(camera[p]) : w.for = "offer" => Joined(p, w.session)
  /\ \A o \in Range(ops[p]) : MayRun(p, o, rtc[p].streams)
  /\ rtc[p].signaling = "have-remote-offer" => rtc[p].remote \in Description
  /\ session_id[p] # None => Hosting(p, session_id[p]) \/ Joined(p, session_id[p])

\* m is the message of that number of its page.
IsSent(m) ==
  /\ m.by \in UserID
  /\ m.seq \in DOMAIN sent[m.by]
  /\ sent[m.by][m.seq].kind = m.kind
  /\ sent[m.by][m.seq].session = m.session

InTransit(m) ==
  /\ m.kind \in Relayed
  /\ \/ \E d \in UserID : m \in Range(out[d])
     \/ \E c \in UserID : pc[c] = "sending" /\ envelope[c].msg = m

Traced == \A m \in SignalEnum : InTransit(m) => IsSent(m)

CallInv ==
  /\ RoutingInv
  /\ ClientTypeOK
  /\ Traced
  /\ \A p \in UserID : PageInv(p)

-------------------------------------------------------------------------------
(* Types of the client's variables. *)

LEMMA SendType ==
  ASSUME ClientTypeOK, NEW p \in UserID, NEW kind \in Requests,
         NEW s \in SessionID \cup {None}, NEW d \in Description \cup {None}, Send(p, kind, s, d)
  PROVE  /\ sent' \in [UserID -> Seq(Message)]
         /\ \A q \in UserID \ {p} : sent'[q] = sent[q]
         /\ Range(sent'[p]) \subseteq Range(sent[p]) \cup {[kind |-> kind, session |-> s, desc |-> d]}
         /\ \A i \in DOMAIN sent[p] : i \in DOMAIN sent'[p] /\ sent'[p][i] = sent[p][i]
<1> DEFINE m == [kind |-> kind, session |-> s, desc |-> d]
<1>1. m \in Message /\ sent \in [UserID -> Seq(Message)] /\ sent[p] \in Seq(Message)
  BY DEF Message, ClientTypeOK
<1>2. /\ Append(sent[p], m) \in Seq(Message)
      /\ Range(Append(sent[p], m)) = Range(sent[p]) \cup {m}
  BY <1>1, AppendRange
<1>3. \A i \in DOMAIN sent[p] : i \in DOMAIN Append(sent[p], m) /\ Append(sent[p], m)[i] = sent[p][i]
  BY <1>1
<1>4. sent' = sent \/ sent' = [sent EXCEPT ![p] = Append(sent[p], m)]
  BY DEF Send
<1> HIDE DEF m
<1>5. /\ sent' \in [UserID -> Seq(Message)]
      /\ \A q \in UserID \ {p} : sent'[q] = sent[q]
      /\ sent'[p] \in {sent[p], Append(sent[p], m)}
  BY <1>1, <1>2, <1>4
<1>6. Range(sent'[p]) \subseteq Range(sent[p]) \cup {m}
  BY <1>2, <1>5
<1>7. \A i \in DOMAIN sent[p] : i \in DOMAIN sent'[p] /\ sent'[p][i] = sent[p][i]
  BY <1>3, <1>5
<1> QED BY <1>5, <1>6, <1>7 DEF m

LEMMA AwaitType ==
  ASSUME ClientTypeOK, NEW p \in UserID, NEW op \in OpNames, NEW d \in Description \cup {None},
         NEW s \in SessionID \cup {None}, Await(p, op, d, s)
  PROVE  /\ ops' \in [UserID -> Seq(Operation)]
         /\ \A q \in UserID \ {p} : ops'[q] = ops[q]
         /\ Range(ops'[p]) = Range(ops[p]) \cup {[op |-> op, desc |-> d, session |-> s]}
<1> DEFINE o == [op |-> op, desc |-> d, session |-> s]
<1>1. o \in Operation /\ ops \in [UserID -> Seq(Operation)] /\ ops[p] \in Seq(Operation)
  BY DEF Operation, ClientTypeOK
<1>2. /\ Append(ops[p], o) \in Seq(Operation)
      /\ Range(Append(ops[p], o)) = Range(ops[p]) \cup {o}
  BY <1>1, AppendRange
<1>3. ops' = [ops EXCEPT ![p] = Append(ops[p], o)]
  BY DEF Await
<1> QED BY <1>1, <1>2, <1>3

LEMMA ContinueType ==
  ASSUME ClientTypeOK, NEW p \in UserID, ops[p] # << >>, NEW op \in OpNames,
         NEW d \in Description \cup {None}, Continue(p, op, d)
  PROVE  /\ ops' \in [UserID -> Seq(Operation)]
         /\ \A q \in UserID \ {p} : ops'[q] = ops[q]
         /\ Range(ops'[p]) \subseteq
              Range(ops[p]) \cup {[op |-> op, desc |-> d, session |-> Current(p).session]}
<1> DEFINE t == Tail(ops[p])
           o == [op |-> op, desc |-> d, session |-> Current(p).session]
<1>1. ops \in [UserID -> Seq(Operation)] /\ ops[p] \in Seq(Operation)
  BY DEF ClientTypeOK
<1>2. Current(p) \in Operation
  BY <1>1 DEF Current
<1>3. o \in Operation
  BY <1>2 DEF Operation
<1>4. t \in Seq(Operation) /\ Range(t) \subseteq Range(ops[p])
  BY <1>1, TailRange
<1>5. ops' = [ops EXCEPT ![p] = Append(t, o)]
  BY DEF Continue
<1> HIDE DEF o, t
<1>6. /\ Append(t, o) \in Seq(Operation)
      /\ Range(Append(t, o)) = Range(t) \cup {o}
  BY <1>3, <1>4, AppendRange
<1> QED BY <1>1, <1>4, <1>5, <1>6 DEF o

LEMMA FinishType ==
  ASSUME ClientTypeOK, NEW p \in UserID, ops[p] # << >>, Finish(p)
  PROVE  /\ ops' \in [UserID -> Seq(Operation)]
         /\ \A q \in UserID \ {p} : ops'[q] = ops[q]
         /\ Range(ops'[p]) \subseteq Range(ops[p])
<1>1. ops \in [UserID -> Seq(Operation)] /\ ops[p] \in Seq(Operation)
  BY DEF ClientTypeOK
<1>2. Tail(ops[p]) \in Seq(Operation) /\ Range(Tail(ops[p])) \subseteq Range(ops[p])
  BY <1>1, TailRange
<1>3. ops' = [ops EXCEPT ![p] = Tail(ops[p])]
  BY DEF Finish
<1> QED BY <1>1, <1>2, <1>3

LEMMA CurrentType ==
  ASSUME ClientTypeOK, NEW p \in UserID, ops[p] # << >>
  PROVE  Current(p) \in Operation /\ Current(p) \in Range(ops[p])
<1>1. ops[p] \in Seq(Operation)
  BY DEF ClientTypeOK
<1> QED BY <1>1, TailRange DEF Current

LEMMA NewDescriptionType ==
  ASSUME ClientTypeOK, NEW p \in UserID
  PROVE  /\ NewOffer(p) \in Description /\ NewOffer(p).streams = rtc[p].streams
         /\ rtc[p].remote \in Description => NewAnswer(p) \in Description
         /\ NewOffer(p).n = rtc[p].made + 1 /\ NewAnswer(p).n = rtc[p].made + 1
         /\ rtc[p] \in PeerConnection
<1>1. rtc[p] \in PeerConnection
  BY DEF ClientTypeOK
<1>2. rtc[p].streams \in Nat /\ rtc[p].made + 1 \in Nat
  BY <1>1 DEF PeerConnection
<1>3. rtc[p].remote # None => rtc[p].remote.lines \in Nat
  BY <1>1 DEF PeerConnection, Description
<1>4. NewOffer(p) \in Description
  <2> DEFINE other == IF rtc[p].remote = None THEN 0 ELSE rtc[p].remote.lines
  <2>1. other \in Nat
    BY <1>3
  <2>2. Max({rtc[p].streams, other}) \in Nat
    BY <1>2, <2>1, MaxMinOfTwo
  <2> QED BY <1>2, <2>2 DEF NewOffer, Description
<1>5. ASSUME rtc[p].remote \in Description PROVE NewAnswer(p) \in Description
  <2>1. rtc[p].remote.lines \in Nat /\ ID(rtc[p].remote) \in OfferID
    BY <1>5 DEF Description, ID, OfferID
  <2>2. Min({rtc[p].streams, rtc[p].remote.lines}) \in Nat
    BY <1>2, <2>1, MaxMinOfTwo
  <2> QED BY <1>2, <2>1, <2>2 DEF NewAnswer, Description
<1> QED BY <1>1, <1>4, <1>5 DEF NewOffer, NewAnswer

LEMMA ClickType ==
  ASSUME ClientTypeOK, NEW p \in UserID, NEW b \in Button, Click(p, b)
  PROVE  clicks' \in [UserID -> [Button -> Nat]]
BY DEF ClientTypeOK, Click

LEMMA CameraType ==
  ASSUME ClientTypeOK, NEW p \in UserID
  PROVE  /\ \A w \in Waiting : camera' = [camera EXCEPT ![p] = Append(@, w)] =>
              /\ camera' \in [UserID -> Seq(Waiting)]
              /\ Range(camera'[p]) = Range(camera[p]) \cup {w}
         /\ \A i \in DOMAIN camera[p] : camera' = [camera EXCEPT ![p] = RemoveAt(@, i)] =>
              /\ camera' \in [UserID -> Seq(Waiting)]
              /\ Range(camera'[p]) \subseteq Range(camera[p])
              /\ camera[p][i] \in Waiting /\ camera[p][i] \in Range(camera[p])
<1>1. camera \in [UserID -> Seq(Waiting)] /\ camera[p] \in Seq(Waiting)
  BY DEF ClientTypeOK
<1>2. ASSUME NEW w \in Waiting, camera' = [camera EXCEPT ![p] = Append(@, w)]
      PROVE  /\ camera' \in [UserID -> Seq(Waiting)]
             /\ Range(camera'[p]) = Range(camera[p]) \cup {w}
  <2>1. /\ Append(camera[p], w) \in Seq(Waiting)
        /\ Range(Append(camera[p], w)) = Range(camera[p]) \cup {w}
    BY <1>1, AppendRange
  <2> QED BY <1>1, <1>2, <2>1
<1>3. ASSUME NEW i \in DOMAIN camera[p], camera' = [camera EXCEPT ![p] = RemoveAt(@, i)]
      PROVE  /\ camera' \in [UserID -> Seq(Waiting)]
             /\ Range(camera'[p]) \subseteq Range(camera[p])
             /\ camera[p][i] \in Waiting /\ camera[p][i] \in Range(camera[p])
  <2>1. /\ RemoveAt(camera[p], i) \in Seq(Waiting)
        /\ Range(RemoveAt(camera[p], i)) \subseteq Range(camera[p])
    BY <1>1, RemoveRange
  <2>2. camera[p][i] \in Waiting
    BY <1>1
  <2> QED BY <1>1, <1>3, <2>1, <2>2 DEF Range
<1> QED BY <1>2, <1>3

\* A page's state is well-formed whatever it does: an answer is only created
\* when there is an offer.
LEMMA RunOperationType ==
  ASSUME ClientTypeOK, NEW p \in UserID, PageInv(p), RunOperation(p)
  PROVE  /\ rtc' \in [UserID -> PeerConnection]
         /\ sent' \in [UserID -> Seq(Message)]
         /\ ops' \in [UserID -> Seq(Operation)]
         /\ gathering' \in [UserID -> Nat]
         /\ refused' \in [UserID -> Nat]
<1> DEFINE Goal == /\ rtc' \in [UserID -> PeerConnection]
                   /\ sent' \in [UserID -> Seq(Message)]
                   /\ ops' \in [UserID -> Seq(Operation)]
                   /\ gathering' \in [UserID -> Nat]
                   /\ refused' \in [UserID -> Nat]
<1>1. /\ rtc \in [UserID -> PeerConnection] /\ rtc[p] \in PeerConnection
      /\ sent \in [UserID -> Seq(Message)]
      /\ gathering \in [UserID -> Nat]
      /\ refused \in [UserID -> Nat]
      /\ ops[p] # << >>
  BY DEF ClientTypeOK, RunOperation
<1>2. Current(p) \in Operation
  BY <1>1, CurrentType
<1>3. Current(p).desc \in Description \cup {None} /\ Current(p).session \in SessionID \cup {None}
  BY <1>2 DEF Operation
<1>4. \A d \in Description : Create(p, d) /\ d.n \in Nat => rtc' \in [UserID -> PeerConnection]
  <2> SUFFICES ASSUME NEW d \in Description, Create(p, d), d.n \in Nat
               PROVE  rtc' \in [UserID -> PeerConnection]
    OBVIOUS
  <2>1. [rtc[p] EXCEPT !.created = d, !.made = d.n] \in PeerConnection
    BY <1>1 DEF PeerConnection
  <2>2. rtc' = [rtc EXCEPT ![p] = [rtc[p] EXCEPT !.created = d, !.made = d.n]]
    BY <1>1 DEF Create
  <2> QED BY <1>1, <2>1, <2>2
<1>5. Gather(p) => gathering' \in [UserID -> Nat]
  BY <1>1, ClientAssumption DEF Gather
<1>6. \A d \in Description : d.n \in Nat
  BY DEF Description
<1>7. CASE CreateOffer(p)
  <2>1. NewOffer(p) \in Description
    BY NewDescriptionType
  <2>2. Create(p, NewOffer(p)) /\ Continue(p, "set_local_offer", NewOffer(p))
    BY <1>7 DEF CreateOffer
  <2>3. ops' \in [UserID -> Seq(Operation)]
    BY <1>1, <2>1, <2>2, ContinueType DEF OpNames
  <2> QED BY <1>1, <1>4, <1>6, <1>7, <2>1, <2>2, <2>3 DEF CreateOffer
<1>8. CASE SetLocalOffer(p)
  <2>1. rtc' \in [UserID -> PeerConnection]
    BY <1>1, <1>3, <1>8 DEF SetLocalOffer, PeerConnection, Signaling
  <2>2. sent' \in [UserID -> Seq(Message)]
    BY <1>3, <1>8, SendType DEF SetLocalOffer, Requests, Relayed
  <2> QED BY <1>1, <1>5, <1>8, <2>1, <2>2, FinishType DEF SetLocalOffer
<1>9. CASE SetRemoteOffer(p)
  <2>1. rtc' \in [UserID -> PeerConnection]
    BY <1>1, <1>3, <1>9 DEF SetRemoteOffer, PeerConnection, Signaling
  <2>2. ops' \in [UserID -> Seq(Operation)]
    BY <1>1, <1>9, ContinueType DEF OpNames, SetRemoteOffer
  <2> QED BY <1>1, <1>9, <2>1, <2>2 DEF SetRemoteOffer
<1>10. CASE CreateAnswer(p)
  <2>1. NewAnswer(p) \in Description
    BY <1>10, NewDescriptionType DEF CreateAnswer, PageInv
  <2>2. Create(p, NewAnswer(p)) /\ Continue(p, "set_local_answer", NewAnswer(p))
    BY <1>10 DEF CreateAnswer
  <2>3. ops' \in [UserID -> Seq(Operation)]
    BY <1>1, <2>1, <2>2, ContinueType DEF OpNames
  <2> QED BY <1>1, <1>4, <1>6, <1>10, <2>1, <2>2, <2>3 DEF CreateAnswer
<1>11. CASE SetLocalAnswer(p)
  <2>1. rtc' \in [UserID -> PeerConnection]
    BY <1>1, <1>3, <1>11 DEF SetLocalAnswer, PeerConnection, Signaling
  <2>2. sent' \in [UserID -> Seq(Message)]
    BY <1>3, <1>11, SendType DEF SetLocalAnswer, Requests, Relayed
  <2> QED BY <1>1, <1>5, <1>11, <2>1, <2>2, FinishType DEF SetLocalAnswer
<1>12. CASE SetRemoteAnswer(p)
  <2>1. rtc' \in [UserID -> PeerConnection]
    BY <1>1, <1>3, <1>12 DEF SetRemoteAnswer, PeerConnection, Signaling
  <2> QED BY <1>1, <1>12, <2>1, FinishType DEF SetRemoteAnswer
<1>13. CASE AddIceCandidate(p)
  BY <1>1, <1>13, FinishType DEF AddIceCandidate
<1>14. CASE Rejected(p)
  BY <1>1, <1>14, FinishType DEF Rejected
<1> QED BY <1>7, <1>8, <1>9, <1>10, <1>11, <1>12, <1>13, <1>14 DEF RunOperation

LEMMA PageStepType ==
  ASSUME ClientTypeOK, NEW p \in UserID, PageInv(p), PageStep(p)
  PROVE  ClientTypeOK'
<1>1. CASE ClickStart(p)
  <2>1. clicks' \in [UserID -> [Button -> Nat]]
    BY <1>1, ClickType DEF ClickStart, Button
  <2>2. sent' \in [UserID -> Seq(Message)]
    BY <1>1, SendType DEF ClickStart, Requests
  <2>3. camera' \in [UserID -> Seq(Waiting)]
    <3>1. [for |-> "start", session |-> None] \in Waiting
      BY DEF Waiting
    <3> QED BY <1>1, <3>1, CameraType DEF ClickStart
  <2> QED BY <1>1, <2>1, <2>2, <2>3 DEF ClickStart, ClientTypeOK, screen
<1>2. CASE ClickConnect(p)
  <2>1. clicks' \in [UserID -> [Button -> Nat]]
    BY <1>2, ClickType DEF ClickConnect, Button
  <2>2. sent' \in [UserID -> Seq(Message)]
    BY <1>2, SendType DEF ClickConnect, Requests
  <2> QED BY <1>2, <2>1, <2>2 DEF ClickConnect, ClientTypeOK, screen
<1>3. CASE ClickDebug(p)
  <2>1. clicks' \in [UserID -> [Button -> Nat]]
    BY <1>3, ClickType DEF ClickDebug, Button
  <2>2. sent' \in [UserID -> Seq(Message)]
    BY <1>3, SendType DEF ClickDebug, Requests
  <2> QED BY <1>3, <2>1, <2>2 DEF ClickDebug, ClientTypeOK, screen
<1>4. CASE CameraGranted(p)
  <2>1. PICK i \in DOMAIN camera[p] :
          /\ camera' = [camera EXCEPT ![p] = RemoveAt(@, i)]
          /\ \/ Await(p, "create_offer", None, camera[p][i].session)
             \/ UNCHANGED ops
          /\ video' = [video EXCEPT ![p][OwnPane(camera[p][i].for)] = "own"]
    BY <1>4 DEF CameraGranted, AfterVideo
  <2>2. camera' \in [UserID -> Seq(Waiting)] /\ camera[p][i] \in Waiting
    BY <2>1, CameraType
  <2>3. camera[p][i].session \in SessionID \cup {None}
    BY <2>2 DEF Waiting
  <2>4. ops' \in [UserID -> Seq(Operation)]
    BY <2>1, <2>3, AwaitType DEF OpNames, ClientTypeOK
  <2>5. video' \in [UserID -> [Pane -> {"nothing", "own", "remote"}]]
    BY <2>1 DEF ClientTypeOK, Pane, OwnPane
  <2>6. rtc' \in [UserID -> PeerConnection]
    <3>1. rtc' = [rtc EXCEPT ![p].streams = @ + 1] /\ rtc \in [UserID -> PeerConnection]
      BY <1>4 DEF CameraGranted, ClientTypeOK
    <3> QED BY <3>1 DEF PeerConnection
  <2> QED BY <1>4, <2>2, <2>4, <2>5, <2>6 DEF CameraGranted, ClientTypeOK
<1>5. CASE CameraRefused(p)
  <2>1. camera' \in [UserID -> Seq(Waiting)]
    BY <1>5, CameraType DEF CameraRefused
  <2> QED BY <1>5, <2>1 DEF CameraRefused, ClientTypeOK, screen
<1>6. CASE RunOperation(p)
  BY <1>6, RunOperationType DEF RunOperation, ClientTypeOK, screen
<1>7. CASE OnCandidate(p)
  <2>1. session_id[p] \in SessionID \cup {None} /\ sent \in [UserID -> Seq(Message)]
    BY DEF ClientTypeOK
  <2>2. sent' \in [UserID -> Seq(Message)]
    BY <1>7, <2>1, SendType DEF OnCandidate, Requests, Relayed
  <2>3. /\ sleeping \in [UserID -> Nat] /\ gathering \in [UserID -> Nat]
        /\ sleeping' \in {sleeping, [sleeping EXCEPT ![p] = @ + 1]}
        /\ gathering[p] > 0 /\ gathering' = [gathering EXCEPT ![p] = @ - 1]
    BY <1>7 DEF OnCandidate, ClientTypeOK
  <2>4. sleeping' \in [UserID -> Nat] /\ gathering' \in [UserID -> Nat]
    BY <2>3
  <2> QED BY <1>7, <2>2, <2>4 DEF OnCandidate, ClientTypeOK, screen
<1>8. CASE RetryCandidate(p)
  <2>1. session_id[p] \in SessionID \cup {None}
    BY DEF ClientTypeOK
  <2>2. sent' \in [UserID -> Seq(Message)]
    BY <1>8, <2>1, SendType DEF RetryCandidate, Requests, Relayed
  <2>3. sleeping' \in [UserID -> Nat]
    BY <1>8 DEF RetryCandidate, ClientTypeOK
  <2> QED BY <1>8, <2>2, <2>3 DEF RetryCandidate, ClientTypeOK, screen
<1>9. CASE OnConnected(p)
  BY <1>9 DEF OnConnected, ClientTypeOK, RemotePane, Pane
<1> QED BY <1>1, <1>2, <1>3, <1>4, <1>5, <1>6, <1>7, <1>8, <1>9 DEF PageStep

LEMMA OnMessageType ==
  ASSUME ClientTypeOK, NEW p \in UserID, NEW m \in SignalEnum,
         NEW d \in Description \cup {None}, OnMessage(p, m, d)
  PROVE  ClientTypeOK'
<1>1. m.session \in SessionID \cup {None} /\ m.by \in UserID \cup {None}
  BY DEF SignalEnum
<1>2. ops' \in [UserID -> Seq(Operation)]
  BY <1>1, AwaitType DEF OnMessage, OnVideoOffer, OnVideoAnswer, OnIceCandidate, OnSessionReady,
     OnSessionJoinSuccess, OnNewUser, OnOther, OpNames, ClientTypeOK
<1>3. camera' \in [UserID -> Seq(Waiting)]
  <2>1. [for |-> "offer", session |-> m.session] \in Waiting
    BY <1>1 DEF Waiting
  <2>2. CASE OnSessionJoinSuccess(p, m)
    BY <2>1, <2>2, CameraType DEF OnSessionJoinSuccess
  <2>3. CASE ~OnSessionJoinSuccess(p, m)
    BY <2>3 DEF OnMessage, OnVideoOffer, OnVideoAnswer, OnIceCandidate, OnSessionReady,
       OnNewUser, OnOther, ClientTypeOK
  <2> QED BY <2>2, <2>3
<1>4. /\ session_id' \in [UserID -> SessionID \cup {None}]
      /\ user_id' \in [UserID -> UserID \cup {None}]
  BY <1>1 DEF OnMessage, OnVideoOffer, OnVideoAnswer, OnIceCandidate, OnSessionReady,
     OnSessionJoinSuccess, OnNewUser, OnOther, ClientTypeOK
<1> QED BY <1>2, <1>3, <1>4 DEF OnMessage, ClientTypeOK, screen

-------------------------------------------------------------------------------
(* The server's half of a step. *)

\* What the server reads is a message that its clients may send.
LEMMA ReadIsReceive ==
  ASSUME CallInv, NEW p \in UserID, ServerReads(p), "ICEError" \notin ClientKinds
  PROVE  Receive(p) /\ Wire(p, received[p] + 1) \in ClientMessages(p)
<1> DEFINE n == received[p] + 1
           m == sent[p][n]
<1>1. received[p] \in Nat /\ sent[p] \in Seq(Message) /\ n \in 1..Len(sent[p])
  BY DEF ServerReads, CallInv, RoutingInv, TypeOK, ClientTypeOK
<1>2. m \in Message /\ m \in Range(sent[p])
  BY <1>1 DEF Range
<1>3. MaySend(p, m)
  BY <1>2 DEF CallInv, PageInv
<1>4. m.kind \in ClientKinds /\ m.kind \notin Replies /\ m.session \in SessionID \cup {None}
  BY <1>2, <1>3, CallAssumption DEF Message, MaySend, Requests, Relayed, Replies
<1>5. Wire(p, n) = [kind |-> m.kind, session |-> m.session, by |-> p, seq |-> n]
  BY DEF Wire
<1> HIDE DEF m
<1>6. Wire(p, n) \in ClientMessages(p)
  BY <1>3, <1>4, <1>5 DEF ClientMessages, MaySend
<1> QED BY <1>6 DEF ServerReads, Receive

LEMMA ServerHalf ==
  ASSUME CallInv, "ICEError" \notin ClientKinds, [CallNext]_callVars
  PROVE  [Next]_vars
<1>1. ASSUME NEW p \in UserID, Connect(p) PROVE [Next]_vars
  BY <1>1 DEF Connect, Next
<1>2. ASSUME NEW p \in UserID, Depart(p) PROVE [Next]_vars
  BY <1>2 DEF Depart, Next
<1>3. ASSUME NEW p \in UserID, ServerReads(p) PROVE [Next]_vars
  BY <1>3, ReadIsReceive DEF Next
<1>4. ASSUME NEW p \in UserID, PageReads(p) PROVE [Next]_vars
  BY <1>4 DEF PageReads, Next
<1>5. ASSUME NEW p \in UserID, ServerStep(p) PROVE [Next]_vars
  BY <1>5 DEF ServerStep, Next
<1>6. ASSUME NEW p \in UserID, PageActs(p) PROVE [Next]_vars
  BY <1>6 DEF PageActs
<1>7. CASE UNCHANGED callVars
  BY <1>7 DEF callVars
<1> QED BY <1>1, <1>2, <1>3, <1>4, <1>5, <1>6, <1>7 DEF CallNext

LEMMA TransitRead ==
  ASSUME TypeOK, NEW c \in UserID, NEW w, HandleMessage(c, w),
         NEW m \in SignalEnum, InTransit(m)'
  PROVE  InTransit(m) \/ m = w
<1>1. \A d \in UserID : out'[d] \in {out[d], << >>}
  BY DEF HandleMessage, HandleICEError, TypeOK
<1>2. \A d \in UserID : m \in Range(out'[d]) => m \in Range(out[d])
  <2>1. Range(<< >>) = {}
    BY DEF Range
  <2> QED BY <1>1, <2>1
<1>3. ASSUME NEW e \in UserID, pc'[e] = "sending", envelope'[e].msg = m, m.kind \in Relayed
      PROVE  (pc[e] = "sending" /\ envelope[e].msg = m) \/ m = w
  <2>1. CASE e # c
    <3>1. envelope'[e] = envelope[e] /\ pc'[e] = pc[e]
      BY <2>1 DEF HandleMessage, HandleVideoOffer, HandleVideoAnswer, HandleIceCandidate,
         HandleSessionNew, HandleSessionJoin, HandleNothing, HandleICEError, Prepare, ReturnErr, TypeOK
    <3> QED BY <1>3, <3>1
  <2>2. CASE e = c
    <3>1. \A r, dest : Prepare(c, r, dest) => envelope'[c].msg = r
      BY DEF Prepare, TypeOK
    <3>2. ~ReturnErr
      BY <1>3, <2>2 DEF ReturnErr, HandleMessage
    <3>3. CASE HandleVideoOffer(c, w) \/ HandleVideoAnswer(c, w) \/ HandleIceCandidate(c, w)
      BY <1>3, <2>2, <3>1, <3>2, <3>3 DEF HandleVideoOffer, HandleVideoAnswer, HandleIceCandidate
    <3>4. CASE HandleSessionNew(c, w)
      BY <1>3, <2>2, <3>1, <3>4 DEF HandleSessionNew, SessionReady, Relayed
    <3>5. CASE HandleSessionJoin(c, w)
      BY <1>3, <2>2, <3>1, <3>5 DEF HandleSessionJoin, SessionJoinSuccess, SessionJoinError, Relayed
    <3>6. CASE HandleNothing(c, w)
      BY <3>2, <3>6 DEF HandleNothing
    <3>7. CASE HandleICEError(c, w)
      BY <1>3, <2>2, <3>7 DEF HandleICEError, TypeOK
    <3> QED BY <3>3, <3>4, <3>5, <3>6, <3>7 DEF HandleMessage
  <2> QED BY <2>1, <2>2
<1> QED BY <1>2, <1>3 DEF InTransit

LEMMA TransitQuiet ==
  ASSUME TypeOK, NEW c \in UserID, NEW m \in SignalEnum, InTransit(m)',
         \/ \E a \in Addr : Accept(c, a)
         \/ Close(c) \/ Forward(c) \/ TaskStep(c) \/ UNCHANGED vars
  PROVE  InTransit(m)
<1>1. \A e \in UserID : pc'[e] = "sending" => pc[e] = "sending" /\ envelope'[e] = envelope[e]
  BY DEF TaskStep, Accept, ListUser, ReplyWithID, Close, Forward, Deliver, Leave,
     UnmapPeer, UnlistUser, CollectSessions, CloseSession, End, vars, TypeOK
<1>2. m.kind \in Relayed
  BY DEF InTransit
<1>3. \A d \in UserID : out[d] \in Seq(SignalEnum)
  BY DEF TypeOK
<1>4. \A d \in UserID : \A x \in SignalEnum : Range(Append(out[d], x)) = Range(out[d]) \cup {x}
  BY <1>3, AppendRange
<1>5. ASSUME NEW d \in UserID, m \in Range(out'[d])
      PROVE  InTransit(m)
  <2>1. CASE Forward(c)
    <3>1. out'[d] = out[d] \/ (out[d] # << >> /\ out'[d] = Tail(out[d]))
      BY <2>1 DEF Forward, TypeOK
    <3>2. Range(out'[d]) \subseteq Range(out[d])
      BY <1>3, <3>1, TailRange
    <3> QED BY <1>2, <1>5, <3>2 DEF InTransit
  <2>2. CASE ReplyWithID(c)
    <3>1. out'[d] = out[d] \/ out'[d] = Append(out[d], NewUser(c))
      BY <2>2 DEF ReplyWithID, TypeOK
    <3>2. Range(out'[d]) \subseteq Range(out[d]) \cup {NewUser(c)}
      BY <1>4, <3>1, ReplyTypes
    <3> QED BY <1>2, <1>5, <3>2 DEF InTransit, NewUser, Relayed
  <2>3. CASE Deliver(c)
    <3>1. out'[d] = out[d] \/ out'[d] = Append(out[d], envelope[c].msg)
      BY <2>3 DEF Deliver, Enqueue, TypeOK
    <3>2. envelope[c].msg \in SignalEnum
      BY DEF TypeOK
    <3>3. Range(out'[d]) \subseteq Range(out[d]) \cup {envelope[c].msg}
      BY <1>4, <3>1, <3>2
    <3> QED BY <1>2, <1>5, <2>3, <3>3 DEF InTransit, Deliver
  <2>4. CASE End(c)
    <3>1. out'[d] = out[d] \/ out'[d] = << >>
      BY <2>4 DEF End, TypeOK
    <3>2. Range(<< >>) = {}
      BY DEF Range
    <3> QED BY <1>2, <1>5, <3>1, <3>2 DEF InTransit
  <2>5. CASE ~(Forward(c) \/ ReplyWithID(c) \/ Deliver(c) \/ End(c))
    <3>1. out' = out
      BY <2>5 DEF TaskStep, Accept, ListUser, Close, Leave,
         UnmapPeer, UnlistUser, CollectSessions, CloseSession, vars
    <3> QED BY <1>2, <1>5, <3>1 DEF InTransit
  <2> QED BY <2>1, <2>2, <2>3, <2>4, <2>5
<1> QED BY <1>1, <1>5 DEF InTransit

-------------------------------------------------------------------------------
(* The pages' half. *)

\* What a page may do, it may do as sessions get more members.
LEMMA PagesStable ==
  ASSUME HistoryGrows, NEW p \in UserID
  PROVE  /\ \A s : Hosting(p, s) => Hosting(p, s)'
         /\ \A s : Joined(p, s) => Joined(p, s)'
         /\ \A m : MaySend(p, m) => MaySend(p, m)'
         /\ \A o, n : MayRun(p, o, n) => MayRun(p, o, n)'
<1>1. \A s : Hosting(p, s) => Hosting(p, s)'
  BY NoneIsNoIdentifier DEF HistoryGrows, Hosting
<1>2. \A s : Joined(p, s) => Joined(p, s)'
  BY DEF HistoryGrows, Joined
<1> QED BY <1>1, <1>2 DEF MaySend, MayRun

LEMMA PageUnmoved ==
  ASSUME HistoryGrows, NEW p \in UserID, PageInv(p),
         UNCHANGED <<sent[p], camera[p], ops[p], rtc[p], session_id[p]>>
  PROVE  PageInv(p)'
BY PagesStable DEF PageInv

\* What a page is told concerns it, and a description that reaches it is there.
LEMMA Heard ==
  ASSUME CallInv, NEW p \in UserID, out[p] # << >>
  PROVE  LET m == Head(out[p])
         IN  /\ m \in SignalEnum
             /\ m.kind \in {"VideoOffer", "SessionReady"} => Hosting(p, m.session)
             /\ m.kind = "SessionJoinSuccess" => Joined(p, m.session)
             /\ Text(m) \in Description \cup {None}
             /\ m.kind = "VideoOffer" => Text(m) \in Description
<1> DEFINE m == Head(out[p])
<1>1. out[p] \in Seq(SignalEnum)
  BY DEF CallInv, RoutingInv, TypeOK
<1>2. m \in SignalEnum /\ 1 \in DOMAIN out[p] /\ m = out[p][1]
  BY <1>1
<1> HIDE DEF m
<1>3. For(p, m, host_of, guests_of)
  BY <1>2 DEF CallInv, RoutingInv, QueuesAddressed
<1>4. /\ m.kind \in {"VideoOffer", "SessionReady"} => Hosting(p, m.session)
      /\ m.kind = "SessionJoinSuccess" => Joined(p, m.session)
  BY <1>3 DEF For, Concerns, SessionKinds, Relayed, Hosting, Joined
<1>5. ASSUME m.kind \in Relayed
      PROVE  /\ Text(m) \in Description \cup {None}
             /\ m.kind = "VideoOffer" => Text(m) \in Description
  <2>1. IsSent(m)
    BY <1>2, <1>5 DEF CallInv, Traced, InTransit, Range
  <2>2. sent[m.by] \in Seq(Message)
    BY <2>1 DEF IsSent, CallInv, ClientTypeOK
  <2>3. /\ sent[m.by][m.seq] \in Message
        /\ MaySend(m.by, sent[m.by][m.seq])
    BY <2>1, <2>2 DEF IsSent, CallInv, PageInv, Range
  <2> QED BY <1>5, <2>1, <2>3 DEF IsSent, Text, Message, MaySend
<1>6. m.kind \notin Relayed => Text(m) = None
  BY DEF Text
<1> QED BY <1>2, <1>4, <1>5, <1>6 DEF m, Relayed

LEMMA HeardInv ==
  ASSUME ClientTypeOK, HistoryGrows, NEW p \in UserID, PageInv(p),
         NEW m \in SignalEnum, NEW d \in Description \cup {None},
         m.kind \in {"VideoOffer", "SessionReady"} => Hosting(p, m.session),
         m.kind = "SessionJoinSuccess" => Joined(p, m.session),
         m.kind = "VideoOffer" => d \in Description,
         OnMessage(p, m, d)
  PROVE  PageInv(p)'
<1>1. m.session \in SessionID \cup {None} /\ UNCHANGED <<sent, rtc>>
  BY DEF OnMessage, SignalEnum
<1>2. ClientTypeOK /\ PageInv(p)
  OBVIOUS
<1>3. OnMessage(p, m, d)
  OBVIOUS
<1>4. \A w \in Range(camera'[p]) : w.for = "offer" => Joined(p, w.session)'
  <2>1. CASE OnSessionJoinSuccess(p, m)
    <3>1. [for |-> "offer", session |-> m.session] \in Waiting
      BY <1>1 DEF Waiting
    <3>2. Range(camera'[p]) = Range(camera[p]) \cup {[for |-> "offer", session |-> m.session]}
      BY <1>2, <2>1, <3>1, CameraType DEF OnSessionJoinSuccess
    <3>3. Joined(p, m.session)
      BY <2>1 DEF OnSessionJoinSuccess
    <3> QED BY <1>2, <3>2, <3>3, PagesStable DEF PageInv
  <2>2. CASE ~OnSessionJoinSuccess(p, m)
    <3>1. camera' = camera
      BY <1>3, <2>2 DEF OnMessage, OnVideoOffer, OnVideoAnswer, OnIceCandidate, OnSessionReady,
         OnNewUser, OnOther
    <3> QED BY <1>2, <3>1, PagesStable DEF PageInv
  <2> QED BY <2>1, <2>2
<1>5. \A o \in Range(ops'[p]) : MayRun(p, o, rtc[p].streams)'
  <2>1. \A o \in Range(ops[p]) : MayRun(p, o, rtc[p].streams)'
    BY <1>1, <1>2, PagesStable DEF PageInv
  <2>2. ASSUME NEW op \in {"set_remote_offer", "set_remote_answer", "add_ice_candidate"},
               NEW e \in {d, None}, Await(p, op, e, m.session),
               op = "set_remote_offer" => Hosting(p, m.session) /\ e \in Description
        PROVE  \A o \in Range(ops'[p]) : MayRun(p, o, rtc[p].streams)'
    <3> DEFINE new == [op |-> op, desc |-> e, session |-> m.session]
    <3>1. op \in OpNames /\ e \in Description \cup {None}
      BY DEF OpNames
    <3>2. Range(ops'[p]) = Range(ops[p]) \cup {new}
      BY <1>1, <2>2, <3>1, AwaitType
    <3>3. MayRun(p, new, rtc[p].streams)'
      BY <2>2, PagesStable DEF MayRun
    <3> HIDE DEF new
    <3> QED BY <2>1, <3>2, <3>3
  <2>3. CASE OnVideoOffer(p, m, d)
    BY <1>1, <2>2, <2>3 DEF OnVideoOffer
  <2>4. CASE OnVideoAnswer(p, m, d)
    BY <1>1, <2>2, <2>4 DEF OnVideoAnswer
  <2>5. CASE OnIceCandidate(p, m)
    BY <1>1, <2>2, <2>5 DEF OnIceCandidate
  <2>6. CASE OnSessionReady(p, m) \/ OnSessionJoinSuccess(p, m) \/ OnNewUser(p, m) \/ OnOther(p, m)
    BY <2>1, <2>6 DEF OnSessionReady, OnSessionJoinSuccess, OnNewUser, OnOther
  <2> QED BY <1>3, <2>3, <2>4, <2>5, <2>6 DEF OnMessage
<1>6. session_id'[p] # None => Hosting(p, session_id[p])' \/ Joined(p, session_id[p])'
  <2>1. CASE OnSessionReady(p, m) \/ OnSessionJoinSuccess(p, m)
    <3>1. session_id'[p] = m.session
      BY <2>1 DEF OnSessionReady, OnSessionJoinSuccess, ClientTypeOK
    <3>2. Hosting(p, m.session) \/ Joined(p, m.session)
      BY <1>1, <2>1 DEF OnSessionReady, OnSessionJoinSuccess
    <3> QED BY <3>1, <3>2, PagesStable DEF Hosting, Joined
  <2>2. CASE ~(OnSessionReady(p, m) \/ OnSessionJoinSuccess(p, m))
    <3>1. session_id' = session_id
      BY <1>3, <2>2 DEF OnMessage, OnVideoOffer, OnVideoAnswer, OnIceCandidate, OnNewUser, OnOther
    <3> QED BY <1>2, <3>1, PagesStable DEF PageInv, Hosting, Joined
  <2> QED BY <2>1, <2>2
<1>7. \A x \in Range(sent'[p]) : MaySend(p, x)'
  BY <1>1, <1>2, PagesStable DEF PageInv
<1>8. rtc'[p].signaling = "have-remote-offer" => rtc'[p].remote \in Description
  BY <1>1, <1>2 DEF PageInv
<1> QED BY <1>4, <1>5, <1>6, <1>7, <1>8 DEF PageInv, Hosting, Joined

LEMMA SendInv ==
  ASSUME ClientTypeOK, HistoryGrows, NEW p \in UserID, PageInv(p), NEW kind \in Requests,
         NEW s \in SessionID \cup {None}, NEW d \in Description \cup {None}, Send(p, kind, s, d),
         MaySend(p, [kind |-> kind, session |-> s, desc |-> d])
  PROVE  \A m \in Range(sent'[p]) : MaySend(p, m)'
<1> DEFINE new == [kind |-> kind, session |-> s, desc |-> d]
<1>1. Range(sent'[p]) \subseteq Range(sent[p]) \cup {new}
  BY SendType
<1>2. MaySend(p, new)
  OBVIOUS
<1> HIDE DEF new
<1> QED BY <1>1, <1>2, PagesStable DEF PageInv

\* The operation that a handler goes on to is one that the page may run.
LEMMA ContinueInv ==
  ASSUME ClientTypeOK, HistoryGrows, NEW p \in UserID, PageInv(p), ops[p] # << >>,
         NEW op \in OpNames, NEW d \in Description \cup {None}, Continue(p, op, d),
         rtc'[p].streams = rtc[p].streams,
         MayRun(p, [op |-> op, desc |-> d, session |-> Current(p).session], rtc[p].streams)
  PROVE  \A o \in Range(ops'[p]) : MayRun(p, o, rtc[p].streams)'
<1> DEFINE new == [op |-> op, desc |-> d, session |-> Current(p).session]
<1>1. Range(ops'[p]) \subseteq Range(ops[p]) \cup {new}
  BY ContinueType
<1>2. \A o \in Range(ops[p]) \cup {new} : MayRun(p, o, rtc[p].streams)
  BY DEF PageInv
<1> HIDE DEF new
<1> QED BY <1>1, <1>2, PagesStable

LEMMA FinishInv ==
  ASSUME ClientTypeOK, HistoryGrows, NEW p \in UserID, PageInv(p), ops[p] # << >>,
         Finish(p), rtc'[p].streams = rtc[p].streams
  PROVE  \A o \in Range(ops'[p]) : MayRun(p, o, rtc[p].streams)'
BY FinishType, PagesStable DEF PageInv

LEMMA RunOperationInv ==
  ASSUME ClientTypeOK, HistoryGrows, NEW p \in UserID, PageInv(p), RunOperation(p)
  PROVE  PageInv(p)'
<1> DEFINE o == Current(p)
<1>1. /\ ops[p] # << >> /\ rtc[p] \in PeerConnection /\ rtc \in [UserID -> PeerConnection]
      /\ o \in Operation /\ MayRun(p, o, rtc[p].streams)
  BY CurrentType DEF RunOperation, ClientTypeOK, PageInv
<1>2. o.session \in SessionID \cup {None} /\ o.desc \in Description \cup {None}
  BY <1>1 DEF Operation
<1>3. UNCHANGED <<camera, session_id>>
  BY DEF RunOperation
<1> DEFINE Sent == \A m \in Range(sent'[p]) : MaySend(p, m)'
           Ops  == \A x \in Range(ops'[p]) : MayRun(p, x, rtc[p].streams)'
           Rtc  == rtc'[p].signaling = "have-remote-offer" => rtc'[p].remote \in Description
<1>4. ASSUME Sent, Ops, Rtc PROVE PageInv(p)'
  BY <1>3, <1>4, PagesStable DEF PageInv
<1>5. sent' = sent => Sent
  BY PagesStable DEF PageInv
<1> HIDE DEF Sent, Ops
<1>6. CASE CreateOffer(p)
  <2>1. NewOffer(p) \in Description /\ NewOffer(p).streams = rtc[p].streams
    BY NewDescriptionType
  <2>2. Create(p, NewOffer(p)) /\ Continue(p, "set_local_offer", NewOffer(p)) /\ o.op = "create_offer"
    BY <1>6 DEF CreateOffer
  <2>3. rtc'[p].streams = rtc[p].streams /\ Rtc
    BY <1>1, <1>6, <2>2 DEF Create, CreateOffer, PeerConnection
  <2>4. Joined(p, o.session) /\ rtc[p].streams > 0
    BY <1>1, <2>1, <2>2 DEF MayRun
  <2>5. MayRun(p, [op |-> "set_local_offer", desc |-> NewOffer(p), session |-> o.session], rtc[p].streams)
    BY <2>1, <2>4 DEF MayRun
  <2>6. Ops
    BY <1>1, <2>1, <2>2, <2>3, <2>5, ContinueInv DEF Ops, OpNames
  <2> QED BY <1>4, <1>5, <1>6, <2>3, <2>6 DEF CreateOffer
<1>7. CASE SetLocalOffer(p)
  <2>1. rtc'[p].streams = rtc[p].streams /\ Rtc
    BY <1>1, <1>7 DEF SetLocalOffer, PeerConnection
  <2>2. MaySend(p, [kind |-> "VideoOffer", session |-> o.session, desc |-> o.desc])
    BY <1>1, <1>7, NoneIsNoIdentifier DEF SetLocalOffer, MayRun, MaySend, Joined
  <2>3. Sent
    BY <1>2, <1>7, <2>2, SendInv DEF Sent, SetLocalOffer, Requests, Relayed
  <2>4. Ops
    BY <1>1, <1>7, <2>1, FinishInv DEF Ops, SetLocalOffer
  <2> QED BY <1>4, <2>1, <2>3, <2>4
<1>8. CASE SetRemoteOffer(p)
  <2>1. Hosting(p, o.session) /\ o.desc \in Description
    BY <1>1, <1>8 DEF SetRemoteOffer, MayRun
  <2>2. rtc'[p].streams = rtc[p].streams /\ Rtc
    BY <1>1, <1>8, <2>1 DEF SetRemoteOffer, PeerConnection
  <2>3. MayRun(p, [op |-> "create_answer", desc |-> None, session |-> o.session], rtc[p].streams)
    BY <2>1 DEF MayRun
  <2>4. Ops
    BY <1>1, <1>8, <2>2, <2>3, ContinueInv DEF Ops, OpNames, SetRemoteOffer
  <2> QED BY <1>4, <1>5, <1>8, <2>2, <2>4 DEF SetRemoteOffer
<1>9. CASE CreateAnswer(p)
  <2>1. NewAnswer(p) \in Description
    BY <1>9, NewDescriptionType DEF CreateAnswer, PageInv
  <2>2. Create(p, NewAnswer(p)) /\ Continue(p, "set_local_answer", NewAnswer(p)) /\ o.op = "create_answer"
    BY <1>9 DEF CreateAnswer
  <2>3. rtc'[p].streams = rtc[p].streams /\ Rtc
    BY <1>1, <1>9, <2>2 DEF Create, CreateAnswer, PeerConnection, PageInv
  <2>4. Hosting(p, o.session)
    BY <1>1, <2>1, <2>2 DEF MayRun
  <2>5. MayRun(p, [op |-> "set_local_answer", desc |-> NewAnswer(p), session |-> o.session], rtc[p].streams)
    BY <2>1, <2>4 DEF MayRun
  <2>6. Ops
    BY <1>1, <2>1, <2>2, <2>3, <2>5, ContinueInv DEF Ops, OpNames
  <2> QED BY <1>4, <1>5, <1>9, <2>3, <2>6 DEF CreateAnswer
<1>10. CASE SetLocalAnswer(p)
  <2>1. rtc'[p].streams = rtc[p].streams /\ Rtc
    BY <1>1, <1>10 DEF SetLocalAnswer, PeerConnection
  <2>2. MaySend(p, [kind |-> "VideoAnswer", session |-> o.session, desc |-> o.desc])
    BY <1>1, <1>10, NoneIsNoIdentifier DEF SetLocalAnswer, MayRun, MaySend, Hosting
  <2>3. Sent
    BY <1>2, <1>10, <2>2, SendInv DEF Sent, SetLocalAnswer, Requests, Relayed
  <2>4. Ops
    BY <1>1, <1>10, <2>1, FinishInv DEF Ops, SetLocalAnswer
  <2> QED BY <1>4, <2>1, <2>3, <2>4
<1>11. CASE SetRemoteAnswer(p)
  <2>1. rtc'[p].streams = rtc[p].streams /\ Rtc
    BY <1>1, <1>11 DEF SetRemoteAnswer, PeerConnection
  <2>2. Ops
    BY <1>1, <1>11, <2>1, FinishInv DEF Ops, SetRemoteAnswer
  <2> QED BY <1>4, <1>5, <1>11, <2>1, <2>2 DEF SetRemoteAnswer
<1>12. CASE AddIceCandidate(p) \/ Rejected(p)
  <2>1. rtc'[p].streams = rtc[p].streams /\ Rtc /\ sent' = sent /\ Finish(p)
    BY <1>12 DEF AddIceCandidate, Rejected, PageInv
  <2>2. Ops
    BY <1>1, <2>1, FinishInv DEF Ops
  <2> QED BY <1>4, <1>5, <2>1, <2>2
<1> QED BY <1>6, <1>7, <1>8, <1>9, <1>10, <1>11, <1>12 DEF RunOperation

LEMMA PageStepInv ==
  ASSUME ClientTypeOK, HistoryGrows, NEW p \in UserID, PageInv(p), PageStep(p)
  PROVE  PageInv(p)'
<1> DEFINE Sent   == \A m \in Range(sent'[p]) : MaySend(p, m)'
           Camera == \A w \in Range(camera'[p]) : w.for = "offer" => Joined(p, w.session)'
           Ops    == \A x \in Range(ops'[p]) : MayRun(p, x, rtc[p].streams)'
           Rtc    == rtc'[p].signaling = "have-remote-offer" => rtc'[p].remote \in Description
<1>1. ASSUME Sent, Camera, Ops, Rtc, UNCHANGED session_id PROVE PageInv(p)'
  BY <1>1, PagesStable DEF PageInv
<1>2. sent' = sent => Sent
  BY PagesStable DEF PageInv
<1>3. Range(camera'[p]) \subseteq Range(camera[p]) => Camera
  BY PagesStable DEF PageInv
<1>4. UNCHANGED <<ops, rtc>> => Ops /\ Rtc
  BY PagesStable DEF PageInv
<1> HIDE DEF Sent, Camera, Ops, Rtc
<1>5. CASE ClickStart(p)
  <2>1. MaySend(p, [kind |-> "SessionNew", session |-> None, desc |-> None])
    BY DEF MaySend
  <2>2. Sent
    BY <1>5, <2>1, SendInv DEF Sent, ClickStart, Requests
  <2>3. [for |-> "start", session |-> None] \in Waiting
    BY DEF Waiting
  <2>4. Range(camera'[p]) = Range(camera[p]) \cup {[for |-> "start", session |-> None]}
    BY <1>5, <2>3, CameraType DEF ClickStart
  <2>5. Camera
    BY <2>4, PagesStable DEF Camera, PageInv
  <2> QED BY <1>1, <1>4, <1>5, <2>2, <2>5 DEF ClickStart
<1>6. CASE ClickConnect(p)
  <2>1. PICK s \in SessionID : Send(p, "SessionJoin", s, None)
    BY <1>6 DEF ClickConnect
  <2>2. MaySend(p, [kind |-> "SessionJoin", session |-> s, desc |-> None])
    BY NoneIsNoIdentifier DEF MaySend
  <2>3. Sent
    BY <2>1, <2>2, SendInv DEF Sent, Requests
  <2> QED BY <1>1, <1>3, <1>4, <1>6, <2>3 DEF ClickConnect
<1>7. CASE ClickDebug(p)
  <2>1. MaySend(p, [kind |-> "Debug", session |-> None, desc |-> None])
    BY DEF MaySend
  <2>2. Sent
    BY <1>7, <2>1, SendInv DEF Sent, ClickDebug, Requests
  <2> QED BY <1>1, <1>3, <1>4, <1>7, <2>2 DEF ClickDebug
<1>8. CASE CameraGranted(p)
  <2>1. PICK i \in DOMAIN camera[p] :
          /\ camera' = [camera EXCEPT ![p] = RemoveAt(@, i)]
          /\ \/ camera[p][i].for = "offer" /\ Await(p, "create_offer", None, camera[p][i].session)
             \/ UNCHANGED ops
    BY <1>8 DEF CameraGranted, AfterVideo
  <2>2. /\ Range(camera'[p]) \subseteq Range(camera[p])
        /\ camera[p][i] \in Waiting /\ camera[p][i] \in Range(camera[p])
    BY <2>1, CameraType
  <2>3. /\ rtc'[p].streams = rtc[p].streams + 1 /\ rtc[p].streams \in Nat
        /\ rtc'[p].signaling = rtc[p].signaling /\ rtc'[p].remote = rtc[p].remote
    BY <1>8 DEF CameraGranted, ClientTypeOK, PeerConnection
  <2>4. Rtc
    BY <2>3 DEF Rtc, PageInv
  <2> DEFINE s == camera[p][i].session
             new == [op |-> "create_offer", desc |-> None, session |-> s]
  <2>5. \A x \in Range(ops[p]) : MayRun(p, x, rtc'[p].streams)
    BY <2>3 DEF PageInv, MayRun
  <2>6. camera[p][i].for = "offer" => MayRun(p, new, rtc'[p].streams)
    BY <2>2, <2>3 DEF PageInv, MayRun
  <2>7. s \in SessionID \cup {None}
    BY <2>2 DEF Waiting
  <2> HIDE DEF s
  <2>8. Await(p, "create_offer", None, s) => Range(ops'[p]) = Range(ops[p]) \cup {new}
    BY <2>7, AwaitType DEF OpNames
  <2> HIDE DEF new
  <2>9. \A x \in Range(ops'[p]) : MayRun(p, x, rtc'[p].streams)
    BY <2>1, <2>5, <2>6, <2>8 DEF s
  <2>10. Ops
    BY <2>9, PagesStable DEF Ops
  <2> QED BY <1>1, <1>2, <1>3, <1>8, <2>2, <2>4, <2>10 DEF CameraGranted
<1>9. CASE CameraRefused(p)
  <2>1. Range(camera'[p]) \subseteq Range(camera[p])
    BY <1>9, CameraType DEF CameraRefused
  <2> QED BY <1>1, <1>2, <1>3, <1>4, <1>9, <2>1 DEF CameraRefused
<1>10. CASE RunOperation(p)
  BY <1>10, RunOperationInv
<1>11. CASE OnCandidate(p) \/ RetryCandidate(p)
  <2>1. session_id[p] \in SessionID \cup {None}
    BY DEF ClientTypeOK
  <2>2. session_id[p] # None =>
          MaySend(p, [kind |-> "IceCandidate", session |-> session_id[p], desc |-> None])
    BY DEF MaySend
  <2>3. sent' = sent \/ (session_id[p] # None /\ Send(p, "IceCandidate", session_id[p], None))
    BY <1>11 DEF OnCandidate, RetryCandidate
  <2>4. Sent
    BY <1>2, <2>1, <2>2, <2>3, SendInv DEF Sent, Requests, Relayed
  <2> QED BY <1>1, <1>3, <1>4, <1>11, <2>4 DEF OnCandidate, RetryCandidate
<1>12. CASE OnConnected(p)
  BY <1>1, <1>2, <1>3, <1>4, <1>12 DEF OnConnected
<1> QED BY <1>5, <1>6, <1>7, <1>8, <1>9, <1>10, <1>11, <1>12 DEF PageStep

\* A step of one page leaves the others alone.
LEMMA OtherPages ==
  ASSUME ClientTypeOK, NEW p \in UserID, NEW q \in UserID, q # p,
         PageStep(p) \/ \E m, d : OnMessage(p, m, d)
  PROVE  UNCHANGED <<sent[q], camera[q], ops[q], rtc[q], session_id[q]>>
<1>1. CASE PageStep(p)
  <2>1. CASE RunOperation(p)
    <3>1. rtc'[q] = rtc[q]
      BY <2>1 DEF RunOperation, CreateOffer, SetLocalOffer, SetRemoteOffer, CreateAnswer,
         SetLocalAnswer, SetRemoteAnswer, AddIceCandidate, Rejected, Create, ClientTypeOK
    <3>2. sent'[q] = sent[q]
      BY <2>1 DEF RunOperation, CreateOffer, SetLocalOffer, SetRemoteOffer, CreateAnswer,
         SetLocalAnswer, SetRemoteAnswer, AddIceCandidate, Rejected, Send, ClientTypeOK
    <3>3. ops'[q] = ops[q]
      BY <2>1 DEF RunOperation, CreateOffer, SetLocalOffer, SetRemoteOffer, CreateAnswer,
         SetLocalAnswer, SetRemoteAnswer, AddIceCandidate, Rejected, Continue, Finish, ClientTypeOK
    <3> QED BY <2>1, <3>1, <3>2, <3>3 DEF RunOperation
  <2>2. CASE CameraGranted(p) \/ CameraRefused(p)
    <3>0. ops' = ops \/ \E x, y, z : Await(p, x, y, z)
      BY <2>2 DEF CameraGranted, AfterVideo, CameraRefused
    <3>1. ops'[q] = ops[q]
      BY <3>0 DEF Await, ClientTypeOK
    <3>2. PICK i : camera' = [camera EXCEPT ![p] = RemoveAt(@, i)]
      BY <2>2 DEF CameraGranted, CameraRefused
    <3>3. camera'[q] = camera[q]
      BY <3>2 DEF ClientTypeOK
    <3>4. rtc'[q] = rtc[q] /\ UNCHANGED <<sent, session_id>>
      BY <2>2 DEF CameraGranted, CameraRefused, ClientTypeOK
    <3> QED BY <3>1, <3>3, <3>4
  <2>3. CASE ClickStart(p) \/ ClickConnect(p) \/ ClickDebug(p)
    BY <2>3 DEF ClickStart, ClickConnect, ClickDebug, Send, ClientTypeOK
  <2>4. CASE OnCandidate(p) \/ RetryCandidate(p) \/ OnConnected(p)
    BY <2>4 DEF OnCandidate, RetryCandidate, OnConnected, Send, ClientTypeOK
  <2> QED BY <1>1, <2>1, <2>2, <2>3, <2>4 DEF PageStep
<1>2. ASSUME NEW m, NEW d, OnMessage(p, m, d)
      PROVE  UNCHANGED <<sent[q], camera[q], ops[q], rtc[q], session_id[q]>>
  BY <1>2 DEF OnMessage, OnVideoOffer, OnVideoAnswer, OnIceCandidate, OnSessionReady,
     OnSessionJoinSuccess, OnNewUser, OnOther, Await, ClientTypeOK
<1> QED BY <1>1, <1>2

\* What has been sent stays sent.
LEMMA SentGrows ==
  ASSUME ClientTypeOK, NEW p \in UserID, PageStep(p)
  PROVE  \A q \in UserID : \A i \in DOMAIN sent[q] : i \in DOMAIN sent'[q] /\ sent'[q][i] = sent[q][i]
<1>1. ASSUME NEW kind, NEW s, NEW d, Send(p, kind, s, d)
      PROVE  \A i \in DOMAIN sent[p] : i \in DOMAIN sent'[p] /\ sent'[p][i] = sent[p][i]
  <2>1. sent \in [UserID -> Seq(Message)] /\ sent[p] \in Seq(Message)
    BY DEF ClientTypeOK
  <2> DEFINE m == [kind |-> kind, session |-> s, desc |-> d]
  <2>2. sent' = sent \/ sent' = [sent EXCEPT ![p] = Append(sent[p], m)]
    BY <1>1 DEF Send
  <2> HIDE DEF m
  <2>3. \A i \in DOMAIN sent[p] : i \in DOMAIN Append(sent[p], m) /\ Append(sent[p], m)[i] = sent[p][i]
    BY <2>1
  <2>4. sent'[p] \in {sent[p], Append(sent[p], m)}
    BY <2>1, <2>2
  <2> QED BY <2>3, <2>4
<1>2. sent' = sent \/ \E kind, s, d : Send(p, kind, s, d)
  <2>1. RunOperation(p) => sent' = sent \/ \E kind, s, d : Send(p, kind, s, d)
    BY DEF RunOperation, CreateOffer, SetLocalOffer, SetRemoteOffer, CreateAnswer, SetLocalAnswer,
       SetRemoteAnswer, AddIceCandidate, Rejected
  <2>2. OnCandidate(p) \/ RetryCandidate(p) => sent' = sent \/ \E kind, s, d : Send(p, kind, s, d)
    BY DEF OnCandidate, RetryCandidate
  <2> QED BY <2>1, <2>2
      DEF PageStep, ClickStart, ClickConnect, ClickDebug, CameraGranted, CameraRefused, OnConnected
<1> QED BY <1>1, <1>2, OtherPages

-------------------------------------------------------------------------------
LEMMA TracedNext ==
  ASSUME CallInv, "ICEError" \notin ClientKinds, [CallNext]_callVars
  PROVE  Traced'
<1> SUFFICES ASSUME NEW m \in SignalEnum, InTransit(m)' PROVE IsSent(m)'
  BY DEF Traced
<1>1. /\ TypeOK /\ ClientTypeOK /\ (InTransit(m) => IsSent(m))
  BY DEF CallInv, RoutingInv, Traced
<1>2. ASSUME InTransit(m), \A q \in UserID : \A i \in DOMAIN sent[q] :
                              i \in DOMAIN sent'[q] /\ sent'[q][i] = sent[q][i]
      PROVE  IsSent(m)'
  BY <1>1, <1>2 DEF IsSent
<1>3. ASSUME NEW p \in UserID, ServerReads(p) PROVE IsSent(m)'
  <2> DEFINE n == received[p] + 1
  <2>1. sent' = sent /\ HandleMessage(p, Wire(p, n)) /\ n \in DOMAIN sent[p] /\ n \in Nat
    <3>1. sent[p] \in Seq(Message) /\ received[p] \in Nat
      BY <1>1 DEF ClientTypeOK, TypeOK
    <3> QED BY <1>3, <3>1 DEF ServerReads, clientVars
  <2>2. InTransit(m) \/ m = Wire(p, n)
    BY <1>1, <2>1, TransitRead
  <2>3. m = Wire(p, n) => m.by = p /\ m.seq = n /\ m.kind = sent[p][n].kind /\ m.session = sent[p][n].session
    BY DEF Wire
  <2>4. IsSent(m)
    BY <1>1, <2>1, <2>2, <2>3 DEF IsSent
  <2> QED BY <2>1, <2>4 DEF IsSent
<1>4. ASSUME NEW p \in UserID, Connect(p) \/ Depart(p) \/ PageReads(p) \/ ServerStep(p) PROVE IsSent(m)'
  <2>1. sent' = sent
    BY <1>4 DEF Connect, OnOpen, Depart, EndSocket, PageReads, OnMessage, ServerStep, clientVars
  <2>2. InTransit(m)
    BY <1>1, <1>4, TransitQuiet DEF Connect, Depart, PageReads, ServerStep
  <2> QED BY <1>2, <2>1, <2>2
<1>5. ASSUME NEW p \in UserID, PageActs(p) PROVE IsSent(m)'
  <2>1. InTransit(m)
    BY <1>1, <1>5, TransitQuiet DEF PageActs
  <2> QED BY <1>1, <1>2, <1>5, <2>1, SentGrows DEF PageActs
<1>6. CASE UNCHANGED callVars
  <2>1. sent' = sent /\ UNCHANGED vars
    BY <1>6 DEF callVars, clientVars
  <2>2. InTransit(m)
    BY <2>1 DEF InTransit, vars
  <2> QED BY <1>2, <2>1, <2>2
<1> QED BY <1>3, <1>4, <1>5, <1>6 DEF CallNext

LEMMA PagesNext ==
  ASSUME CallInv, HistoryGrows, [CallNext]_callVars
  PROVE  ClientTypeOK' /\ \A p \in UserID : PageInv(p)'
<1>1. ClientTypeOK /\ \A p \in UserID : PageInv(p)
  BY DEF CallInv
<1>2. ASSUME UNCHANGED <<sent, camera, ops, rtc, session_id>> PROVE \A p \in UserID : PageInv(p)'
  BY <1>1, <1>2, PageUnmoved
<1>3. ASSUME UNCHANGED clientVars PROVE ClientTypeOK' /\ \A p \in UserID : PageInv(p)'
  BY <1>1, <1>2, <1>3 DEF clientVars, ClientTypeOK
<1>4. ASSUME NEW p \in UserID, Connect(p) \/ Depart(p)
      PROVE  ClientTypeOK' /\ \A q \in UserID : PageInv(q)'
  <2>1. \E how \in {"open", "closed", "lost"} : socket' = [socket EXCEPT ![p] = how]
    BY <1>4, CallAssumption DEF Connect, OnOpen, Depart, EndSocket
  <2>2. UNCHANGED <<session_id, user_id, clicks, sent, camera, rtc, ops, gathering, sleeping, refused, screen>>
    BY <1>4 DEF Connect, OnOpen, Depart, EndSocket
  <2> QED BY <1>1, <1>2, <2>1, <2>2 DEF ClientTypeOK, screen
<1>5. ASSUME NEW p \in UserID, PageReads(p)
      PROVE  ClientTypeOK' /\ \A q \in UserID : PageInv(q)'
  <2> DEFINE h == Head(out[p])
  <2>1. CASE OnMessage(p, h, Text(h))
    <3>1. /\ h \in SignalEnum
          /\ h.kind \in {"VideoOffer", "SessionReady"} => Hosting(p, h.session)
          /\ h.kind = "SessionJoinSuccess" => Joined(p, h.session)
          /\ Text(h) \in Description \cup {None}
          /\ h.kind = "VideoOffer" => Text(h) \in Description
      BY <1>5, Heard DEF PageReads, Forward
    <3>2. PICK m \in SignalEnum : m = h
      BY <3>1
    <3>3. PICK d \in Description \cup {None} : d = Text(h)
      BY <3>1
    <3>4. OnMessage(p, m, d)
      BY <2>1, <3>2, <3>3
    <3>5. ClientTypeOK'
      BY <1>1, <3>4, OnMessageType
    <3>6. PageInv(p)'
      BY <1>1, <3>1, <3>2, <3>3, <3>4, HeardInv
    <3>7. \A q \in UserID \ {p} : PageInv(q)'
      BY <1>1, <3>4, OtherPages, PageUnmoved
    <3> QED BY <3>5, <3>6, <3>7
  <2>2. CASE UNCHANGED clientVars
    BY <1>3, <2>2
  <2> QED BY <1>5, <2>1, <2>2 DEF PageReads
<1>6. ASSUME NEW p \in UserID, PageActs(p)
      PROVE  ClientTypeOK' /\ \A q \in UserID : PageInv(q)'
  <2>1. PageStep(p)
    BY <1>6 DEF PageActs
  <2>2. ClientTypeOK' /\ PageInv(p)'
    BY <1>1, <2>1, PageStepType, PageStepInv
  <2>3. \A q \in UserID \ {p} : PageInv(q)'
    BY <1>1, <2>1, OtherPages, PageUnmoved
  <2> QED BY <2>2, <2>3
<1>7. ASSUME NEW p \in UserID, ServerReads(p) \/ ServerStep(p)
      PROVE  ClientTypeOK' /\ \A q \in UserID : PageInv(q)'
  BY <1>3, <1>7 DEF ServerReads, ServerStep
<1>8. CASE UNCHANGED callVars
  BY <1>3, <1>8 DEF callVars, clientVars
<1> QED BY <1>4, <1>5, <1>6, <1>7, <1>8 DEF CallNext

LEMMA CallInvInit == CallInit => CallInv
<1> SUFFICES ASSUME CallInit PROVE CallInv
  OBVIOUS
<1>1. RoutingInv
  BY RoutingInit DEF CallInit
<1>2. ClientTypeOK
  BY DEF CallInit, ClientInit, ClientTypeOK, PeerConnection, Signaling, Button, Pane
<1>3. Range(<< >>) = {}
  BY DEF Range
<1>4. Traced
  BY <1>3 DEF Traced, InTransit, CallInit, Init
<1>5. \A p \in UserID : PageInv(p)
  BY <1>3 DEF PageInv, CallInit, ClientInit
<1> QED BY <1>1, <1>2, <1>4, <1>5 DEF CallInv

LEMMA CallInvNext ==
  ASSUME WellBehaved, CallInv, [CallNext]_callVars
  PROVE  CallInv' /\ [Next]_vars
<1>1. [Next]_vars
  BY ServerHalf DEF WellBehaved
<1>2. RoutingInv'
  BY <1>1, RoutingNext DEF CallInv
<1>3. HistoryGrows
  BY <1>1, HistoryNext DEF WellBehaved, CallInv, RoutingInv
<1>4. Traced' /\ ClientTypeOK' /\ \A p \in UserID : PageInv(p)'
  BY <1>3, TracedNext, PagesNext DEF WellBehaved
<1> QED BY <1>1, <1>2, <1>4 DEF CallInv

LEMMA CallInvHolds == WellBehaved => (CallSpec => []CallInv)
<1> SUFFICES ASSUME WellBehaved PROVE CallSpec => []CallInv
  OBVIOUS
<1>1. CallInv /\ [CallNext]_callVars => CallInv'
  BY CallInvNext
<1> QED BY <1>1, CallInvInit, PTL DEF CallSpec

-------------------------------------------------------------------------------
\* The state of pages and server is well-formed: no handler works on a
\* description, a session or a stream that is not there.
THEOREM CallTypeCorrect == WellBehaved => (CallSpec => []CallTypeOK)
<1>1. CallInv => CallTypeOK
  BY DEF CallInv, RoutingInv, CallTypeOK
<1> QED BY <1>1, CallInvHolds, PTL

\* The pages are the clients that the server was modelled and proved with:
\* they send nothing without the session that its handler reads, and no
\* ICEError, so every theorem about SignallingServer holds of a call.
THEOREM PagesKeepToProtocol == WellBehaved => (CallSpec => PagesAreClients)
<1> SUFFICES ASSUME WellBehaved PROVE CallSpec => PagesAreClients
  OBVIOUS
<1>1. CallInit => Init
  BY DEF CallInit
<1>2. CallInv /\ [CallNext]_callVars => [Next]_vars
  BY CallInvNext
<1> QED BY <1>1, <1>2, CallInvHolds, PTL DEF CallSpec, PagesAreClients, Spec

\* So what SignallingServer promises to any clients, the server keeps with these
\* pages: every message for a member of its session, in the order sent, after the
\* identifier; sessions that end with their hosts; and nothing that Rendezvous
\* would not do (signalling-server.rs:336-383, 485-512).
THEOREM PagesAreServed ==
  WellBehaved =>
    (CallSpec => /\ []RoutedToMember /\ []NewUserFirst /\ []InOrder
                 /\ []NoSessionWithoutHost /\ []Registered
                 /\ SessionEndsWithHost /\ ImplementsRendezvous)
<1> SUFFICES ASSUME WellBehaved
             PROVE  CallSpec => /\ []RoutedToMember /\ []NewUserFirst /\ []InOrder
                                /\ []NoSessionWithoutHost /\ []Registered
                                /\ SessionEndsWithHost /\ ImplementsRendezvous
  OBVIOUS
<1>1. CallSpec => Spec
  BY PagesKeepToProtocol DEF PagesAreClients
<1>2. Spec => []RoutedToMember /\ []NewUserFirst /\ []InOrder
  BY MessagesReachMembers, IdentifierFirst, RelayedInOrder
<1>3. Spec => []NoSessionWithoutHost /\ []Registered
  BY SessionsHaveHosts, ConnectionsRegistered DEF WellBehaved
<1>4. Spec => SessionEndsWithHost /\ ImplementsRendezvous
  BY SessionsEndWithHosts, ServerImplementsRendezvous DEF WellBehaved
<1> QED BY <1>1, <1>2, <1>3, <1>4

\* A page shows no session but one that it hosts or has joined.
THEOREM SessionsShownAreOwn == WellBehaved => (CallSpec => []ShowsOwnSession)
<1>1. CallInv => ShowsOwnSession
  BY DEF CallInv, PageInv, ShowsOwnSession, Hosting, Joined, Host
<1> QED BY <1>1, CallInvHolds, PTL

\* However often and in whatever order the buttons are clicked and cameras
\* granted, a guest's offer carries a stream.
THEOREM OffersHaveStreams == WellBehaved => (CallSpec => []OfferHasStream)
<1>1. CallInv => OfferHasStream
  BY DEF CallInv, PageInv, MaySend, OfferHasStream, Range
<1> QED BY <1>1, CallInvHolds, PTL

\* Offers come from guests of the session and answers from its host, though the
\* server relays either from anybody.
THEOREM NegotiationAmongMembers == WellBehaved => (CallSpec => []OffersFromMembers)
<1>1. CallInv => OffersFromMembers
  <2> SUFFICES ASSUME CallInv, NEW p \in UserID, NEW i \in DOMAIN out[p],
                      out[p][i].kind \in {"VideoOffer", "VideoAnswer"}
               PROVE  /\ out[p][i].kind = "VideoOffer" => out[p][i].by \in guests_of[out[p][i].session]
                      /\ out[p][i].kind = "VideoAnswer" => out[p][i].by = host_of[out[p][i].session]
    BY DEF OffersFromMembers
  <2> DEFINE m == out[p][i]
  <2>1. m \in SignalEnum /\ m \in Range(out[p])
    BY DEF CallInv, RoutingInv, TypeOK, Range
  <2> HIDE DEF m
  <2>2. IsSent(m)
    BY <2>1 DEF CallInv, Traced, InTransit, Relayed, m
  <2>3. MaySend(m.by, sent[m.by][m.seq])
    BY <2>2 DEF IsSent, CallInv, PageInv, Range
  <2>4. /\ m.kind = "VideoOffer" => Joined(m.by, m.session)
        /\ m.kind = "VideoAnswer" => Hosting(m.by, m.session)
    BY <2>2, <2>3 DEF IsSent, MaySend
  <2> QED BY <2>4 DEF Joined, Hosting, m
<1> QED BY <1>1, CallInvHolds, PTL
===============================================================================
