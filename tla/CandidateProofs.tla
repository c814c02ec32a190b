---------------------------- MODULE CandidateProofs ----------------------------
(***************************************************************************)
(* Which sessions a page has a part in, for every set of users and         *)
(* sessions.  CallProofs shows that a page sends about sessions that are   *)
(* its own; which these are takes counting: a page that clicked a button   *)
(* once has asked once, and has hosted or joined one session at most,      *)
(* however long messages were under way.  NegotiationProofs rests on it.   *)
(***************************************************************************)
EXTENDS CallProofs

Asks(p, i, kind) == i \in DOMAIN sent[p] /\ sent[p][i].kind = kind

\* What a button asks of the server, it asks once for each click.
Clicked(p, kind, button) ==
  /\ \A i \in DOMAIN sent[p] : Asks(p, i, kind) => clicks[p][button] > 0
  /\ \A i, j \in DOMAIN sent[p] :
       Asks(p, i, kind) /\ Asks(p, j, kind) /\ i # j => clicks[p][button] > 1

\* Each session that p hosts was asked for by a message of its own, already read.
Hosted(p) ==
  /\ \A s \in SessionID : Hosting(p, s) =>
       \E i \in DOMAIN sent[p] : i <= received[p] /\ Asks(p, i, "SessionNew")
  /\ \A s, t \in SessionID : Hosting(p, s) /\ Hosting(p, t) /\ s # t =>
       \E i, j \in DOMAIN sent[p] : i # j /\ Asks(p, i, "SessionNew") /\ Asks(p, j, "SessionNew")

\* Whoever joined a session asked for it.
Seated(p) ==
  \A s \in SessionID : Joined(p, s) =>
    \E i \in DOMAIN sent[p] : Asks(p, i, "SessionJoin") /\ sent[p][i].session = s

\* A candidate carries a session of its page.
Tagged(p) ==
  \A i \in DOMAIN sent[p] : Asks(p, i, "IceCandidate") =>
    Hosting(p, sent[p][i].session) \/ Joined(p, sent[p][i].session)

ClickInv ==
  \A p \in UserID :
    /\ Clicked(p, "SessionNew", "start")
    /\ Clicked(p, "SessionJoin", "connect")
    /\ Hosted(p)
    /\ Seated(p)
    /\ Tagged(p)

-------------------------------------------------------------------------------
(* What a page adds to what it has sent. *)

\* A step of a page sends at most one message m: the two requests when their
\* button is clicked, a candidate about the session the page shows.
Adds(p, m) ==
  /\ m \in Message
  /\ sent' \in {sent, [sent EXCEPT ![p] = Append(@, m)]}
  /\ \A b \in Button : clicks'[p][b] \in Nat /\ clicks'[p][b] >= clicks[p][b]
  /\ m.kind = "SessionNew" => clicks'[p]["start"] = clicks[p]["start"] + 1
  /\ m.kind = "SessionJoin" => clicks'[p]["connect"] = clicks[p]["connect"] + 1
  /\ m.kind = "IceCandidate" => m.session = session_id[p] /\ session_id[p] # None

LEMMA ClickCounts ==
  ASSUME ClientTypeOK, NEW p \in UserID, NEW b \in Button, Click(p, b)
  PROVE  /\ clicks'[p][b] = clicks[p][b] + 1
         /\ \A e \in Button : clicks'[p][e] \in Nat /\ clicks'[p][e] >= clicks[p][e]
         /\ \A q \in UserID \ {p} : clicks'[q] = clicks[q]
<1>1. clicks \in [UserID -> [Button -> Nat]] /\ clicks[p] \in [Button -> Nat]
  BY DEF ClientTypeOK
<1>2. clicks' = [clicks EXCEPT ![p] = [clicks[p] EXCEPT ![b] = @ + 1]]
  BY <1>1 DEF Click
<1>3. clicks'[p] = [clicks[p] EXCEPT ![b] = @ + 1]
  BY <1>1, <1>2
<1>4. \A e \in Button : clicks'[p][e] \in Nat /\ clicks'[p][e] >= clicks[p][e]
  BY <1>1, <1>3
<1> QED BY <1>1, <1>2, <1>3, <1>4

LEMMA SentMessage ==
  ASSUME NEW p \in UserID, NEW kind \in Requests, NEW s \in SessionID \cup {None},
         NEW d \in Description \cup {None}, Send(p, kind, s, d),
         NEW m, m = [kind |-> kind, session |-> s, desc |-> d]
  PROVE  m \in Message /\ sent' \in {sent, [sent EXCEPT ![p] = Append(@, m)]}
<1>1. m \in Message
  BY DEF Message
<1>2. sent' \in {sent, [sent EXCEPT ![p] = Append(@, m)]}
  BY DEF Send
<1> QED BY <1>1, <1>2

LEMMA PageAdds ==
  ASSUME ClientTypeOK, NEW p \in UserID, PageStep(p)
  PROVE  \E m : Adds(p, m)
<1> DEFINE M(kind, s, d) == [kind |-> kind, session |-> s, desc |-> d]
<1>1. /\ \A b \in Button : clicks[p][b] \in Nat
      /\ {"start", "connect", "debug"} = Button
      /\ session_id[p] \in SessionID \cup {None}
  BY DEF ClientTypeOK, Button
<1>2. ASSUME sent' = sent, clicks' = clicks PROVE \E m : Adds(p, m)
  <2>1. M("Debug", None, None) \in Message
    BY DEF Message, Requests
  <2>2. Adds(p, M("Debug", None, None))
    BY <1>1, <1>2, <2>1 DEF Adds
  <2> QED BY <2>2
<1>3. CASE ClickStart(p)
  <2>1. Send(p, "SessionNew", None, None) /\ Click(p, "start")
    BY <1>3 DEF ClickStart
  <2>2. PICK m : m = M("SessionNew", None, None)
    OBVIOUS
  <2>3. m \in Message /\ sent' \in {sent, [sent EXCEPT ![p] = Append(@, m)]}
    BY <2>1, <2>2, SentMessage DEF Requests
  <2>4. m.kind = "SessionNew"
    BY <2>2
  <2>5. Adds(p, m)
    BY <1>1, <2>1, <2>3, <2>4, ClickCounts DEF Adds
  <2> QED BY <2>5
<1>4. CASE ClickConnect(p)
  <2>1. PICK s \in SessionID : Send(p, "SessionJoin", s, None)
    BY <1>4 DEF ClickConnect
  <2>2. PICK m : m = M("SessionJoin", s, None)
    OBVIOUS
  <2>3. m \in Message /\ sent' \in {sent, [sent EXCEPT ![p] = Append(@, m)]}
    BY <2>1, <2>2, SentMessage DEF Requests
  <2>4. m.kind = "SessionJoin"
    BY <2>2
  <2>5. Click(p, "connect")
    BY <1>4 DEF ClickConnect
  <2>6. Adds(p, m)
    BY <1>1, <2>3, <2>4, <2>5, ClickCounts DEF Adds
  <2> QED BY <2>6
<1>5. CASE ClickDebug(p)
  <2>1. Send(p, "Debug", None, None) /\ Click(p, "debug")
    BY <1>5 DEF ClickDebug
  <2>2. PICK m : m = M("Debug", None, None)
    OBVIOUS
  <2>3. m \in Message /\ sent' \in {sent, [sent EXCEPT ![p] = Append(@, m)]}
    BY <2>1, <2>2, SentMessage DEF Requests
  <2>4. m.kind = "Debug"
    BY <2>2
  <2>5. Adds(p, m)
    BY <1>1, <2>1, <2>3, <2>4, ClickCounts DEF Adds
  <2> QED BY <2>5
<1>6. CASE CameraGranted(p) \/ CameraRefused(p) \/ OnConnected(p)
  BY <1>2, <1>6 DEF CameraGranted, CameraRefused, OnConnected
<1>7. CASE RunOperation(p)
  <2>1. clicks' = clicks /\ ops[p] # << >>
    BY <1>7 DEF RunOperation
  <2>2. Current(p).session \in SessionID \cup {None} /\ Current(p).desc \in Description \cup {None}
    BY <2>1, CurrentType DEF Operation
  <2>3. ASSUME NEW kind \in {"VideoOffer", "VideoAnswer"}, Send(p, kind, Current(p).session, Current(p).desc)
        PROVE  \E m : Adds(p, m)
    <3>1. PICK m : m = M(kind, Current(p).session, Current(p).desc)
      OBVIOUS
    <3>2. m \in Message /\ sent' \in {sent, [sent EXCEPT ![p] = Append(@, m)]}
      BY <2>2, <2>3, <3>1, SentMessage DEF Requests, Relayed
    <3>3. m.kind \in {"VideoOffer", "VideoAnswer"}
      BY <3>1
    <3>4. Adds(p, m)
      BY <1>1, <2>1, <3>2, <3>3 DEF Adds
    <3> QED BY <3>4
  <2>4. \/ sent' = sent
        \/ Send(p, "VideoOffer", Current(p).session, Current(p).desc)
        \/ Send(p, "VideoAnswer", Current(p).session, Current(p).desc)
    BY <1>7 DEF RunOperation, CreateOffer, SetLocalOffer, SetRemoteOffer, CreateAnswer,
       SetLocalAnswer, SetRemoteAnswer, AddIceCandidate, Rejected
  <2> QED BY <1>2, <2>1, <2>3, <2>4
<1>8. CASE OnCandidate(p) \/ RetryCandidate(p)
  <2>1. clicks' = clicks
    BY <1>8 DEF OnCandidate, RetryCandidate
  <2>2. sent' = sent \/ (session_id[p] # None /\ Send(p, "IceCandidate", session_id[p], None))
    BY <1>8 DEF OnCandidate, RetryCandidate
  <2>3. CASE session_id[p] # None /\ Send(p, "IceCandidate", session_id[p], None)
    <3>1. PICK m : m = M("IceCandidate", session_id[p], None)
      OBVIOUS
    <3>2. m \in Message /\ sent' \in {sent, [sent EXCEPT ![p] = Append(@, m)]}
      BY <1>1, <2>3, <3>1, SentMessage DEF Requests, Relayed
    <3>3. m.kind = "IceCandidate" /\ m.session = session_id[p]
      BY <3>1
    <3>4. Adds(p, m)
      BY <1>1, <2>1, <2>3, <3>2, <3>3 DEF Adds
    <3> QED BY <3>4
  <2> QED BY <1>2, <2>1, <2>2, <2>3
<1> QED BY <1>3, <1>4, <1>5, <1>6, <1>7, <1>8 DEF PageStep

LEMMA Grown ==
  ASSUME ClientTypeOK, NEW p \in UserID, NEW m, Adds(p, m)
  PROVE  /\ \A i \in DOMAIN sent[p] : i \in DOMAIN sent'[p] /\ sent'[p][i] = sent[p][i]
         /\ \A i \in DOMAIN sent'[p] :
              \/ i \in DOMAIN sent[p] /\ sent'[p][i] = sent[p][i]
              \/ i \notin DOMAIN sent[p] /\ i = Len(sent[p]) + 1 /\ sent'[p][i] = m
<1>1. sent \in [UserID -> Seq(Message)] /\ sent[p] \in Seq(Message) /\ m \in Message
  BY DEF ClientTypeOK, Adds
<1>2. /\ DOMAIN Append(sent[p], m) = 1..(Len(sent[p]) + 1)
      /\ \A i \in 1..Len(sent[p]) : Append(sent[p], m)[i] = sent[p][i]
      /\ Append(sent[p], m)[Len(sent[p]) + 1] = m
      /\ DOMAIN sent[p] = 1..Len(sent[p])
      /\ Len(sent[p]) \in Nat
  BY <1>1
<1>3. sent'[p] = sent[p] \/ sent'[p] = Append(sent[p], m)
  BY <1>1 DEF Adds
<1>4. CASE sent'[p] = sent[p]
  BY <1>4
<1>5. CASE sent'[p] = Append(sent[p], m)
  BY <1>2, <1>5
<1> QED BY <1>3, <1>4, <1>5

LEMMA ClickedNext ==
  ASSUME ClientTypeOK, NEW p \in UserID, NEW m, Adds(p, m),
         Clicked(p, "SessionNew", "start"), Clicked(p, "SessionJoin", "connect")
  PROVE  Clicked(p, "SessionNew", "start")' /\ Clicked(p, "SessionJoin", "connect")'
<1>1. ASSUME NEW kind, NEW b \in Button, Clicked(p, kind, b),
             m.kind = kind => clicks'[p][b] = clicks[p][b] + 1
      PROVE  Clicked(p, kind, b)'
  <2>1. clicks[p][b] \in Nat /\ clicks'[p][b] \in Nat /\ clicks'[p][b] >= clicks[p][b]
    BY DEF Adds, ClientTypeOK
  <2>2. ASSUME NEW i \in DOMAIN sent'[p], Asks(p, i, kind)'
        PROVE  \/ Asks(p, i, kind) /\ i \in DOMAIN sent[p]
               \/ i = Len(sent[p]) + 1 /\ clicks'[p][b] = clicks[p][b] + 1
    BY <1>1, <2>2, Grown DEF Asks
  <2>3. ASSUME NEW i \in DOMAIN sent'[p], Asks(p, i, kind)'
        PROVE  clicks'[p][b] > 0
    <3>1. CASE i \in DOMAIN sent[p] /\ Asks(p, i, kind)
      BY <1>1, <2>1, <3>1 DEF Clicked
    <3>2. CASE clicks'[p][b] = clicks[p][b] + 1
      BY <2>1, <3>2
    <3> QED BY <2>2, <2>3, <3>1, <3>2
  <2>4. ASSUME NEW i \in DOMAIN sent'[p], NEW j \in DOMAIN sent'[p],
               Asks(p, i, kind)', Asks(p, j, kind)', i # j
        PROVE  clicks'[p][b] > 1
    <3>1. CASE Asks(p, i, kind) /\ Asks(p, j, kind) /\ i \in DOMAIN sent[p] /\ j \in DOMAIN sent[p]
      BY <1>1, <2>1, <2>3, <2>4, <3>1 DEF Clicked
    <3>2. CASE i \in DOMAIN sent[p] /\ Asks(p, i, kind) /\ clicks'[p][b] = clicks[p][b] + 1
      BY <1>1, <2>1, <3>2 DEF Clicked
    <3>3. CASE j \in DOMAIN sent[p] /\ Asks(p, j, kind) /\ clicks'[p][b] = clicks[p][b] + 1
      BY <1>1, <2>1, <3>3 DEF Clicked
    <3> QED BY <2>2, <2>4, <3>1, <3>2, <3>3
  <2> QED BY <2>3, <2>4 DEF Clicked
<1> QED BY <1>1 DEF Adds, Button

\* What a page does counts for itself only.
LEMMA OtherClicks ==
  ASSUME ClientTypeOK, NEW p \in UserID, PageStep(p), NEW q \in UserID \ {p}
  PROVE  clicks'[q] = clicks[q] /\ sent'[q] = sent[q]
<1>1. clicks' = clicks \/ \E b \in Button : Click(p, b)
  <2>1. RunOperation(p) => clicks' = clicks
    BY DEF RunOperation
  <2>2. OnCandidate(p) \/ RetryCandidate(p) \/ OnConnected(p) => clicks' = clicks
    BY DEF OnCandidate, RetryCandidate, OnConnected
  <2>3. CameraGranted(p) \/ CameraRefused(p) => clicks' = clicks
    BY DEF CameraGranted, CameraRefused
  <2> QED BY <2>1, <2>2, <2>3 DEF PageStep, ClickStart, ClickConnect, ClickDebug, Button
<1>2. clicks'[q] = clicks[q]
  BY <1>1, ClickCounts
<1> QED BY <1>2, OtherPages

LEMMA PageActsCounted ==
  ASSUME CallInv, ClickInv, NEW p \in UserID, PageActs(p)
  PROVE  ClickInv'
<1>1. ClientTypeOK /\ PageInv(p) /\ PageStep(p) /\ UNCHANGED <<received, host_of, guests_of>>
  BY DEF CallInv, PageActs, vars, history
<1>2. /\ \A q \in UserID, s \in SessionID : Hosting(q, s)' <=> Hosting(q, s)
      /\ \A q \in UserID, s \in SessionID : Joined(q, s)' <=> Joined(q, s)
      /\ \A q \in UserID : \A s : Hosting(q, s) => Hosting(q, s)'
      /\ \A q \in UserID : \A s : Joined(q, s) => Joined(q, s)'
  BY <1>1 DEF Hosting, Joined
<1>3. PICK m : Adds(p, m)
  BY <1>1, PageAdds
<1>4. Clicked(p, "SessionNew", "start")' /\ Clicked(p, "SessionJoin", "connect")'
  BY <1>1, <1>3, ClickedNext DEF ClickInv
<1>5. \A i \in DOMAIN sent[p] : i \in DOMAIN sent'[p] /\ sent'[p][i] = sent[p][i]
  BY <1>1, <1>3, Grown
<1>6. Hosted(p)'
  <2>1. \A i \in DOMAIN sent[p] : Asks(p, i, "SessionNew") => Asks(p, i, "SessionNew")'
    BY <1>5 DEF Asks
  <2> QED BY <1>1, <1>2, <1>5, <2>1 DEF ClickInv, Hosted
<1>7. Seated(p)'
  BY <1>2, <1>5 DEF ClickInv, Seated, Asks
<1>8. Tagged(p)'
  <2>1. ASSUME NEW i \in DOMAIN sent'[p], sent'[p][i].kind = "IceCandidate",
               NEW s, s = sent'[p][i].session
        PROVE  Hosting(p, s)' \/ Joined(p, s)'
    <3>1. CASE i \in DOMAIN sent[p] /\ sent'[p][i] = sent[p][i]
      <4>1. Hosting(p, s) \/ Joined(p, s)
        BY <2>1, <3>1 DEF ClickInv, Tagged, Asks
      <4> QED BY <1>2, <4>1
    <3>2. CASE sent'[p][i] = m
      <4>1. s = session_id[p] /\ session_id[p] # None
        BY <1>3, <2>1, <3>2 DEF Adds
      <4>2. Hosting(p, s) \/ Joined(p, s)
        BY <1>1, <4>1 DEF PageInv
      <4> QED BY <1>2, <4>2
    <3> QED BY <1>1, <1>3, <2>1, <3>1, <3>2, Grown
  <2> QED BY <2>1 DEF Tagged, Asks, Hosting, Joined
<1>9. ASSUME NEW q \in UserID \ {p}
      PROVE  /\ Clicked(q, "SessionNew", "start")' /\ Clicked(q, "SessionJoin", "connect")'
             /\ Hosted(q)' /\ Seated(q)' /\ Tagged(q)'
  <2>1. clicks'[q] = clicks[q] /\ sent'[q] = sent[q]
    BY <1>1, OtherClicks
  <2> QED BY <1>1, <2>1 DEF ClickInv, Clicked, Hosted, Seated, Tagged, Asks, Hosting, Joined
<1> QED BY <1>4, <1>6, <1>7, <1>8, <1>9 DEF ClickInv

\* A session gets a host or a guest by the message that is read.
LEMMA ReadEffect ==
  ASSUME UniqueIDs, CallInv, NEW p \in UserID, ServerReads(p),
         NEW n, n = received[p] + 1
  PROVE  /\ n \in DOMAIN sent[p] /\ received[p] \in Nat
         /\ received' = [received EXCEPT ![p] = n]
         /\ sent' = sent /\ clicks' = clicks
         /\ \/ /\ Asks(p, n, "SessionNew")
               /\ \E s \in SessionID : host_of' = [host_of EXCEPT ![s] = p]
               /\ guests_of' = guests_of
            \/ /\ Asks(p, n, "SessionJoin")
               /\ guests_of' = [guests_of EXCEPT ![sent[p][n].session] = @ \cup {p}]
               /\ host_of' = host_of
            \/ UNCHANGED <<host_of, guests_of>>
<1>1. received[p] \in Nat /\ sent[p] \in Seq(Message) /\ n \in DOMAIN sent[p]
  BY DEF ServerReads, CallInv, RoutingInv, TypeOK, ClientTypeOK
<1> DEFINE w == Wire(p, n)
<1>2. HandleMessage(p, w) /\ sent' = sent /\ clicks' = clicks
  BY DEF ServerReads, clientVars
<1>3. w.kind = sent[p][n].kind /\ w.session = sent[p][n].session /\ w.seq = n
  BY DEF Wire
<1> HIDE DEF w
<1>4. received' = [received EXCEPT ![p] = n]
  BY <1>2, <1>3 DEF HandleMessage
<1>5. CASE HandleSessionNew(p, w)
  BY <1>1, <1>2, <1>3, <1>4, <1>5 DEF HandleSessionNew, Asks
<1>6. CASE HandleSessionJoin(p, w)
  BY <1>1, <1>2, <1>3, <1>4, <1>6 DEF HandleSessionJoin, Asks
<1>7. CASE ~HandleSessionNew(p, w) /\ ~HandleSessionJoin(p, w)
  <2>1. UNCHANGED <<host_of, guests_of>>
    BY <1>2, <1>7 DEF HandleMessage, HandleVideoOffer, HandleVideoAnswer, HandleIceCandidate,
       HandleNothing, HandleICEError, ReturnErr, history
  <2> QED BY <1>1, <1>2, <1>4, <2>1
<1> QED BY <1>5, <1>6, <1>7

LEMMA ServerReadsCounted ==
  ASSUME UniqueIDs, "ICEError" \notin ClientKinds, CallInv, ClickInv, NEW p \in UserID, ServerReads(p)
  PROVE  ClickInv'
<1>1. PICK n : n = received[p] + 1
  OBVIOUS
<1>2. /\ n \in DOMAIN sent[p] /\ received[p] \in Nat
      /\ received' = [received EXCEPT ![p] = n]
      /\ sent' = sent /\ clicks' = clicks
  BY <1>1, ReadEffect
<1>3. TypeOK /\ HistoryGrows
  BY ReadIsReceive, HistoryOfReceive DEF CallInv, RoutingInv
<1>4. /\ received'[p] = n
      /\ \A q \in UserID \ {p} : received'[q] = received[q]
  BY <1>2, <1>3 DEF TypeOK
<1>5. /\ \A q \in UserID : \A s : Hosting(q, s) => Hosting(q, s)'
      /\ \A q \in UserID : \A s : Joined(q, s) => Joined(q, s)'
  BY <1>3, PagesStable
<1>6. \A q \in UserID : Clicked(q, "SessionNew", "start")' /\ Clicked(q, "SessionJoin", "connect")'
  BY <1>2 DEF ClickInv, Clicked, Asks
<1>7. \A q \in UserID : Tagged(q)'
  BY <1>2, <1>5 DEF ClickInv, Tagged, Asks
<1>8. ASSUME NEW q \in UserID, NEW s \in SessionID, Hosting(q, s)', ~Hosting(q, s)
      PROVE  q = p /\ Asks(p, n, "SessionNew") /\ \A t \in SessionID \ {s} : Hosting(p, t)' => Hosting(p, t)
  <2>1. host_of # host_of'
    BY <1>8 DEF Hosting
  <2>2. Asks(p, n, "SessionNew") /\ \E t \in SessionID : host_of' = [host_of EXCEPT ![t] = p]
    BY <1>1, <2>1, ReadEffect
  <2>3. PICK t \in SessionID : host_of' = [host_of EXCEPT ![t] = p]
    BY <2>2
  <2>4. host_of'[t] = p /\ \A u \in SessionID \ {t} : host_of'[u] = host_of[u]
    BY <1>3, <2>3 DEF TypeOK
  <2>5. s = t
    BY <1>8, <2>4 DEF Hosting
  <2> QED BY <1>8, <2>2, <2>4, <2>5 DEF Hosting
<1>9. ASSUME NEW q \in UserID, NEW s \in SessionID, Joined(q, s)', ~Joined(q, s)
      PROVE  q = p /\ Asks(p, n, "SessionJoin") /\ s = sent[p][n].session
  <2>1. guests_of # guests_of'
    BY <1>9 DEF Joined
  <2>2. PICK t : /\ t = sent[p][n].session
                 /\ Asks(p, n, "SessionJoin")
                 /\ guests_of' = [guests_of EXCEPT ![t] = @ \cup {p}]
    BY <1>1, <2>1, ReadEffect
  <2>3. guests_of'[s] = IF s = t THEN guests_of[s] \cup {p} ELSE guests_of[s]
    BY <1>3, <2>2 DEF TypeOK
  <2> QED BY <1>9, <2>2, <2>3 DEF Joined
<1>10. \A q \in UserID : Seated(q)'
  BY <1>2, <1>9 DEF ClickInv, Seated, Asks
<1>11. ASSUME NEW q \in UserID PROVE Hosted(q)'
  <2>1. Hosted(q) /\ \A i, kind : Asks(q, i, kind)' <=> Asks(q, i, kind)
    BY <1>2 DEF ClickInv, Asks
  <2>2. received[q] \in Nat /\ received'[q] \in {received[q], received[q] + 1}
    BY <1>1, <1>3, <1>4 DEF TypeOK
  <2>3. \A i \in DOMAIN sent[q] : i \in Nat
    BY DEF CallInv, ClientTypeOK
  <2>4. ASSUME NEW s \in SessionID, Hosting(q, s)'
        PROVE  \E i \in DOMAIN sent'[q] : i <= received'[q] /\ Asks(q, i, "SessionNew")'
    <3>1. CASE Hosting(q, s)
      BY <1>2, <2>1, <2>2, <2>3, <3>1 DEF Hosted
    <3>2. CASE ~Hosting(q, s)
      BY <1>2, <1>4, <1>8, <2>1, <2>3, <2>4, <3>2
    <3> QED BY <3>1, <3>2
  <2>5. ASSUME NEW s \in SessionID, NEW t \in SessionID, Hosting(q, s)', Hosting(q, t), ~Hosting(q, s)
        PROVE  \E i, j \in DOMAIN sent[q] : i # j /\ Asks(q, i, "SessionNew") /\ Asks(q, j, "SessionNew")
    <3>1. q = p /\ Asks(q, n, "SessionNew") /\ n \in DOMAIN sent[q]
      BY <1>2, <1>8, <2>5
    <3>2. PICK i \in DOMAIN sent[q] : i <= received[q] /\ Asks(q, i, "SessionNew")
      BY <2>1, <2>5 DEF Hosted
    <3>3. i # n
      BY <1>1, <1>2, <2>3, <3>1, <3>2
    <3> QED BY <3>1, <3>2, <3>3
  <2>6. ASSUME NEW s \in SessionID, NEW t \in SessionID, Hosting(q, s)', Hosting(q, t)', s # t
        PROVE  \E i, j \in DOMAIN sent[q] : i # j /\ Asks(q, i, "SessionNew") /\ Asks(q, j, "SessionNew")
    <3>1. CASE Hosting(q, s) /\ Hosting(q, t)
      BY <2>1, <2>6, <3>1 DEF Hosted
    <3>2. CASE ~Hosting(q, s)
      <4>1. Hosting(q, t)
        BY <1>8, <2>6, <3>2
      <4> QED BY <2>5, <2>6, <3>2, <4>1
    <3>3. CASE ~Hosting(q, t)
      <4>1. Hosting(q, s)
        BY <1>8, <2>6, <3>3
      <4> QED BY <2>5, <2>6, <3>3, <4>1
    <3> QED BY <3>1, <3>2, <3>3
  <2> QED BY <1>2, <2>1, <2>4, <2>6 DEF Hosted
<1> QED BY <1>6, <1>7, <1>10, <1>11 DEF ClickInv

-------------------------------------------------------------------------------
\* Nothing else changes what is counted.
LEMMA ClickInvUnmoved ==
  ASSUME ClickInv, UNCHANGED <<sent, clicks, received, host_of, guests_of>>
  PROVE  ClickInv'
BY DEF ClickInv, Clicked, Hosted, Seated, Tagged, Asks, Hosting, Joined

LEMMA ClickInvNext ==
  ASSUME WellBehaved, CallInv, ClickInv, [CallNext]_callVars
  PROVE  ClickInv'
<1>1. ASSUME NEW p \in UserID, Connect(p) \/ Depart(p)
      PROVE  UNCHANGED <<sent, clicks, received, host_of, guests_of>>
  BY <1>1 DEF Connect, OnOpen, Accept, Depart, EndSocket, Close, history
<1>2. ASSUME NEW p \in UserID, PageReads(p)
      PROVE  UNCHANGED <<sent, clicks, received, host_of, guests_of>>
  <2>1. UNCHANGED <<sent, clicks>>
    BY <1>2 DEF PageReads, OnMessage, clientVars
  <2>2. UNCHANGED <<received, host_of, guests_of>>
    BY <1>2 DEF PageReads, Forward, history
  <2> QED BY <2>1, <2>2
<1>3. ASSUME NEW p \in UserID, ServerStep(p)
      PROVE  UNCHANGED <<sent, clicks, received, host_of, guests_of>>
  <2>1. UNCHANGED <<sent, clicks>>
    BY <1>3 DEF ServerStep, clientVars
  <2>2. UNCHANGED <<received, host_of, guests_of>>
    BY <1>3 DEF ServerStep, TaskStep, ListUser, ReplyWithID, Deliver, Leave, UnmapPeer, UnlistUser,
       CollectSessions, CloseSession, End, history
  <2> QED BY <2>1, <2>2
<1>4. CASE UNCHANGED callVars
  BY <1>4, ClickInvUnmoved DEF callVars, clientVars, vars, history
<1> QED BY <1>1, <1>2, <1>3, <1>4, ClickInvUnmoved, PageActsCounted, ServerReadsCounted
        DEF CallNext, WellBehaved

LEMMA ClickInvInit == CallInit => ClickInv
<1> SUFFICES ASSUME CallInit PROVE ClickInv
  OBVIOUS
<1>1. /\ \A p \in UserID : sent[p] = << >>
      /\ \A s \in SessionID : host_of[s] = None /\ guests_of[s] = {}
  BY DEF CallInit, ClientInit, Init
<1>2. DOMAIN << >> = {}
  OBVIOUS
<1>3. \A p \in UserID, s \in SessionID : ~Hosting(p, s) /\ ~Joined(p, s)
  BY <1>1, NoneIsNoIdentifier DEF Hosting, Joined
<1>4. \A p \in UserID : DOMAIN sent[p] = {}
  BY <1>1, <1>2
<1> QED BY <1>3, <1>4 DEF ClickInv, Clicked, Hosted, Seated, Tagged

\* A page that clicked Connect once has joined one session at most.
LEMMA OneSeat ==
  ASSUME CallInv, ClickInv, NEW p \in UserID, clicks[p]["connect"] <= 1,
         NEW s \in SessionID, NEW t \in SessionID, Joined(p, s), Joined(p, t)
  PROVE  s = t
<1>1. clicks[p]["connect"] \in Nat
  BY DEF CallInv, ClientTypeOK, Button
<1>2. PICK i \in DOMAIN sent[p] : Asks(p, i, "SessionJoin") /\ sent[p][i].session = s
  BY DEF ClickInv, Seated
<1>3. PICK j \in DOMAIN sent[p] : Asks(p, j, "SessionJoin") /\ sent[p][j].session = t
  BY DEF ClickInv, Seated
<1>4. i # j => clicks[p]["connect"] > 1
  BY <1>2, <1>3 DEF ClickInv, Clicked
<1>5. i = j
  BY <1>1, <1>4
<1> QED BY <1>2, <1>3, <1>5

\* A page that clicked Start once hosts one session at most.
LEMMA OneSession ==
  ASSUME CallInv, ClickInv, NEW p \in UserID, clicks[p]["start"] <= 1,
         NEW s \in SessionID, NEW t \in SessionID, Hosting(p, s), Hosting(p, t)
  PROVE  s = t
<1>1. clicks[p]["start"] \in Nat
  BY DEF CallInv, ClientTypeOK, Button
<1> SUFFICES ASSUME s # t PROVE FALSE
  OBVIOUS
<1>2. \E i, j \in DOMAIN sent[p] : i # j /\ Asks(p, i, "SessionNew") /\ Asks(p, j, "SessionNew")
  BY DEF ClickInv, Hosted
<1>3. clicks[p]["start"] > 1
  BY <1>2 DEF ClickInv, Clicked
<1> QED BY <1>1, <1>3

\* Who never clicked the button has no part of that kind.
LEMMA NoPart ==
  ASSUME CallInv, ClickInv, NEW p \in UserID, NEW s \in SessionID
  PROVE  /\ clicks[p]["start"] = 0 => ~Hosting(p, s)
         /\ clicks[p]["connect"] = 0 => ~Joined(p, s)
<1>1. clicks[p]["start"] = 0 => ~(clicks[p]["start"] > 0)
  OBVIOUS
<1>2. clicks[p]["connect"] = 0 => ~(clicks[p]["connect"] > 0)
  OBVIOUS
<1>3. Hosting(p, s) => clicks[p]["start"] > 0
  BY DEF ClickInv, Clicked, Hosted
<1>4. Joined(p, s) => clicks[p]["connect"] > 0
  BY DEF ClickInv, Clicked, Seated
<1> QED BY <1>1, <1>2, <1>3, <1>4

\* Whatever a page sends to be relayed is about a session of its own.
LEMMA RelayedIsOwn ==
  ASSUME CallInv, ClickInv, NEW p \in UserID, NEW i \in DOMAIN sent[p],
         sent[p][i].kind \in Relayed, NEW s, s = sent[p][i].session
  PROVE  s \in SessionID /\ (Hosting(p, s) \/ Joined(p, s))
<1>1. MaySend(p, sent[p][i])
  BY DEF CallInv, PageInv, Range
<1>2. Hosting(p, s) \/ Joined(p, s)
  BY <1>1 DEF MaySend, ClickInv, Tagged, Asks, Relayed
<1> QED BY <1>2 DEF Hosting, Joined
===============================================================================
