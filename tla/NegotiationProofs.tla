--------------------------- MODULE NegotiationProofs ---------------------------
(***************************************************************************)
(* One-to-one calls, for every set of users, sessions and addresses and    *)
(* for any number of other pages, clicks, candidates and messages: guest   *)
(* and host agree on one offer and its answer, no candidate comes before   *)
(* the description it needs, the host shows the guest, and nothing about   *)
(* another session comes in between.                                       *)
(***************************************************************************)
EXTENDS CandidateProofs
-------------------------------------------------------------------------------
(* What holds of every page. *)

Member(q) == \E s \in SessionID : Hosting(q, s) \/ Joined(q, s)

Deaf(q) == socket[q] \in {"lost", "closed"}
Off(q)  == pc[q] \in {"unmapped", "unlisted", "closing", "ended"}

\* The server reads what has been sent, and a page sends when it is connected.
Wired(q) ==
  /\ received[q] <= Len(sent[q])
  /\ socket[q] = "connecting" => pc[q] = "new" /\ sent[q] = << >>

\* What the connection was given came from another member of a session.
Told(q) ==
  /\ \A o \in Range(ops[q]) :
       /\ o.op = "set_remote_answer" => Joined(q, o.session) /\ o.desc \in Description
       /\ o.op = "add_ice_candidate" => Hosting(q, o.session) \/ Joined(q, o.session)
  /\ rtc[q].remote # None \/ refused[q] > 0 => Member(q)
  /\ connected[q] => rtc[q].remote # None

\* Page q has sent a description before its i-th message.
Described(q, i) ==
  \E j \in DOMAIN sent[q] : j < i /\ sent[q][j].kind \in {"VideoOffer", "VideoAnswer"}

\* Candidates are looked for when a description is set, and it is sent first.
Searching(q) ==
  /\ \A i \in DOMAIN sent[q] : Asks(q, i, "IceCandidate") => Described(q, i)
  /\ gathering[q] > 0 \/ sleeping[q] > 0 => Deaf(q) \/ Described(q, Len(sent[q]) + 1)

PageFacts(q) == Wired(q) /\ Told(q) /\ Searching(q)

-------------------------------------------------------------------------------
(* What holds of the server. *)

\* A reply goes to the connection it answers, a candidate across its session.
Shaped(c, m, d) ==
  /\ m.kind \notin Relayed => d = c
  /\ m.kind = "IceCandidate" =>
       \/ Hosting(c, m.session) /\ Joined(d, m.session)
       \/ Joined(c, m.session) /\ Hosting(d, m.session)

EnvelopeShaped ==
  \A c \in UserID : pc[c] = "sending" => Shaped(c, envelope[c].msg, Addressee(c))

SessionsStand ==
  \A s \in SessionID :
    /\ host_of[s] # None /\ ~Exists(s) => pc[host_of[s]] \in {"closing", "ended"}
    /\ guests_of[s] # {} => host_of[s] # None
    /\ Exists(s) /\ guests_of[s] # {} => session_list[s].guest # None

-------------------------------------------------------------------------------
(* The initiator, who clicks Connect once and Start never. *)

Initiator(p) == clicks[p]["start"] = 0 /\ clicks[p]["connect"] <= 1
Listener(h)  == clicks[h]["connect"] = 0

Once(q, kind) ==
  \A i, j \in DOMAIN q : q[i].kind = kind /\ q[j].kind = kind => i = j

OnceAmong(q, names) ==
  \A i, j \in DOMAIN q : q[i].op \in names /\ q[j].op \in names => i = j

Offering  == {"create_offer", "set_local_offer"}
Answering == {"set_remote_offer", "create_answer", "set_local_answer"}

Idle(p, names) == \A o \in Range(ops[p]) : o.op \notin names

\* The request to join has been read; its success is composed; it is in the queue.
Asked(p)     == \E i \in DOMAIN sent[p] : i <= received[p] /\ Asks(p, i, "SessionJoin")
Accepting(p) == pc[p] = "sending" /\ envelope[p].msg.kind = "SessionJoinSuccess"
Accepted(p)  == \E m \in Range(out[p]) : m.kind = "SessionJoinSuccess"

\* p has not begun an offer.
Unbegun(p) == Idle(p, Offering) /\ rtc[p].streams = 0 /\ rtc[p].local = None

\* p may begin an offer when the success of its request has been read, which
\* happens once.
Early(p) == ~Asked(p) \/ Accepting(p) \/ Accepted(p)

TokenInv(p) ==
  /\ ~Asked(p) => ~Accepting(p) /\ ~Accepted(p)
  /\ Accepting(p) => ~Accepted(p)
  /\ Once(out[p], "SessionJoinSuccess")
  /\ Early(p) => camera[p] = << >> /\ Unbegun(p)

OfferInv(p) ==
  /\ camera[p] # << >> => Len(camera[p]) = 1 /\ camera[p][1].for = "offer" /\ Unbegun(p)
  /\ OnceAmong(ops[p], Offering)
  /\ \A o \in Range(ops[p]) :
       /\ o.op \in Offering => rtc[p].streams = 1 /\ rtc[p].local = None
       /\ o.op = "set_local_offer" => o.desc.streams = 1
  /\ rtc[p].local # None => rtc[p].local.streams = 1
  /\ Once(sent[p], "VideoOffer")
  /\ \A m \in Range(sent[p]) : m.kind = "VideoOffer" => m.desc = rtc[p].local
  /\ rtc[p].local # None /\ rtc[p].remote = None => rtc[p].signaling = "have-local-offer"
  /\ rtc[p].remote # None \/ rtc[p].signaling = "have-local-offer" => rtc[p].streams > 0
  /\ rtc[p].streams > 0 => video[p]["peer_a_video"] = "own"

StageInv(p) == TokenInv(p) /\ OfferInv(p)

-------------------------------------------------------------------------------
(* A listener, who never clicks Connect, and the only guest it has. *)

Paired(p, h) ==
  /\ p # h
  /\ Initiator(p) /\ Listener(h)
  /\ \A s \in SessionID : host_of[s] = h => guests_of[s] \subseteq {p}

Linked(p, h) == \E s \in SessionID : Hosting(h, s) /\ Joined(p, s)

\* p's offer to h has been read; is composed; is in the queue of h.
OfferRead(p, h) ==
  \E i \in DOMAIN sent[p] :
    i <= received[p] /\ Asks(p, i, "VideoOffer") /\ Hosting(h, sent[p][i].session)
OfferComposed(p, h) ==
  pc[p] = "sending" /\ envelope[p].msg.kind = "VideoOffer" /\ Hosting(h, envelope[p].msg.session)
OfferQueued(h) == \E m \in Range(out[h]) : m.kind = "VideoOffer"

\* p's offer has not reached the page of h.
Awaited(p, h) == ~OfferRead(p, h) \/ OfferComposed(p, h) \/ OfferQueued(h)

Untouched(h) == Idle(h, Answering) /\ rtc[h].remote = None /\ rtc[h].local = None

AnswerTo(d, offer) == d.re = ID(offer) /\ d.lines = offer.lines

HostInv(p, h) ==
  /\ Awaited(p, h) => Untouched(h)
  /\ OnceAmong(ops[h], Answering)
  /\ \A o \in Range(ops[h]) :
       /\ o.op \in Answering => Joined(p, o.session) /\ rtc[h].local = None
       /\ o.op = "set_remote_offer" => rtc[h].remote = None /\ o.desc = rtc[p].local
       /\ o.op \in {"create_answer", "set_local_answer"} => rtc[h].remote # None
       /\ o.op = "set_local_answer" => AnswerTo(o.desc, rtc[h].remote)
  /\ rtc[h].remote # None => rtc[h].remote = rtc[p].local
  /\ rtc[h].local # None => rtc[h].remote # None /\ AnswerTo(rtc[h].local, rtc[h].remote)
  /\ \A m \in Range(sent[h]) : m.kind = "VideoAnswer" =>
       m.desc = rtc[h].local /\ m.desc # None /\ Joined(p, m.session)

GuestInv(p, h) ==
  /\ \A o \in Range(ops[p]) : o.op = "set_remote_answer" /\ Hosting(h, o.session) =>
       o.desc = rtc[h].local /\ o.desc # None
  /\ Linked(p, h) /\ rtc[p].remote # None => rtc[p].remote = rtc[h].local

-------------------------------------------------------------------------------
(* Candidates. *)

\* In sequence q something of the set early comes before anything of late.
Follows(q, late, early) ==
  \A i \in DOMAIN q : q[i] \in late => \E j \in DOMAIN q : j < i /\ q[j] \in early

MessagesOf(kind) == {m \in SignalEnum : m.kind = kind}
CandidatesOf(h)  == {m \in SignalEnum : m.kind = "IceCandidate" /\ Hosting(h, m.session)}
CallsOf(op)      == {o \in Operation : o.op = op}
AdditionsOf(h)   == {o \in Operation : o.op = "add_ice_candidate" /\ Hosting(h, o.session)}

\* r has set the description that its op sets, or is about to; or it is in the
\* queue of r, or r is cut off.
Took(r, op) == rtc[r].remote # None \/ \E o \in Range(ops[r]) : o.op = op

Arrived(r, kind, op) ==
  Took(r, op) \/ (\E m \in Range(out[r]) : m.kind = kind) \/ Off(r) \/ Deaf(r)

\* The j-th message of q is a description about a session of h, and the server
\* is done with it.
Passed(q, j, h, kind) ==
  /\ Asks(q, j, kind) /\ Hosting(h, sent[q][j].session) /\ j <= received[q]
  /\ ~(pc[q] = "sending" /\ envelope[q].msg.kind = kind /\ envelope[q].msg.seq = j)

\* From q to r, in sessions of h.
Ahead(q, r, h, kind, op) ==
  /\ \A j \in DOMAIN sent[q] : Passed(q, j, h, kind) => Arrived(r, kind, op)
  /\ Took(r, op) \/ Deaf(r) \/ Follows(out[r], CandidatesOf(h), MessagesOf(kind))
  /\ rtc[r].remote # None \/ Follows(ops[r], AdditionsOf(h), CallsOf(op))

AheadInv(p, h) ==
  /\ Ahead(p, h, h, "VideoOffer", "set_remote_offer")
  /\ refused[h] = 0
  /\ Linked(p, h) => Ahead(h, p, h, "VideoAnswer", "set_remote_answer") /\ refused[p] = 0

-------------------------------------------------------------------------------
(* The screen. *)

ScreenInv ==
  /\ \A p \in UserID : Initiator(p) => video[p]["peer_a_video"] # "remote"
  /\ \A h \in UserID : Listener(h) => video[h]["peer_b_video"] # "remote"
  /\ \A p, h \in UserID : Paired(p, h) /\ connected[h] => video[h]["peer_a_video"] = "remote"


(***************************************************************************)
(* The proofs.  First, sequences by their elements and their order.        *)
(***************************************************************************)
LEMMA TailSeq ==
  ASSUME NEW S, NEW q \in Seq(S), q # << >>
  PROVE  /\ Head(q) = q[1] /\ 1 \in DOMAIN q /\ Head(q) \in S
         /\ Tail(q) \in Seq(S)
         /\ \A i \in DOMAIN Tail(q) :
              i \in Nat /\ i + 1 \in DOMAIN q /\ i + 1 # 1 /\ Tail(q)[i] = q[i + 1]
         /\ \A i \in DOMAIN q :
              i \in Nat /\ (i = 1 \/ (i - 1 \in DOMAIN Tail(q) /\ Tail(q)[i - 1] = q[i]))
OBVIOUS

LEMMA AppendSeq ==
  ASSUME NEW S, NEW q \in Seq(S), NEW x \in S
  PROVE  /\ Append(q, x) \in Seq(S) /\ Len(Append(q, x)) = Len(q) + 1 /\ Len(q) \in Nat
         /\ \A i \in DOMAIN q :
              /\ i \in Nat /\ i <= Len(q) /\ i # Len(q) + 1
              /\ i \in DOMAIN Append(q, x) /\ Append(q, x)[i] = q[i]
         /\ Len(q) + 1 \in DOMAIN Append(q, x) /\ Append(q, x)[Len(q) + 1] = x
         /\ \A i \in DOMAIN Append(q, x) : i \in DOMAIN q \/ i = Len(q) + 1
OBVIOUS

\* What occurs once is gone when it is taken, and occurs once when it is added
\* for the first time.
LEMMA OnceTail ==
  ASSUME NEW S, NEW q \in Seq(S), q # << >>, NEW kind, Once(q, kind)
  PROVE  /\ Once(Tail(q), kind)
         /\ Head(q).kind = kind => \A m \in Range(Tail(q)) : m.kind # kind
<1> DEFINE t == Tail(q)
<1>1. \A i \in DOMAIN t : i \in Nat /\ i + 1 \in DOMAIN q /\ i + 1 # 1 /\ t[i] = q[i + 1]
  BY TailSeq
<1>2. 1 \in DOMAIN q /\ Head(q) = q[1]
  BY TailSeq
<1> HIDE DEF t
<1>3. ASSUME NEW i \in DOMAIN t, NEW j \in DOMAIN t, t[i].kind = kind, t[j].kind = kind PROVE i = j
  <2>1. i + 1 = j + 1
    BY <1>1, <1>3 DEF Once
  <2> QED BY <1>1, <2>1
<1>4. Head(q).kind = kind => \A i \in DOMAIN t : t[i].kind # kind
  BY <1>1, <1>2 DEF Once
<1> QED BY <1>3, <1>4 DEF Once, Range, t

LEMMA OnceAppend ==
  ASSUME NEW S, NEW q \in Seq(S), NEW x \in S, NEW kind, Once(q, kind),
         x.kind = kind => \A m \in Range(q) : m.kind # kind
  PROVE  Once(Append(q, x), kind)
<1> DEFINE a == Append(q, x)
<1>1. /\ \A i \in DOMAIN q : a[i] = q[i]
      /\ a[Len(q) + 1] = x
      /\ \A i \in DOMAIN a : i \in DOMAIN q \/ i = Len(q) + 1
  BY AppendSeq
<1> HIDE DEF a
<1>2. x.kind = kind => \A i \in DOMAIN q : q[i].kind # kind
  BY DEF Range
<1> QED BY <1>1, <1>2 DEF Once, a

LEMMA OnceAmongTail ==
  ASSUME NEW S, NEW q \in Seq(S), q # << >>, NEW names, OnceAmong(q, names)
  PROVE  /\ OnceAmong(Tail(q), names)
         /\ Head(q).op \in names => \A o \in Range(Tail(q)) : o.op \notin names
<1> DEFINE t == Tail(q)
<1>1. \A i \in DOMAIN t : i \in Nat /\ i + 1 \in DOMAIN q /\ i + 1 # 1 /\ t[i] = q[i + 1]
  BY TailSeq
<1>2. 1 \in DOMAIN q /\ Head(q) = q[1]
  BY TailSeq
<1> HIDE DEF t
<1>3. ASSUME NEW i \in DOMAIN t, NEW j \in DOMAIN t, t[i].op \in names, t[j].op \in names PROVE i = j
  <2>1. i + 1 = j + 1
    BY <1>1, <1>3 DEF OnceAmong
  <2> QED BY <1>1, <2>1
<1>4. Head(q).op \in names => \A i \in DOMAIN t : t[i].op \notin names
  BY <1>1, <1>2 DEF OnceAmong
<1> QED BY <1>3, <1>4 DEF OnceAmong, Range, t

LEMMA OnceAmongAppend ==
  ASSUME NEW S, NEW q \in Seq(S), NEW x \in S, NEW names, OnceAmong(q, names),
         x.op \in names => \A o \in Range(q) : o.op \notin names
  PROVE  OnceAmong(Append(q, x), names)
<1> DEFINE a == Append(q, x)
<1>1. /\ \A i \in DOMAIN q : a[i] = q[i]
      /\ a[Len(q) + 1] = x
      /\ \A i \in DOMAIN a : i \in DOMAIN q \/ i = Len(q) + 1
  BY AppendSeq
<1> HIDE DEF a
<1>2. x.op \in names => \A i \in DOMAIN q : q[i].op \notin names
  BY DEF Range
<1> QED BY <1>1, <1>2 DEF OnceAmong, a

\* What comes early stays early as long as it is not taken.
LEMMA FollowsTail ==
  ASSUME NEW S, NEW q \in Seq(S), q # << >>, NEW late, NEW early, Follows(q, late, early)
  PROVE  /\ Head(q) \notin early => Follows(Tail(q), late, early)
         /\ Head(q) \notin late
<1> DEFINE t == Tail(q)
<1>1. \A i \in DOMAIN t : i \in Nat /\ i + 1 \in DOMAIN q /\ i + 1 # 1 /\ t[i] = q[i + 1]
  BY TailSeq
<1>2. 1 \in DOMAIN q /\ Head(q) = q[1]
  BY TailSeq
<1>3. \A i \in DOMAIN q : i \in Nat /\ ~(i < 1) /\ (i = 1 \/ (i - 1 \in DOMAIN t /\ t[i - 1] = q[i]))
  BY TailSeq
<1> HIDE DEF t
<1>4. ASSUME Head(q) \notin early, NEW i \in DOMAIN t, t[i] \in late
      PROVE  \E j \in DOMAIN t : j < i /\ t[j] \in early
  <2>1. PICK j \in DOMAIN q : j < i + 1 /\ q[j] \in early
    BY <1>1, <1>4 DEF Follows
  <2>2. j # 1
    BY <1>2, <1>4, <2>1
  <2>3. j - 1 \in DOMAIN t /\ t[j - 1] = q[j]
    BY <1>3, <2>2
  <2>4. i \in Nat /\ j \in Nat
    BY <1>1, <1>3
  <2>5. j - 1 < i
    BY <2>1, <2>4
  <2> QED BY <2>1, <2>3, <2>5
<1>5. Head(q) \notin late
  BY <1>2, <1>3 DEF Follows
<1> QED BY <1>4, <1>5 DEF Follows, t

LEMMA FollowsAppend ==
  ASSUME NEW S, NEW q \in Seq(S), NEW x \in S, NEW late, NEW early, Follows(q, late, early),
         x \in late => \E y \in Range(q) : y \in early
  PROVE  Follows(Append(q, x), late, early)
<1> DEFINE a == Append(q, x)
<1>1. /\ \A i \in DOMAIN q : a[i] = q[i] /\ i \in DOMAIN a /\ i \in Nat /\ i <= Len(q)
      /\ a[Len(q) + 1] = x
      /\ \A i \in DOMAIN a : i \in DOMAIN q \/ i = Len(q) + 1
      /\ Len(q) \in Nat
  BY AppendSeq
<1> HIDE DEF a
<1>2. x \in late => \E j \in DOMAIN q : q[j] \in early /\ j < Len(q) + 1
  BY <1>1 DEF Range
<1>3. \A i \in DOMAIN q : q[i] \in late => \E j \in DOMAIN a : j < i /\ a[j] \in early
  BY <1>1 DEF Follows
<1>4. x \in late => \E j \in DOMAIN a : a[j] \in early /\ j < Len(q) + 1
  BY <1>1, <1>2
<1> QED BY <1>1, <1>3, <1>4 DEF Follows, a

-------------------------------------------------------------------------------
(* What the server keeps. *)

LEMMA SessionsStandNext ==
  ASSUME WellBehaved, TypeOK, SessionsRecorded, DoomedOwned, SessionsStand, [Next]_vars
  PROVE  SessionsStand'
<1>0. HistoryGrows
  BY HistoryNext DEF WellBehaved
<1>1. ASSUME NEW c \in UserID, Receive(c) PROVE SessionsStand'
  <2>1. PICK m \in ClientMessages(c) : HandleMessage(c, m)
    BY <1>1 DEF Receive
  <2>2. \A u \in UserID : pc[u] \in {"closing", "ended"} => pc'[u] = pc[u]
    BY <1>1, ReceiveEffect DEF TypeOK
  <2> DEFINE Good(s) ==
        /\ host_of[s] # None /\ ~Exists(s) => pc[host_of[s]] \in {"closing", "ended"}
        /\ guests_of[s] # {} => host_of[s] # None
        /\ Exists(s) /\ guests_of[s] # {} => session_list[s].guest # None
  <2>3. ASSUME NEW s \in SessionID,
               UNCHANGED <<host_of[s], guests_of[s], session_list[s]>>
        PROVE  Good(s)'
    BY <2>2, <2>3 DEF SessionsStand, Exists, TypeOK
  <2>4. CASE HandleSessionNew(c, m)
    <3>1. PICK t \in SessionID :
            /\ host_of[t] = None
            /\ session_list' = [session_list EXCEPT ![t] = [host |-> c, guest |-> None]]
            /\ host_of' = [host_of EXCEPT ![t] = c]
      BY <2>4 DEF HandleSessionNew, WellBehaved
    <3>2. guests_of' = guests_of
      BY <2>4 DEF HandleSessionNew
    <3>3. \A s \in SessionID \ {t} : UNCHANGED <<host_of[s], guests_of[s], session_list[s]>>
      BY <3>1, <3>2 DEF TypeOK
    <3>4. Good(t)'
      <4>1. guests_of'[t] = {} /\ host_of'[t] = c /\ session_list'[t] = [host |-> c, guest |-> None]
        BY <3>1, <3>2 DEF SessionsStand, TypeOK
      <4>2. [host |-> c, guest |-> None] # NoSession
        BY NoneIsNoIdentifier DEF NoSession
      <4> QED BY <4>1, <4>2 DEF Exists
    <3> QED BY <2>3, <3>3, <3>4 DEF SessionsStand
  <2>5. CASE HandleSessionJoin(c, m) /\ Exists(m.session)
    <3>1. /\ session_list' = [session_list EXCEPT ![m.session] = [host |-> @.host, guest |-> c]]
          /\ guests_of' = [guests_of EXCEPT ![m.session] = @ \cup {c}]
          /\ host_of' = host_of
          /\ m.kind = "SessionJoin"
      BY <2>5 DEF HandleSessionJoin
    <3>2. m.session \in SessionID
      BY <3>1, ClientMessageType DEF Replies
    <3>3. \A s \in SessionID \ {m.session} : UNCHANGED <<host_of[s], guests_of[s], session_list[s]>>
      BY <3>1 DEF TypeOK
    <3>4. /\ session_list'[m.session] = [host |-> session_list[m.session].host, guest |-> c]
          /\ host_of'[m.session] = session_list[m.session].host
          /\ session_list[m.session].host \in UserID
      BY <2>5, <3>1, <3>2, SessionTypes DEF SessionsRecorded, TypeOK
    <3>5. Good(m.session)'
      BY <3>4, NoneIsNoIdentifier DEF Exists, NoSession
    <3> QED BY <2>3, <3>3, <3>5 DEF SessionsStand
  <2>6. CASE ~HandleSessionNew(c, m) /\ ~(HandleSessionJoin(c, m) /\ Exists(m.session))
    <3>1. UNCHANGED <<session_list, host_of, guests_of>>
      BY <2>1, <2>6 DEF HandleMessage, HandleVideoOffer, HandleVideoAnswer, HandleIceCandidate,
         HandleSessionJoin, HandleNothing, HandleICEError, ReturnErr, history
    <3> QED BY <2>3, <3>1 DEF SessionsStand
  <2> QED BY <2>4, <2>5, <2>6
<1>2. ASSUME NEW c \in UserID, CloseSession(c) PROVE SessionsStand'
  <2>1. PICK t \in doomed[c] : session_list' = [session_list EXCEPT ![t] = NoSession]
    BY <1>2 DEF CloseSession
  <2>2. UNCHANGED <<pc, host_of, guests_of>> /\ host_of[t] = c /\ pc[c] = "closing"
    BY <1>2, <2>1 DEF CloseSession, DoomedOwned, history
  <2>3. \A s \in SessionID : session_list'[s] = IF s = t THEN NoSession ELSE session_list[s]
    BY <2>1 DEF TypeOK
  <2> QED BY <2>2, <2>3 DEF SessionsStand, Exists
<1>3. CASE \A c \in UserID : ~Receive(c) /\ ~CloseSession(c)
  <2>1. UNCHANGED <<session_list, host_of, guests_of>>
    BY <1>3 DEF Next, TaskStep, Accept, ListUser, ReplyWithID, Close, Forward, Deliver, Leave, UnmapPeer,
       UnlistUser, CollectSessions, End, vars, tables, history
  <2>2. \A u \in UserID : pc[u] \in {"closing", "ended"} => pc'[u] \in {"closing", "ended"}
    BY <1>3 DEF Next, TaskStep, Accept, ListUser, ReplyWithID, Close, Forward, Deliver, Leave, UnmapPeer,
       UnlistUser, CollectSessions, End, vars, TypeOK
  <2> QED BY <2>1, <2>2 DEF SessionsStand, Exists, TypeOK
<1> QED BY <1>1, <1>2, <1>3

LEMMA EnvelopeShapedNext ==
  ASSUME WellBehaved, TypeOK, SessionsRecorded, EnvelopeShaped, [Next]_vars
  PROVE  EnvelopeShaped'
<1>0. HistoryGrows
  BY HistoryNext DEF WellBehaved
<1>1. ASSUME NEW c \in UserID, pc[c] = "sending", pc'[c] = "sending", envelope'[c] = envelope[c]
      PROVE  Shaped(c, envelope[c].msg, Addressee(c))'
  <2>1. Addressee(c)' = Addressee(c) /\ Addressee(c) \in UserID
    BY <1>1 DEF Addressee, TypeOK, Destination, SourcePeer, OtherPeer
  <2>2. \A u \in UserID, s \in SessionID :
          (Hosting(u, s) => Hosting(u, s)') /\ (Joined(u, s) => Joined(u, s)')
    BY <1>0, PagesStable
  <2>3. \A u \in UserID : \A s : (Hosting(u, s) \/ Joined(u, s)) => s \in SessionID
    BY DEF Hosting, Joined
  <2> QED BY <1>1, <2>1, <2>2, <2>3 DEF EnvelopeShaped, Shaped, Hosting, Joined
<1>2. ASSUME NEW c \in UserID, Receive(c) PROVE EnvelopeShaped'
  <2>1. PICK m \in ClientMessages(c) : HandleMessage(c, m)
    BY <1>2 DEF Receive
  <2>2. \A e \in UserID \ {c} : envelope'[e] = envelope[e] /\ pc'[e] = pc[e]
    BY <1>2, CountReceive
  <2>3. ASSUME pc'[c] = "sending"
        PROVE  Shaped(c, envelope[c].msg, Addressee(c))'
    <3>1. pc[c] = "serving" /\ ~ReturnErr
      BY <2>1, <2>3 DEF HandleMessage, ReturnErr
    <3>2. \A r, dest : Prepare(c, r, dest) => envelope'[c].msg = r /\ envelope'[c].dest = dest
      BY DEF Prepare, TypeOK
    <3> DEFINE w == envelope'[c].msg
    <3>3. CASE HandleVideoOffer(c, m) \/ HandleVideoAnswer(c, m)
      <4>1. w = m /\ m.kind \in {"VideoOffer", "VideoAnswer"}
        BY <3>1, <3>2, <3>3 DEF HandleVideoOffer, HandleVideoAnswer
      <4>2. w.kind \in Relayed /\ w.kind # "IceCandidate"
        BY <4>1 DEF Relayed
      <4> QED BY <4>2 DEF Shaped
    <3>4. CASE HandleIceCandidate(c, m)
      <4>1. /\ Exists(m.session) /\ session_list[m.session].guest # None
            /\ c \in {session_list[m.session].guest, session_list[m.session].host}
            /\ Prepare(c, m, OtherPeer(CandidatePeer(c, m.session)))
            /\ UNCHANGED history
            /\ m.kind = "IceCandidate"
        BY <3>1, <3>4 DEF HandleIceCandidate
      <4>2. w = m /\ envelope'[c].dest = OtherPeer(CandidatePeer(c, m.session))
        BY <3>2, <4>1
      <4>7. Addressee(c)' = CandidatePeer(c, m.session)
        BY <4>2 DEF Addressee, OtherPeer
      <4>3. m.session \in SessionID
        BY <4>1, ClientMessageType DEF Replies
      <4>4. /\ host_of'[m.session] = session_list[m.session].host
            /\ session_list[m.session].guest \in guests_of'[m.session]
        BY <4>1, <4>3 DEF SessionsRecorded, history
      <4>5. w.kind \in Relayed
        BY <4>1, <4>2 DEF Relayed
      <4>6. \/ Hosting(c, m.session)' /\ m.session \in SessionID /\ Addressee(c)' \in guests_of'[m.session]
            \/ Joined(c, m.session)' /\ m.session \in SessionID /\ host_of'[m.session] = Addressee(c)'
        BY <4>1, <4>3, <4>4, <4>7 DEF CandidatePeer, Hosting, Joined
      <4> QED BY <4>2, <4>5, <4>6 DEF Shaped, Hosting, Joined
    <3>5. CASE HandleSessionNew(c, m) \/ HandleSessionJoin(c, m)
      <4>1. \E r : Prepare(c, r, SourcePeer) /\ r.kind \notin Relayed
        <5>1. CASE HandleSessionNew(c, m)
          <6>1. PICK s \in SessionID : Prepare(c, SessionReady(s), SourcePeer)
            BY <5>1 DEF HandleSessionNew
          <6>2. SessionReady(s).kind \notin Relayed
            BY DEF SessionReady, Relayed
          <6> QED BY <6>1, <6>2
        <5>2. CASE HandleSessionJoin(c, m)
          <6>1. \/ Prepare(c, SessionJoinSuccess(m.session), SourcePeer)
                \/ Prepare(c, SessionJoinError, SourcePeer)
            BY <5>2 DEF HandleSessionJoin
          <6>2. SessionJoinSuccess(m.session).kind \notin Relayed /\ SessionJoinError.kind \notin Relayed
            BY DEF SessionJoinSuccess, SessionJoinError, Relayed
          <6> QED BY <6>1, <6>2
        <5> QED BY <3>5, <5>1, <5>2
      <4>2. PICK r : Prepare(c, r, SourcePeer) /\ r.kind \notin Relayed
        BY <4>1
      <4>3. w = r /\ envelope'[c].dest = SourcePeer
        BY <3>2, <4>2
      <4>5. Addressee(c)' = c
        BY <4>3 DEF Addressee, SourcePeer
      <4>4. w.kind # "IceCandidate"
        BY <4>2, <4>3 DEF Relayed
      <4> QED BY <4>2, <4>3, <4>4, <4>5 DEF Shaped
    <3>6. CASE HandleNothing(c, m) \/ HandleICEError(c, m)
      BY <2>3, <3>1, <3>6 DEF HandleNothing, HandleICEError, TypeOK
    <3> QED BY <2>1, <3>3, <3>4, <3>5, <3>6 DEF HandleMessage
  <2> QED BY <1>1, <2>2, <2>3 DEF EnvelopeShaped
<1>3. CASE \A c \in UserID : ~Receive(c)
  <2>1. \A e \in UserID : pc'[e] = "sending" => pc[e] = "sending" /\ envelope'[e] = envelope[e]
    BY <1>3 DEF Next, TaskStep, Accept, ListUser, ReplyWithID, Close, Forward, Deliver, Leave,
       UnmapPeer, UnlistUser, CollectSessions, CloseSession, End, vars, TypeOK
  <2> QED BY <1>1, <2>1 DEF EnvelopeShaped
<1> QED BY <1>2, <1>3

-------------------------------------------------------------------------------
(* The steps of a call, by what they change. *)

\* Nothing happens but to the socket, the tables, or the task's progress.
Calm ==
  /\ UNCHANGED <<session_id, clicks, sent, camera, rtc, ops>>
  /\ UNCHANGED <<gathering, sleeping, refused, connected, video>>
  /\ UNCHANGED <<out, envelope, received, host_of, guests_of>>
  /\ \A u \in UserID : pc'[u] = "sending" <=> pc[u] = "sending"

Handles(q) ==
  Forward(q) /\ socket[q] = "open" /\ OnMessage(q, Head(out[q]), Text(Head(out[q])))

LEMMA Steps ==
  ASSUME CallInv, [CallNext]_callVars
  PROVE  \/ Calm
         \/ \E q \in UserID : PageStep(q) /\ UNCHANGED vars
         \/ \E q \in UserID : ServerReads(q)
         \/ \E q \in UserID : Handles(q)
         \/ \E q \in UserID : /\ UNCHANGED clientVars
                              /\ (Forward(q) /\ socket[q] # "open") \/ Deliver(q) \/ ReplyWithID(q) \/ End(q)
<1>0. TypeOK
  BY DEF CallInv, RoutingInv
<1>1. ASSUME NEW q \in UserID, Connect(q) \/ Depart(q) PROVE Calm
  <2>1. UNCHANGED <<session_id, clicks, sent, camera, rtc, ops, gathering, sleeping, refused, connected, video>>
    BY <1>1 DEF Connect, OnOpen, Depart, EndSocket, screen
  <2>2. UNCHANGED <<out, envelope, received, host_of, guests_of>>
    BY <1>1 DEF Connect, Accept, Depart, Close, history
  <2>3. \A u \in UserID : pc'[u] = "sending" <=> pc[u] = "sending"
    BY <1>0, <1>1 DEF Connect, Accept, Depart, Close, TypeOK
  <2> QED BY <2>1, <2>2, <2>3 DEF Calm
<1>2. ASSUME NEW q \in UserID, ServerStep(q), ~Deliver(q), ~ReplyWithID(q), ~End(q) PROVE Calm
  <2>1. UNCHANGED <<session_id, clicks, sent, camera, rtc, ops, gathering, sleeping, refused, connected, video>>
    BY <1>2 DEF ServerStep, clientVars, screen
  <2>2. UNCHANGED <<out, envelope, received, host_of, guests_of>>
    BY <1>2 DEF ServerStep, TaskStep, ListUser, Leave, UnmapPeer, UnlistUser, CollectSessions, CloseSession, history
  <2>3. \A u \in UserID : pc'[u] = "sending" <=> pc[u] = "sending"
    BY <1>0, <1>2 DEF ServerStep, TaskStep, ListUser, Leave, UnmapPeer, UnlistUser, CollectSessions, CloseSession, TypeOK
  <2> QED BY <2>1, <2>2, <2>3 DEF Calm
<1>3. CASE UNCHANGED callVars
  BY <1>3 DEF Calm, callVars, clientVars, vars, history, screen
<1> QED BY <1>1, <1>2, <1>3 DEF CallNext, PageReads, PageActs, ServerStep, Handles

\* A step of one page leaves the others alone.
LEMMA PageFrame ==
  ASSUME ClientTypeOK, NEW p \in UserID, NEW q \in UserID, q # p,
         PageStep(p) \/ \E m, d : OnMessage(p, m, d)
  PROVE  /\ UNCHANGED <<sent[q], camera[q], ops[q], rtc[q], clicks[q]>>
         /\ UNCHANGED <<gathering[q], sleeping[q], refused[q], connected[q], video[q]>>
<1>1. UNCHANGED <<sent[q], camera[q], ops[q], rtc[q], clicks[q]>>
  BY OtherPages, OtherClicks DEF OnMessage
<1> DEFINE Same == UNCHANGED <<gathering[q], sleeping[q], refused[q], connected[q], video[q]>>
<1>2. ASSUME PageStep(p) PROVE Same
  <2>1. CASE RunOperation(p)
    <3>1. refused'[q] = refused[q]
      BY <2>1 DEF RunOperation, CreateOffer, SetLocalOffer, SetRemoteOffer, CreateAnswer, SetLocalAnswer,
         SetRemoteAnswer, AddIceCandidate, Rejected, ClientTypeOK
    <3>2. gathering' = gathering \/ Gather(p)
      BY <2>1 DEF RunOperation, CreateOffer, SetLocalOffer, SetRemoteOffer, CreateAnswer, SetLocalAnswer,
         SetRemoteAnswer, AddIceCandidate, Rejected
    <3>3. gathering'[q] = gathering[q]
      BY <3>2 DEF Gather, ClientTypeOK
    <3> QED BY <2>1, <3>1, <3>3 DEF RunOperation, screen
  <2>2. CASE CameraGranted(p)
    <3>1. PICK e : video' = [video EXCEPT ![p][e] = "own"]
      BY <2>2 DEF CameraGranted
    <3>2. video'[q] = video[q]
      BY <3>1 DEF ClientTypeOK
    <3> QED BY <2>2, <3>2 DEF CameraGranted
  <2>3. CASE OnCandidate(p) \/ RetryCandidate(p)
    <3>1. gathering'[q] = gathering[q] /\ sleeping'[q] = sleeping[q]
      BY <2>3 DEF OnCandidate, RetryCandidate, ClientTypeOK
    <3> QED BY <2>3, <3>1 DEF OnCandidate, RetryCandidate, screen
  <2>4. CASE OnConnected(p)
    <3>1. video'[q] = video[q] /\ connected'[q] = connected[q]
      BY <2>4 DEF OnConnected, ClientTypeOK
    <3> QED BY <2>4, <3>1 DEF OnConnected
  <2>5. CASE ClickStart(p) \/ ClickConnect(p) \/ ClickDebug(p) \/ CameraRefused(p)
    BY <2>5 DEF ClickStart, ClickConnect, ClickDebug, CameraRefused, screen
  <2> QED BY <1>2, <2>1, <2>2, <2>3, <2>4, <2>5 DEF PageStep
<1>3. ASSUME NEW m, NEW d, OnMessage(p, m, d) PROVE Same
  BY <1>3 DEF OnMessage, screen
<1> QED BY <1>1, <1>2, <1>3

\* Delivery appends to the queue of the addressee, unless its task is over the
\* clean-up of the maps.
LEMMA DeliverEffect ==
  ASSUME CallInv, NEW c \in UserID, Deliver(c),
         NEW d, d = Addressee(c), NEW m, m = envelope[c].msg
  PROVE  /\ pc[c] = "sending" /\ pc'[c] = "serving"
         /\ \A u \in UserID : u # c => pc'[u] = pc[u] /\ envelope'[u] = envelope[u]
         /\ UNCHANGED <<received, host_of, guests_of>>
         /\ m \in SignalEnum /\ d \in UserID
         /\ \/ out' = [out EXCEPT ![d] = Append(out[d], m)] /\ ~Off(d)
            \/ out' = out /\ Off(d)
<1>0. /\ TypeOK /\ OwnAddress /\ Registered /\ TableEntries /\ NoPanic /\ EnvelopeAddressed
      /\ pc[c] = "sending"
  BY DEF CallInv, RoutingInv, Deliver
<1>1. /\ pc'[c] = "serving"
      /\ \A u \in UserID : u # c => pc'[u] = pc[u] /\ envelope'[u] = envelope[u]
      /\ UNCHANGED <<received, host_of, guests_of>>
      /\ m \in SignalEnum
  BY <1>0 DEF Deliver, history, TypeOK
<1>2. d \in UserID /\ Started(d)
  BY <1>0 DEF Addressee, TypeOK, Destination, SourcePeer, OtherPeer, EnvelopeAddressed
<1>3. CASE Receiver(c) # None
  <2>1. Receiver(c) = d /\ HoldsSocket(d)
    BY <1>0, <1>3, ReceiverIsAddressee
  <2>2. out' = [out EXCEPT ![d] = Append(out[d], m)]
    BY <1>3, <2>1 DEF Deliver, Enqueue
  <2>3. DestinationAddr(c) \in Addr /\ peer_map[DestinationAddr(c)] = d
    BY <1>0, <1>3, <2>1 DEF Receiver, DestinationAddr, TypeOK, Destination, SourcePeer, OtherPeer
  <2>4. pc[d] \in SetupStates \cup ServingStates \cup {"leaving", "panicked"}
    BY <1>0, <1>3, <2>1, <2>3 DEF TableEntries
  <2>5. ~Off(d)
    BY <2>4 DEF Off, SetupStates, ServingStates
  <2> QED BY <1>0, <1>1, <1>2, <2>2, <2>5
<1>4. CASE Receiver(c) = None
  <2>1. out' = out
    BY <1>4 DEF Deliver, Enqueue
  <2>2. ASSUME pc[d] \in ServingStates \cup {"leaving"} PROVE FALSE
    <3>1. HoldsSocket(d)
      BY <2>2 DEF HoldsSocket, ServingStates
    <3>2. addr[d] \in Addr /\ addr[d] # None /\ peer_map[addr[d]] = d /\ user_list[d] = addr[d]
      BY <1>0, <1>2, <2>2, <3>1, ConstantsAssumption DEF OwnAddress, Registered
    <3>3. DestinationAddr(c) = addr[d]
      BY <1>0, <3>2 DEF DestinationAddr, Addressee
    <3>4. Receiver(c) = d
      BY <3>2, <3>3 DEF Receiver
    <3> QED BY <1>2, <1>4, <3>4, NoneIsNoIdentifier
  <2>3. Off(d)
    BY <1>0, <1>2, <2>2 DEF Off, Started, NoPanic, PcStates, SetupStates, ServingStates, CleanupStates, TypeOK
  <2> QED BY <1>0, <1>1, <1>2, <2>1, <2>3
<1> QED BY <1>3, <1>4

\* What the server makes of the message it reads.
LEMMA ReadComposes ==
  ASSUME WellBehaved, CallInv, NEW c \in UserID, ServerReads(c),
         NEW n, n = received[c] + 1, NEW m, m = sent[c][n]
  PROVE  /\ pc[c] = "serving" /\ out' = out /\ UNCHANGED clientVars
         /\ \A u \in UserID : u # c => pc'[u] = pc[u] /\ envelope'[u] = envelope[u] /\ received'[u] = received[u]
         /\ n \in DOMAIN sent[c] /\ received'[c] = n /\ received[c] \in Nat
         /\ pc'[c] = "sending" =>
              \/ m.kind \in Relayed /\ envelope'[c].msg = Wire(c, n)
              \/ m.kind = "SessionNew" /\ envelope'[c].msg.kind = "SessionReady"
              \/ m.kind = "SessionJoin" /\ envelope'[c].msg.kind \in {"SessionJoinSuccess", "SessionJoinError"}
         /\ pc'[c] = "sending" \/
              /\ m.kind = "VideoOffer" => ~Exists(m.session)
              /\ m.kind = "VideoAnswer" => ~Exists(m.session) \/ session_list[m.session].guest = None
<1> DEFINE w == Wire(c, n)
<1>0. TypeOK /\ "ICEError" \notin ClientKinds
  BY DEF CallInv, RoutingInv, WellBehaved
<1>1. HandleMessage(c, w) /\ UNCHANGED clientVars
  BY DEF ServerReads
<1>2. w.kind = m.kind /\ w.session = m.session
  BY DEF Wire
<1> HIDE DEF w
<1>3. Receive(c) /\ w \in ClientMessages(c)
  BY <1>0, ReadIsReceive DEF w
<1>4. w.kind # "ICEError"
  BY <1>0, <1>3 DEF ClientMessages
<1>5. /\ n \in DOMAIN sent[c] /\ received'[c] = n /\ received[c] \in Nat
      /\ \A u \in UserID : u # c => received'[u] = received[u]
  BY <1>0, ReadEffect DEF TypeOK, WellBehaved
<1>6. pc[c] = "serving" /\ \A u \in UserID : u # c => pc'[u] = pc[u] /\ envelope'[u] = envelope[u]
  BY <1>0, <1>3, CountReceive
<1>7. out' = out
  BY <1>1, <1>4 DEF HandleMessage, HandleICEError
<1>8. \A r, dest : Prepare(c, r, dest) => envelope'[c].msg = r /\ pc'[c] = "sending"
  BY <1>0 DEF Prepare, TypeOK
<1> DEFINE Sends == pc'[c] = "sending" =>
              \/ m.kind \in Relayed /\ envelope'[c].msg = w
              \/ m.kind = "SessionNew" /\ envelope'[c].msg.kind = "SessionReady"
              \/ m.kind = "SessionJoin" /\ envelope'[c].msg.kind \in {"SessionJoinSuccess", "SessionJoinError"}
           Drops == pc'[c] = "sending" \/
              /\ m.kind = "VideoOffer" => ~Exists(m.session)
              /\ m.kind = "VideoAnswer" => ~Exists(m.session) \/ session_list[m.session].guest = None
<1>9. ReturnErr => pc'[c] = "serving"
  BY <1>6 DEF ReturnErr
<1>10. ASSUME HandleVideoOffer(c, w) PROVE Sends /\ Drops
  BY <1>2, <1>8, <1>9, <1>10 DEF HandleVideoOffer, Relayed
<1>11. ASSUME HandleVideoAnswer(c, w) PROVE Sends /\ Drops
  BY <1>2, <1>8, <1>9, <1>11 DEF HandleVideoAnswer, Relayed
<1>12. ASSUME HandleIceCandidate(c, w) PROVE Sends /\ Drops
  BY <1>2, <1>8, <1>9, <1>12 DEF HandleIceCandidate, Relayed
<1>13. ASSUME HandleSessionNew(c, w) PROVE Sends /\ Drops
  BY <1>2, <1>8, <1>13 DEF HandleSessionNew, SessionReady
<1>14. ASSUME HandleSessionJoin(c, w) PROVE Sends /\ Drops
  BY <1>2, <1>8, <1>14 DEF HandleSessionJoin, SessionJoinSuccess, SessionJoinError
<1>15. ASSUME HandleNothing(c, w) PROVE Sends /\ Drops
  BY <1>2, <1>9, <1>15 DEF HandleNothing, Replies
<1>16. Sends /\ Drops
  BY <1>1, <1>4, <1>10, <1>11, <1>12, <1>13, <1>14, <1>15 DEF HandleMessage, HandleICEError
<1> QED BY <1>1, <1>5, <1>6, <1>7, <1>16 DEF w

-------------------------------------------------------------------------------
(* What a page does to its connection. *)

\* The first operation is carried out: what comes of it.
Drops(q)   == ops'[q] = Tail(ops[q])
Goes(q, o) == o \in Operation /\ o.session = Head(ops[q]).session /\ ops'[q] = Append(Tail(ops[q]), o)
Queues(q, o) == o \in Operation /\ ops'[q] = Append(ops[q], o)
Keeps(q)   == UNCHANGED <<rtc[q].local, rtc[q].remote, rtc[q].signaling>>
Quiet      == UNCHANGED <<sent, gathering, refused>>

\* The page says m, if its socket is open.
Says(q, m) ==
  /\ m \in Message
  /\ \/ socket[q] = "open" /\ sent'[q] = Append(sent[q], m)
     \/ socket[q] # "open" /\ sent' = sent

\* Each operation, by its effect on the fields that the invariants speak of.
Effect(q) ==
  LET o == Head(ops[q])
  IN  \/ /\ o.op = "create_offer" /\ Keeps(q) /\ Quiet
         /\ \E x : Goes(q, x) /\ x.op = "set_local_offer" /\ x.desc.streams = rtc[q].streams
      \/ /\ o.op = "set_local_offer" /\ Drops(q) /\ refused' = refused
         /\ rtc'[q].local = o.desc /\ rtc'[q].remote = rtc[q].remote
         /\ rtc'[q].signaling = "have-local-offer"
         /\ \E m : Says(q, m) /\ m.kind = "VideoOffer" /\ m.session = o.session /\ m.desc = o.desc
      \/ /\ o.op = "set_remote_offer" /\ Quiet
         /\ rtc'[q].local = rtc[q].local /\ rtc'[q].remote = o.desc
         /\ rtc'[q].signaling = "have-remote-offer"
         /\ \E x : Goes(q, x) /\ x.op = "create_answer"
      \/ /\ o.op = "create_answer" /\ rtc[q].signaling = "have-remote-offer" /\ Keeps(q) /\ Quiet
         /\ \E x : Goes(q, x) /\ x.op = "set_local_answer" /\ AnswerTo(x.desc, rtc[q].remote)
      \/ /\ o.op = "set_local_answer" /\ Drops(q) /\ refused' = refused
         /\ rtc'[q].local = o.desc /\ rtc'[q].remote = rtc[q].remote
         /\ rtc'[q].signaling = "stable"
         /\ \E m : Says(q, m) /\ m.kind = "VideoAnswer" /\ m.session = o.session /\ m.desc = o.desc
      \/ /\ o.op = "set_remote_answer" /\ AnswerFits(q) /\ Drops(q) /\ Quiet
         /\ rtc'[q].local = rtc[q].local /\ rtc'[q].remote = o.desc
         /\ rtc'[q].signaling = "stable"
      \/ /\ o.op = "add_ice_candidate" /\ Drops(q) /\ Keeps(q) /\ UNCHANGED <<sent, gathering>>
         /\ refused'[q] # refused[q] => rtc[q].remote = None
      \/ /\ o.op \notin {"set_remote_offer", "add_ice_candidate"}
         /\ o.op = "set_remote_answer" => ~AnswerFits(q)
         /\ Drops(q) /\ Keeps(q) /\ Quiet

LEMMA SendSays ==
  ASSUME ClientTypeOK, NEW q \in UserID, NEW kind \in Requests, NEW s \in SessionID \cup {None},
         NEW d \in Description \cup {None}, Send(q, kind, s, d)
  PROVE  \E m : Says(q, m) /\ m.kind = kind /\ m.session = s /\ m.desc = d
<1> DEFINE m == [kind |-> kind, session |-> s, desc |-> d]
<1>1. m \in Message /\ m.kind = kind /\ m.session = s /\ m.desc = d
  BY DEF Message
<1>2. Says(q, m)
  BY <1>1 DEF Says, Send, ClientTypeOK
<1> QED BY <1>1, <1>2

LEMMA OperationEffect ==
  ASSUME ClientTypeOK, NEW q \in UserID, PageInv(q), RunOperation(q)
  PROVE  /\ ops[q] # << >> /\ ops[q] \in Seq(Operation)
         /\ Head(ops[q]) \in Operation /\ Head(ops[q]) \in Range(ops[q])
         /\ UNCHANGED <<socket, session_id, clicks, camera, sleeping, connected, video>>
         /\ rtc'[q].streams = rtc[q].streams
         /\ Effect(q)
<1>1. ops[q] # << >> /\ ops[q] \in Seq(Operation) /\ rtc[q] \in PeerConnection
  BY DEF RunOperation, ClientTypeOK
<1>2. Current(q) \in Operation /\ Current(q) \in Range(ops[q]) /\ Tail(ops[q]) \in Seq(Operation)
  BY <1>1, CurrentType
<1> DEFINE o == Head(ops[q])
<1>3. o \in Operation /\ o \in Range(ops[q]) /\ o = Current(q)
  BY <1>2 DEF Current
<1>4. UNCHANGED <<socket, session_id, clicks, camera, sleeping, connected, video>>
  BY DEF RunOperation, screen
<1>5. Finish(q) => Drops(q)
  BY DEF Finish, Drops, ClientTypeOK
<1>6. \A op \in OpNames, d \in Description \cup {None} :
        Continue(q, op, d) => Goes(q, [op |-> op, desc |-> d, session |-> o.session])
  BY <1>1, <1>3 DEF Continue, Goes, ClientTypeOK, Operation
<1> DEFINE Ok == rtc'[q].streams = rtc[q].streams /\ Effect(q)
<1>7. ASSUME CreateOffer(q) PROVE Ok
  <2> DEFINE d == NewOffer(q)
             x == [op |-> "set_local_offer", desc |-> d, session |-> o.session]
  <2>1. d \in Description /\ d.streams = rtc[q].streams
    BY NewDescriptionType
  <2>2. Goes(q, x)
    BY <1>6, <1>7, <2>1 DEF CreateOffer, OpNames
  <2>3. x.op = "set_local_offer" /\ x.desc.streams = rtc[q].streams
    BY <2>1
  <2>4. rtc'[q].streams = rtc[q].streams /\ Keeps(q)
    BY <1>1, <1>7 DEF CreateOffer, Create, Keeps, ClientTypeOK, PeerConnection
  <2> HIDE DEF x, d
  <2> QED BY <1>3, <1>7, <2>2, <2>3, <2>4 DEF CreateOffer, Quiet, Effect
<1>8. ASSUME SetLocalOffer(q) PROVE Ok
  <2>1. /\ rtc'[q].streams = rtc[q].streams /\ rtc'[q].local = o.desc
        /\ rtc'[q].remote = rtc[q].remote /\ rtc'[q].signaling = "have-local-offer"
    BY <1>1, <1>3, <1>8 DEF SetLocalOffer, ClientTypeOK, PeerConnection
  <2>2. \E m : Says(q, m) /\ m.kind = "VideoOffer" /\ m.session = o.session /\ m.desc = o.desc
    BY <1>3, <1>8, SendSays DEF SetLocalOffer, Operation, Requests, Relayed
  <2> QED BY <1>3, <1>5, <1>8, <2>1, <2>2 DEF SetLocalOffer, Effect
<1>9. ASSUME SetRemoteOffer(q) PROVE Ok
  <2> DEFINE x == [op |-> "create_answer", desc |-> None, session |-> o.session]
  <2>1. Goes(q, x) /\ x.op = "create_answer"
    BY <1>6, <1>9 DEF SetRemoteOffer, OpNames
  <2>2. /\ rtc'[q].streams = rtc[q].streams /\ rtc'[q].local = rtc[q].local
        /\ rtc'[q].remote = o.desc /\ rtc'[q].signaling = "have-remote-offer"
    BY <1>1, <1>3, <1>9 DEF SetRemoteOffer, ClientTypeOK, PeerConnection
  <2> HIDE DEF x
  <2> QED BY <1>3, <1>9, <2>1, <2>2 DEF SetRemoteOffer, Quiet, Effect
<1>10. ASSUME CreateAnswer(q) PROVE Ok
  <2> DEFINE d == NewAnswer(q)
             x == [op |-> "set_local_answer", desc |-> d, session |-> o.session]
  <2>1. rtc[q].signaling = "have-remote-offer"
    BY <1>10 DEF CreateAnswer
  <2>2. d \in Description /\ AnswerTo(d, rtc[q].remote)
    BY <2>1, NewDescriptionType DEF PageInv, NewAnswer, AnswerTo
  <2>3. Goes(q, x)
    BY <1>6, <1>10, <2>2 DEF CreateAnswer, OpNames
  <2>4. x.op = "set_local_answer" /\ AnswerTo(x.desc, rtc[q].remote)
    BY <2>2
  <2>5. rtc'[q].streams = rtc[q].streams /\ Keeps(q)
    BY <1>1, <1>10 DEF CreateAnswer, Create, Keeps, ClientTypeOK, PeerConnection
  <2> HIDE DEF x, d
  <2> QED BY <1>3, <1>10, <2>1, <2>3, <2>4, <2>5 DEF CreateAnswer, Quiet, Effect
<1>11. ASSUME SetLocalAnswer(q) PROVE Ok
  <2>1. /\ rtc'[q].streams = rtc[q].streams /\ rtc'[q].local = o.desc
        /\ rtc'[q].remote = rtc[q].remote /\ rtc'[q].signaling = "stable"
    BY <1>1, <1>3, <1>11 DEF SetLocalAnswer, ClientTypeOK, PeerConnection
  <2>2. \E m : Says(q, m) /\ m.kind = "VideoAnswer" /\ m.session = o.session /\ m.desc = o.desc
    BY <1>3, <1>11, SendSays DEF SetLocalAnswer, Operation, Requests, Relayed
  <2> QED BY <1>3, <1>5, <1>11, <2>1, <2>2 DEF SetLocalAnswer, Effect
<1>12. ASSUME SetRemoteAnswer(q) PROVE Ok
  <2>1. /\ rtc'[q].streams = rtc[q].streams /\ rtc'[q].local = rtc[q].local
        /\ rtc'[q].remote = o.desc /\ rtc'[q].signaling = "stable"
    BY <1>1, <1>3, <1>12 DEF SetRemoteAnswer, ClientTypeOK, PeerConnection
  <2> QED BY <1>3, <1>5, <1>12, <2>1 DEF SetRemoteAnswer, Quiet, Effect
<1>13. ASSUME AddIceCandidate(q) PROVE Ok
  <2>1. refused'[q] # refused[q] => rtc[q].remote = None
    BY <1>13 DEF AddIceCandidate
  <2>2. o.op = "add_ice_candidate" /\ UNCHANGED <<sent, gathering, rtc>> /\ Drops(q)
    BY <1>3, <1>5, <1>13 DEF AddIceCandidate
  <2> QED BY <2>1, <2>2 DEF Keeps, Effect
<1>14. ASSUME Rejected(q) PROVE Ok
  <2>1. /\ o.op \notin {"set_remote_offer", "add_ice_candidate"}
        /\ o.op = "set_remote_answer" => ~AnswerFits(q)
        /\ UNCHANGED <<rtc, sent, gathering, refused>> /\ Drops(q)
    BY <1>3, <1>5, <1>14 DEF Rejected
  <2> QED BY <2>1 DEF Keeps, Quiet, Effect
<1> QED BY <1>1, <1>3, <1>4, <1>7, <1>8, <1>9, <1>10, <1>11, <1>12, <1>13, <1>14 DEF RunOperation

\* The other steps of a page, likewise.
Requested(q) ==
  /\ UNCHANGED <<ops, rtc, gathering, sleeping, refused, connected, video>>
  /\ \E m : Says(q, m) /\ m.kind \in {"SessionNew", "SessionJoin", "Debug"}
  /\ camera'[q] = camera[q] \/ clicks'[q]["start"] > 0

Turned(q) ==
  /\ UNCHANGED <<sent, ops, rtc, clicks, gathering, sleeping, refused, connected, video>>
  /\ \E i \in DOMAIN camera[q] : camera'[q] = RemoveAt(camera[q], i)

Found(q) ==
  /\ UNCHANGED <<ops, rtc, clicks, camera, refused, connected, video>>
  /\ gathering[q] > 0 \/ sleeping[q] > 0
  /\ sent' = sent \/ \E m : Says(q, m) /\ m.kind = "IceCandidate" /\ m.session = session_id[q]

Shows(q) ==
  /\ UNCHANGED <<sent, ops, rtc, clicks, camera, gathering, sleeping, refused>>
  /\ rtc[q].remote # None
  /\ connected' = [connected EXCEPT ![q] = TRUE]
  /\ video'[q] = IF rtc[q].remote.streams = 1 THEN [video[q] EXCEPT ![RemotePane(q)] = "remote"] ELSE video[q]

LEMMA PageCases ==
  ASSUME ClientTypeOK, NEW q \in UserID, PageStep(q)
  PROVE  /\ UNCHANGED <<socket, session_id>>
         /\ \/ Requested(q)
            \/ CameraGranted(q)
            \/ Turned(q)
            \/ RunOperation(q)
            \/ Found(q)
            \/ Shows(q)
<1>1. UNCHANGED <<socket, session_id>>
  BY DEF PageStep, ClickStart, ClickConnect, ClickDebug, CameraGranted, CameraRefused, RunOperation,
     OnCandidate, RetryCandidate, OnConnected
<1>2. CASE ClickStart(q)
  <2>1. clicks'[q]["start"] > 0
    <3>1. Click(q, "start") /\ "start" \in Button
      BY <1>2 DEF ClickStart, Button
    <3>2. clicks[q]["start"] \in Nat /\ clicks'[q]["start"] = clicks[q]["start"] + 1
      BY <3>1, ClickCounts DEF ClientTypeOK
    <3> QED BY <3>2
  <2>2. \E m : Says(q, m) /\ m.kind = "SessionNew"
    <3>1. Send(q, "SessionNew", None, None) /\ "SessionNew" \in Requests
      BY <1>2 DEF ClickStart, Requests
    <3> QED BY <3>1, SendSays
  <2> QED BY <1>1, <1>2, <2>1, <2>2 DEF ClickStart, Requested, screen
<1>3. CASE ClickConnect(q)
  <2>1. \E m : Says(q, m) /\ m.kind = "SessionJoin"
    BY <1>3, SendSays DEF ClickConnect, Requests
  <2> QED BY <1>1, <1>3, <2>1 DEF ClickConnect, Requested, screen
<1>4. CASE ClickDebug(q)
  <2>1. \E m : Says(q, m) /\ m.kind = "Debug"
    BY <1>4, SendSays DEF ClickDebug, Requests
  <2> QED BY <1>1, <1>4, <2>1 DEF ClickDebug, Requested, screen
<1>5. CASE CameraRefused(q)
  BY <1>1, <1>5 DEF CameraRefused, Turned, screen, ClientTypeOK
<1>6. CASE OnCandidate(q) \/ RetryCandidate(q)
  <2>1. sent' = sent \/ Send(q, "IceCandidate", session_id[q], None)
    BY <1>6 DEF OnCandidate, RetryCandidate
  <2>2. session_id[q] \in SessionID \cup {None} /\ "IceCandidate" \in Requests
    BY DEF ClientTypeOK, Requests, Relayed
  <2>3. sent' = sent \/ \E m : Says(q, m) /\ m.kind = "IceCandidate" /\ m.session = session_id[q]
    BY <2>1, <2>2, SendSays
  <2> QED BY <1>1, <1>6, <2>3 DEF OnCandidate, RetryCandidate, Found, screen
<1>7. CASE OnConnected(q)
  <2>1. PICK e : e = RemotePane(q)
    OBVIOUS
  <2>2. video' = IF rtc[q].remote.streams = 1 THEN [video EXCEPT ![q] = [video[q] EXCEPT ![e] = "remote"]] ELSE video
    BY <1>7, <2>1 DEF OnConnected
  <2>3. video'[q] = IF rtc[q].remote.streams = 1 THEN [video[q] EXCEPT ![e] = "remote"] ELSE video[q]
    BY <2>2 DEF ClientTypeOK
  <2> QED BY <1>1, <1>7, <2>1, <2>3 DEF OnConnected, Shows
<1> QED BY <1>1, <1>2, <1>3, <1>4, <1>5, <1>6, <1>7 DEF PageStep

-------------------------------------------------------------------------------
(* What every page keeps. *)

\* A cut-off page and a task in its clean-up stay so, and the counts of clicks grow.
LEMMA Onward ==
  ASSUME CallInv, NEW q \in UserID, [CallNext]_callVars
  PROVE  /\ Deaf(q) => Deaf(q)'
         /\ Off(q) => Off(q)'
         /\ \A b \in Button : clicks'[q][b] >= clicks[q][b] /\ clicks[q][b] \in Nat /\ clicks'[q][b] \in Nat
<1>0. TypeOK /\ ClientTypeOK
  BY DEF CallInv, RoutingInv
<1>1. Deaf(q) => Deaf(q)'
  <2>1. socket' = socket \/ \E p \in UserID : OnOpen(p) \/ \E how \in Leaving : EndSocket(p, how)
    BY DEF CallNext, Connect, Depart, ServerReads, PageReads, OnMessage, ServerStep, PageActs, PageStep,
       ClickStart, ClickConnect, ClickDebug, CameraGranted, CameraRefused, RunOperation, OnCandidate,
       RetryCandidate, OnConnected, callVars, clientVars
  <2> QED BY <1>0, <2>1 DEF OnOpen, EndSocket, Deaf, ClientTypeOK
<1>2. Off(q) => Off(q)'
  <2>1. ASSUME NEW p \in UserID, ServerReads(p) \/ PageReads(p) \/ Connect(p) \/ Depart(p) \/ ServerStep(p)
        PROVE  Off(q) => Off(q)'
    BY <1>0, <2>1 DEF Off, ServerReads, HandleMessage, HandleVideoOffer, HandleVideoAnswer, HandleIceCandidate,
       HandleSessionNew, HandleSessionJoin, HandleNothing, HandleICEError, ReturnErr, Prepare, PageReads,
       Forward, Connect, Accept, Depart, Close, ServerStep, TaskStep, ListUser, ReplyWithID, Deliver, Leave,
       UnmapPeer, UnlistUser, CollectSessions, CloseSession, End, TypeOK
  <2> QED BY <2>1 DEF CallNext, PageActs, callVars, vars, Off
<1>3. \A b \in Button : clicks'[q][b] >= clicks[q][b] /\ clicks[q][b] \in Nat /\ clicks'[q][b] \in Nat
  <2>1. ASSUME clicks' = clicks
        PROVE  \A b \in Button : clicks'[q][b] >= clicks[q][b] /\ clicks[q][b] \in Nat /\ clicks'[q][b] \in Nat
    BY <1>0, <2>1 DEF ClientTypeOK
  <2>2. ASSUME NEW p \in UserID, PageStep(p)
        PROVE  \A b \in Button : clicks'[q][b] >= clicks[q][b] /\ clicks[q][b] \in Nat /\ clicks'[q][b] \in Nat
    <3>1. CASE p = q
      BY <1>0, <2>2, <3>1, PageAdds DEF Adds, ClientTypeOK
    <3>2. CASE p # q
      <4>1. clicks'[q] = clicks[q]
        BY <1>0, <2>2, <3>2, OtherClicks
      <4>2. \A b \in Button : clicks[q][b] \in Nat
        BY <1>0 DEF ClientTypeOK
      <4> QED BY <4>1, <4>2
    <3> QED BY <3>1, <3>2
  <2> QED BY <2>1, <2>2 DEF CallNext, Connect, OnOpen, Depart, EndSocket, ServerReads, PageReads, OnMessage,
       ServerStep, PageActs, callVars, clientVars
<1> QED BY <1>1, <1>2, <1>3

LEMMA SendsWhenOpen ==
  ASSUME NEW q \in UserID, PageStep(q), socket[q] # "open"
  PROVE  sent' = sent
BY DEF PageStep, ClickStart, ClickConnect, ClickDebug, CameraGranted, CameraRefused, OnCandidate,
   RetryCandidate, OnConnected, RunOperation, CreateOffer, SetLocalOffer, SetRemoteOffer, CreateAnswer,
   SetLocalAnswer, SetRemoteAnswer, AddIceCandidate, Rejected, Send

LEMMA WiredNext ==
  ASSUME CallInv, NEW q \in UserID, Wired(q), [CallNext]_callVars
  PROVE  Wired(q)'
<1>0. TypeOK /\ ClientTypeOK /\ received[q] \in Nat /\ Len(sent[q]) \in Nat
  BY DEF CallInv, RoutingInv, TypeOK, ClientTypeOK
<1>1. ASSUME NEW p \in UserID, PageActs(p) PROVE Wired(q)'
  <2>1. UNCHANGED <<received, pc>> /\ PageStep(p)
    BY <1>1 DEF PageActs, vars
  <2>2. socket' = socket
    BY <2>1 DEF PageStep, ClickStart, ClickConnect, ClickDebug, CameraGranted, CameraRefused, RunOperation,
       OnCandidate, RetryCandidate, OnConnected
  <2>3. CASE p # q
    <3>1. sent'[q] = sent[q]
      BY <1>0, <2>1, <2>3, OtherClicks
    <3> QED BY <2>1, <2>2, <3>1 DEF Wired
  <2>4. CASE p = q
    <3>1. PICK m \in Message : sent' \in {sent, [sent EXCEPT ![q] = Append(@, m)]}
      BY <1>0, <2>1, <2>4, PageAdds DEF Adds
    <3>2. sent'[q] = sent[q] \/ (sent'[q] = Append(sent[q], m) /\ Len(Append(sent[q], m)) = Len(sent[q]) + 1)
      BY <1>0, <3>1, AppendSeq DEF ClientTypeOK
    <3>3. Len(sent'[q]) >= Len(sent[q])
      BY <1>0, <3>2
    <3>4. socket[q] # "open" => sent'[q] = sent[q]
      BY <2>1, <2>4, SendsWhenOpen
    <3>5. Len(sent'[q]) \in Nat
      BY <1>0, <3>2
    <3>6. received[q] <= Len(sent'[q])
      BY <1>0, <3>3, <3>5 DEF Wired
    <3> QED BY <2>1, <2>2, <3>4, <3>6 DEF Wired
  <2> QED BY <2>3, <2>4
<1>2. ASSUME NEW p \in UserID, Connect(p) \/ Depart(p) PROVE Wired(q)'
  <2>1. UNCHANGED <<received, sent>>
    BY <1>2 DEF Connect, Accept, OnOpen, Depart, Close, EndSocket
  <2>2. CASE Connect(p)
    <3>1. p # q => socket'[q] = socket[q] /\ pc'[q] = pc[q]
      BY <1>0, <2>2 DEF Connect, Accept, OnOpen, TypeOK, ClientTypeOK
    <3>2. socket'[p] = "open"
      BY <1>0, <2>2 DEF Connect, OnOpen, ClientTypeOK
    <3> QED BY <2>1, <3>1, <3>2 DEF Wired
  <2>3. CASE Depart(p)
    <3>1. PICK how \in {"closed", "lost"} : EndSocket(p, how)
      BY <2>3, CallAssumption DEF Depart
    <3>2. socket'[q] = "connecting" => socket[q] = "connecting"
      BY <1>0, <3>1 DEF EndSocket, ClientTypeOK
    <3>3. pc' = pc
      BY <2>3 DEF Depart, Close
    <3> QED BY <2>1, <3>2, <3>3 DEF Wired
  <2> QED BY <1>2, <2>2, <2>3
<1>3. ASSUME NEW p \in UserID, ServerReads(p) PROVE Wired(q)'
  <2>1. UNCHANGED <<socket, sent>> /\ pc[p] = "serving" /\ received' = [received EXCEPT ![p] = received[p] + 1]
    BY <1>3 DEF ServerReads, clientVars, HandleMessage, Wire
  <2>2. p # q => pc'[q] = pc[q]
    BY <1>0, <1>3 DEF ServerReads, HandleMessage, HandleVideoOffer, HandleVideoAnswer, HandleIceCandidate,
       HandleSessionNew, HandleSessionJoin, HandleNothing, HandleICEError, ReturnErr, Prepare, TypeOK
  <2>3. received'[q] <= Len(sent[q])
    BY <1>0, <1>3, <2>1 DEF ServerReads, Wired, TypeOK
  <2> QED BY <2>1, <2>2, <2>3 DEF Wired
<1>4. ASSUME NEW p \in UserID, PageReads(p) \/ ServerStep(p) \/ UNCHANGED callVars PROVE Wired(q)'
  <2>1. UNCHANGED <<received, sent, socket>>
    BY <1>4 DEF PageReads, Forward, OnMessage, clientVars, ServerStep, TaskStep, ListUser, ReplyWithID, Deliver,
       Leave, UnmapPeer, UnlistUser, CollectSessions, CloseSession, End, callVars, vars
  <2>2. pc[q] = "new" => pc'[q] = "new"
    BY <1>0, <1>4 DEF PageReads, Forward, ServerStep, TaskStep, ListUser, ReplyWithID, Deliver,
       Leave, UnmapPeer, UnlistUser, CollectSessions, CloseSession, End, callVars, vars, TypeOK
  <2> QED BY <2>1, <2>2 DEF Wired
<1> QED BY <1>1, <1>2, <1>3, <1>4 DEF CallNext

\* The operation x that the message m leads to.
Brought(m, x) ==
  \/ m.kind = "VideoOffer" /\ x.op = "set_remote_offer" /\ x.desc = Text(m)
  \/ m.kind = "VideoAnswer" /\ x.op = "set_remote_answer" /\ x.desc = Text(m)
  \/ m.kind = "IceCandidate" /\ x.op = "add_ice_candidate"

\* What a page has been handed by the server.
LEMMA Handed ==
  ASSUME CallInv, NEW q \in UserID, Handles(q), NEW m, m = Head(out[q])
  PROVE  /\ m \in SignalEnum /\ m \in Range(out[q]) /\ out[q] \in Seq(SignalEnum) /\ out[q] # << >>
         /\ out' = [out EXCEPT ![q] = Tail(out[q])]
         /\ For(q, m, host_of, guests_of)
         /\ m.kind \in Relayed => IsSent(m)
         /\ m.kind \in {"VideoOffer", "VideoAnswer"} => Text(m) = sent[m.by][m.seq].desc /\ Text(m) \in Description
         /\ UNCHANGED <<clicks, sent, rtc, gathering, sleeping, refused, connected, video>>
         /\ UNCHANGED <<socket, pc, envelope, received, host_of, guests_of, session_list>>
         /\ \/ /\ m.kind \in Relayed /\ camera' = camera
               /\ \E x : Queues(q, x) /\ x.session = m.session /\ Brought(m, x)
            \/ /\ m.kind = "SessionJoinSuccess" /\ ops' = ops
               /\ camera' = [camera EXCEPT ![q] = Append(camera[q], [for |-> "offer", session |-> m.session])]
            \/ m.kind \notin Relayed \cup {"SessionJoinSuccess"} /\ UNCHANGED <<camera, ops>>
<1>0. TypeOK /\ Traced /\ QueuesAddressed /\ \A p \in UserID : PageInv(p)
  BY DEF CallInv, RoutingInv
<1>1. out[q] \in Seq(SignalEnum) /\ out[q] # << >>
  BY <1>0 DEF Handles, Forward, TypeOK
<1>2. m \in SignalEnum /\ m \in Range(out[q])
  BY <1>1, TailRange, TailSeq
<1>3. out' = [out EXCEPT ![q] = Tail(out[q])] /\ UNCHANGED <<pc, envelope, received, host_of, guests_of, session_list>>
  BY DEF Handles, Forward, history, tables
<1>4. For(q, m, host_of, guests_of)
  BY <1>0, <1>2 DEF QueuesAddressed, Range
<1>5. m.kind \in Relayed => IsSent(m)
  BY <1>0, <1>2 DEF Traced, InTransit
<1>6. m.kind \in {"VideoOffer", "VideoAnswer"} => Text(m) = sent[m.by][m.seq].desc /\ Text(m) \in Description
  <2> HAVE m.kind \in {"VideoOffer", "VideoAnswer"}
  <2>1. m.kind \in Relayed
    BY DEF Relayed
  <2>2. Text(m) = sent[m.by][m.seq].desc
    BY <2>1 DEF Text
  <2>3. MaySend(m.by, sent[m.by][m.seq]) /\ sent[m.by][m.seq].kind = m.kind
    BY <1>0, <1>5, <2>1 DEF IsSent, PageInv, Range
  <2> QED BY <2>2, <2>3 DEF MaySend
<1>7. OnMessage(q, m, Text(m))
  BY DEF Handles
<1>8. /\ UNCHANGED <<clicks, sent, rtc, gathering, sleeping, refused, connected, video, socket>>
  BY <1>7 DEF OnMessage, screen
<1> DEFINE Op(name, d) == [op |-> name, desc |-> d, session |-> m.session]
<1>9. \A name \in OpNames, d \in Description \cup {None} : Await(q, name, d, m.session) => Queues(q, Op(name, d))
  <2>1. m.session \in SessionID \cup {None} /\ ClientTypeOK
    BY <1>2 DEF SignalEnum, CallInv
  <2> QED BY <2>1 DEF Await, Queues, Operation, ClientTypeOK
<1>10. CASE OnVideoOffer(q, m, Text(m))
  <2>1. m.kind = "VideoOffer" /\ camera' = camera /\ Queues(q, Op("set_remote_offer", Text(m)))
    BY <1>6, <1>9, <1>10 DEF OnVideoOffer, OpNames
  <2>2. Brought(m, Op("set_remote_offer", Text(m))) /\ Op("set_remote_offer", Text(m)).session = m.session
    BY <2>1 DEF Brought
  <2> QED BY <1>1, <1>2, <1>3, <1>4, <1>5, <1>6, <1>8, <2>1, <2>2 DEF Relayed
<1>11. CASE OnVideoAnswer(q, m, Text(m))
  <2>1. m.kind = "VideoAnswer" /\ camera' = camera /\ Queues(q, Op("set_remote_answer", Text(m)))
    BY <1>6, <1>9, <1>11 DEF OnVideoAnswer, OpNames
  <2>2. Brought(m, Op("set_remote_answer", Text(m))) /\ Op("set_remote_answer", Text(m)).session = m.session
    BY <2>1 DEF Brought
  <2> QED BY <1>1, <1>2, <1>3, <1>4, <1>5, <1>6, <1>8, <2>1, <2>2 DEF Relayed
<1>12. CASE OnIceCandidate(q, m)
  <2>1. m.kind = "IceCandidate" /\ camera' = camera /\ Queues(q, Op("add_ice_candidate", None))
    BY <1>9, <1>12 DEF OnIceCandidate, OpNames
  <2>2. Brought(m, Op("add_ice_candidate", None)) /\ Op("add_ice_candidate", None).session = m.session
    BY <2>1 DEF Brought
  <2> QED BY <1>1, <1>2, <1>3, <1>4, <1>5, <1>6, <1>8, <2>1, <2>2 DEF Relayed
<1>13. CASE OnSessionReady(q, m) \/ OnSessionJoinSuccess(q, m) \/ OnNewUser(q, m) \/ OnOther(q, m)
  BY <1>1, <1>2, <1>3, <1>4, <1>5, <1>6, <1>8, <1>13 DEF OnSessionReady, OnSessionJoinSuccess, OnNewUser, OnOther, Relayed
<1> QED BY <1>7, <1>10, <1>11, <1>12, <1>13 DEF OnMessage

\* The operations that a step adds to the queue of q, and those it takes.
LEMMA OpsAfter ==
  ASSUME ClientTypeOK, NEW q \in UserID, PageInv(q), RunOperation(q), NEW o, o \in Range(ops'[q])
  PROVE  o \in Range(ops[q]) \/ (o.op \in {"set_local_offer", "create_answer", "set_local_answer"})
<1>1. ops[q] # << >> /\ ops[q] \in Seq(Operation) /\ Effect(q)
  BY OperationEffect
<1>2. Tail(ops[q]) \in Seq(Operation) /\ Range(Tail(ops[q])) \subseteq Range(ops[q])
  BY <1>1, TailRange
<1>3. ASSUME NEW x, Goes(q, x) PROVE Range(ops'[q]) = Range(Tail(ops[q])) \cup {x}
  <2>1. x \in Operation /\ ops'[q] = Append(Tail(ops[q]), x)
    BY <1>3 DEF Goes
  <2>2. PICK t \in Seq(Operation) : t = Tail(ops[q])
    BY <1>2
  <2>3. Range(Append(t, x)) = Range(t) \cup {x}
    BY <2>1, AppendRange
  <2> QED BY <2>1, <2>2, <2>3
<1> QED BY <1>1, <1>2, <1>3, ZenonT(60) DEF Effect, Drops

\* The stream is added, and shown; an offer is begun if it waited for that.
LEMMA CameraEffect ==
  ASSUME ClientTypeOK, NEW q \in UserID, CameraGranted(q)
  PROVE  /\ UNCHANGED <<socket, session_id, clicks, sent, gathering, sleeping, refused, connected>>
         /\ rtc'[q].streams = rtc[q].streams + 1 /\ Keeps(q)
         /\ camera[q] \in Seq(Waiting)
         /\ \E i \in DOMAIN camera[q] :
              /\ camera'[q] = RemoveAt(camera[q], i)
              /\ \/ ops'[q] = ops[q] /\ camera[q][i].for = "start"
                 \/ /\ camera[q][i].for = "offer"
                    /\ \E x : Queues(q, x) /\ x.op = "create_offer" /\ x.session = camera[q][i].session
              /\ video'[q] = [video[q] EXCEPT ![OwnPane(camera[q][i].for)] = "own"]
<1>1. PICK i \in DOMAIN camera[q] :
        /\ camera' = [camera EXCEPT ![q] = RemoveAt(@, i)]
        /\ IF camera[q][i].for = "offer"
           THEN Await(q, "create_offer", None, camera[q][i].session)
           ELSE UNCHANGED ops
        /\ video' = [video EXCEPT ![q][OwnPane(camera[q][i].for)] = "own"]
  BY DEF CameraGranted, AfterVideo
<1>2. camera[q] \in Seq(Waiting) /\ camera[q][i] \in Waiting
  BY CameraType, <1>1 DEF ClientTypeOK
<1>3. /\ UNCHANGED <<socket, session_id, clicks, sent, gathering, sleeping, refused, connected>>
      /\ rtc'[q].streams = rtc[q].streams + 1 /\ Keeps(q)
  <2>1. rtc[q] \in PeerConnection /\ rtc' = [rtc EXCEPT ![q] = [rtc[q] EXCEPT !.streams = @ + 1]]
    BY DEF CameraGranted, ClientTypeOK
  <2>2. rtc'[q] = [rtc[q] EXCEPT !.streams = @ + 1]
    BY <2>1 DEF ClientTypeOK
  <2> QED BY <2>1, <2>2 DEF CameraGranted, Keeps, PeerConnection
<1>4. camera'[q] = RemoveAt(camera[q], i) /\ video'[q] = [video[q] EXCEPT ![OwnPane(camera[q][i].for)] = "own"]
  <2>1. camera'[q] = RemoveAt(camera[q], i)
    BY <1>1 DEF ClientTypeOK
  <2>2. PICK e : e = OwnPane(camera[q][i].for)
    OBVIOUS
  <2>3. video' = [video EXCEPT ![q] = [video[q] EXCEPT ![e] = "own"]]
    BY <1>1, <2>2
  <2> QED BY <2>1, <2>2, <2>3 DEF ClientTypeOK
<1>5. CASE camera[q][i].for = "offer"
  <2> DEFINE x == [op |-> "create_offer", desc |-> None, session |-> camera[q][i].session]
  <2>1. Queues(q, x) /\ x.op = "create_offer" /\ x.session = camera[q][i].session
    BY <1>1, <1>2, <1>5 DEF Await, Queues, ClientTypeOK, Operation, OpNames, Waiting
  <2> QED BY <1>2, <1>3, <1>4, <1>5, <2>1
<1>6. CASE camera[q][i].for # "offer"
  BY <1>1, <1>2, <1>3, <1>4, <1>6 DEF Waiting
<1> QED BY <1>5, <1>6

LEMMA ToldNext ==
  ASSUME WellBehaved, CallInv, NEW q \in UserID, Told(q), [CallNext]_callVars
  PROVE  Told(q)'
<1>0. TypeOK /\ ClientTypeOK /\ (\A p \in UserID : PageInv(p)) /\ HistoryGrows
  BY HistoryNext, CallInvNext DEF CallInv, RoutingInv, WellBehaved
<1>1. \A s : (Hosting(q, s) => Hosting(q, s)') /\ (Joined(q, s) => Joined(q, s)')
  BY <1>0, PagesStable
<1>2. Member(q) => Member(q)'
  BY <1>1 DEF Member
<1> DEFINE Part(o) == /\ o.op = "set_remote_answer" => Joined(q, o.session) /\ o.desc \in Description
                      /\ o.op = "add_ice_candidate" => Hosting(q, o.session) \/ Joined(q, o.session)
<1>3. \A o : Part(o) => Part(o)'
  BY <1>1
<1>4. ASSUME UNCHANGED <<ops[q], rtc[q], refused[q], connected[q]>> PROVE Told(q)'
  BY <1>2, <1>3, <1>4 DEF Told
<1>5. ASSUME NEW p \in UserID, PageStep(p) PROVE Told(q)'
  <2>1. CASE p # q
    BY <1>0, <1>4, <1>5, <2>1, PageFrame
  <2>2. CASE p = q /\ RunOperation(q)
    <3>1. ops[q] # << >> /\ Head(ops[q]) \in Range(ops[q]) /\ connected' = connected /\ Effect(q)
      BY <1>0, <2>2, OperationEffect
    <3>2. \A o \in Range(ops'[q]) : Part(o)'
      BY <1>0, <1>3, <2>2, OpsAfter DEF Told
    <3> DEFINE o == Head(ops[q])
    <3>3. /\ o.op = "set_remote_answer" => Member(q) /\ o.desc \in Description
          /\ o.op = "set_remote_offer" => Member(q) /\ o.desc \in Description
          /\ o.op = "add_ice_candidate" => Member(q)
      BY <1>0, <3>1 DEF Told, PageInv, MayRun, Member, Hosting, Joined
    <3>4. rtc'[q].remote = rtc[q].remote \/ (o.op \in {"set_remote_offer", "set_remote_answer"} /\ rtc'[q].remote = o.desc)
      BY <3>1, ZenonT(60) DEF Effect, Keeps
    <3>5. refused'[q] = refused[q] \/ o.op = "add_ice_candidate"
      BY <3>1, ZenonT(60) DEF Effect, Quiet
    <3> HIDE DEF o
    <3>6. rtc'[q].remote # None \/ refused'[q] > 0 => Member(q)'
      BY <1>2, <3>3, <3>4, <3>5 DEF Told
    <3>7. rtc[q].remote # None => rtc'[q].remote # None
      BY <3>3, <3>4, NoneIsNoDescription
    <3> QED BY <3>1, <3>2, <3>6, <3>7 DEF Told
  <2>3. CASE p = q /\ CameraGranted(q)
    <3>1. ops'[q] = ops[q] \/ \E x : Queues(q, x) /\ x.op = "create_offer"
      BY <1>0, <2>3, CameraEffect
    <3>2. \A o \in Range(ops'[q]) : o \in Range(ops[q]) \/ o.op = "create_offer"
      <4>1. ASSUME NEW x, Queues(q, x) PROVE Range(ops'[q]) = Range(ops[q]) \cup {x}
        BY <1>0, <4>1, AppendRange DEF ClientTypeOK, Queues
      <4> QED BY <3>1, <4>1
    <3>3. \A o \in Range(ops'[q]) : Part(o)'
      BY <1>3, <3>2 DEF Told
    <3>4. UNCHANGED <<refused, connected>> /\ rtc'[q].remote = rtc[q].remote
      BY <1>0, <2>3, CameraEffect DEF Keeps
    <3> QED BY <1>2, <3>3, <3>4 DEF Told
  <2>4. CASE p = q /\ OnConnected(q)
    <3>1. UNCHANGED <<ops, rtc, refused>> /\ rtc[q].remote # None
      BY <2>4 DEF OnConnected
    <3> QED BY <1>2, <1>3, <3>1 DEF Told
  <2>5. CASE p = q /\ ~RunOperation(q) /\ ~CameraGranted(q) /\ ~OnConnected(q)
    <3>1. UNCHANGED <<ops, rtc, refused, connected>>
      BY <1>5, <2>5 DEF PageStep, ClickStart, ClickConnect, ClickDebug, CameraRefused, OnCandidate, RetryCandidate, screen
    <3> QED BY <1>4, <3>1
  <2> QED BY <2>1, <2>2, <2>3, <2>4, <2>5
<1>6. ASSUME NEW p \in UserID, Handles(p) PROVE Told(q)'
  <2>1. CASE p # q
    BY <1>0, <1>4, <1>6, <2>1, PageFrame DEF Handles
  <2>2. CASE p = q
    <3> DEFINE m == Head(out[q])
    <3>1. /\ m \in SignalEnum /\ For(q, m, host_of, guests_of)
          /\ m.kind \in {"VideoOffer", "VideoAnswer"} => Text(m) \in Description
          /\ UNCHANGED <<rtc, refused, connected>>
      BY <1>6, <2>2, Handed
    <3>2. ops'[q] = ops[q] \/ \E x : Queues(q, x) /\ x.session = m.session /\ Brought(m, x)
      BY <1>6, <2>2, Handed
    <3>3. ASSUME NEW x, x.session = m.session, Brought(m, x) PROVE Part(x)
      BY <3>1, <3>3 DEF Brought, For, Concerns, SessionKinds, Relayed, Hosting, Joined
    <3>4. \A o \in Range(ops'[q]) : Part(o)
      <4>1. ASSUME NEW x, Queues(q, x) PROVE Range(ops'[q]) = Range(ops[q]) \cup {x}
        BY <1>0, <4>1, AppendRange DEF ClientTypeOK, Queues
      <4> QED BY <3>2, <3>3, <4>1 DEF Told
    <3> QED BY <1>2, <1>3, <3>1, <3>4 DEF Told
  <2> QED BY <2>1, <2>2
<1>7. CASE UNCHANGED <<ops, rtc, refused, connected>>
  BY <1>4, <1>7
<1>8. Calm \/ UNCHANGED clientVars => UNCHANGED <<ops, rtc, refused, connected>>
  BY DEF Calm, clientVars, screen
<1>9. \A p \in UserID : ServerReads(p) => UNCHANGED clientVars
  BY DEF ServerReads
<1> QED BY <1>5, <1>6, <1>7, <1>8, <1>9, Steps

\* A connection that sets a description of its own is a member's.
LEMMA NotConnecting ==
  ASSUME CallInv, ClickInv, NEW q \in UserID, Wired(q), NEW s, Hosting(q, s) \/ Joined(q, s)
  PROVE  socket[q] # "connecting"
<1>1. s \in SessionID
  BY DEF Hosting, Joined
<1>2. DOMAIN sent[q] # {}
  BY <1>1 DEF ClickInv, Hosted, Seated
<1> QED BY <1>2 DEF Wired

LEMMA SearchingNext ==
  ASSUME CallInv, ClickInv, NEW q \in UserID, Wired(q), Searching(q), [CallNext]_callVars
  PROVE  Searching(q)'
<1>0. TypeOK /\ ClientTypeOK /\ (\A p \in UserID : PageInv(p)) /\ (Deaf(q) => Deaf(q)')
  BY Onward DEF CallInv, RoutingInv
<1>1. /\ sent[q] \in Seq(Message) /\ Len(sent[q]) \in Nat /\ gathering[q] \in Nat /\ sleeping[q] \in Nat
      /\ socket[q] \in {"connecting", "open", "lost", "closed"}
  BY <1>0 DEF ClientTypeOK
<1>2. ASSUME UNCHANGED <<sent[q], gathering[q], sleeping[q]>> PROVE Searching(q)'
  BY <1>0, <1>2 DEF Searching, Described, Asks
<1>3. ASSUME NEW p \in UserID, PageStep(p) PROVE Searching(q)'
  <2>1. CASE p # q
    BY <1>0, <1>2, <1>3, <2>1, PageFrame
  <2>2. CASE p = q
    <3>1. PICK m : Adds(q, m)
      BY <1>0, <1>3, <2>2, PageAdds
    <3>2. /\ \A i \in DOMAIN sent[q] : i \in DOMAIN sent'[q] /\ sent'[q][i] = sent[q][i]
          /\ \A i \in DOMAIN sent'[q] :
               \/ i \in DOMAIN sent[q] /\ sent'[q][i] = sent[q][i]
               \/ i \notin DOMAIN sent[q] /\ i = Len(sent[q]) + 1 /\ sent'[q][i] = m
      BY <1>0, <3>1, Grown
    <3>3. \A i : Described(q, i) => Described(q, i)'
      BY <3>2 DEF Described
    <3>4. sent'[q] \in Seq(Message) /\ Len(sent'[q]) \in Nat /\ Len(sent'[q]) >= Len(sent[q])
      <4>1. sent'[q] = sent[q] \/ (sent'[q] = Append(sent[q], m) /\ m \in Message)
        BY <1>0, <3>1 DEF Adds, ClientTypeOK
      <4> QED BY <1>1, <4>1, AppendSeq
    <3>5. Described(q, Len(sent[q]) + 1) => Described(q, Len(sent[q]) + 1)'
      <4>1. \A j \in DOMAIN sent[q] : j \in Nat
        BY <1>1
      <4> QED BY <1>1, <3>2, <3>4, <4>1 DEF Described
    \* What is newly sent about a candidate.
    <3>6. ASSUME NEW i \in DOMAIN sent'[q], sent'[q][i].kind = "IceCandidate" PROVE Described(q, i)'
      <4>1. CASE i \in DOMAIN sent[q]
        BY <3>2, <3>3, <3>6, <4>1 DEF Searching, Asks
      <4>2. CASE i \notin DOMAIN sent[q]
        <5>1. i = Len(sent[q]) + 1 /\ m.kind = "IceCandidate" /\ sent' # sent /\ socket[q] = "open"
          BY <1>3, <2>2, <3>2, <3>6, <4>2, SendsWhenOpen
        <5>2. gathering[q] > 0 \/ sleeping[q] > 0
          <6>1. \A x : Says(q, x) => x = m
            BY <1>1, <3>2, <4>2, <5>1, AppendSeq DEF Says
          <6>2. CASE RunOperation(q)
            <7>1. Effect(q)
              BY <1>0, <6>2, OperationEffect
            <7>2. sent' = sent \/ \E x : Says(q, x) /\ x.kind # "IceCandidate"
              BY <7>1, ZenonT(60) DEF Effect, Quiet
            <7> QED BY <5>1, <6>1, <7>2
          <6>3. CASE Found(q)
            BY <6>3 DEF Found
          <6>4. CASE ~RunOperation(q) /\ ~Found(q)
            BY <1>0, <1>3, <2>2, <5>1, <6>1, <6>4, PageCases DEF Requested, CameraGranted, Turned, Shows
          <6> QED BY <6>2, <6>3, <6>4
        <5>3. i = Len(sent[q]) + 1 /\ Described(q, Len(sent[q]) + 1)
          BY <5>1, <5>2 DEF Searching, Deaf
        <5> QED BY <3>3, <5>3
      <4> QED BY <4>1, <4>2
    <3>7. gathering'[q] > 0 \/ sleeping'[q] > 0 => Deaf(q)' \/ Described(q, Len(sent[q]) + 1)'
      <4>1. CASE gathering[q] > 0 \/ sleeping[q] > 0
        BY <1>0, <3>5, <4>1 DEF Searching
      <4>2. CASE RunOperation(q) /\ sleeping[q] = 0
        <5>1. sleeping' = sleeping /\ Effect(q) /\ Head(ops[q]) \in Range(ops[q]) /\ socket' = socket
          BY <1>0, <4>2, OperationEffect
        <5>2. gathering' = gathering \/ \E x : Says(q, x) /\ x.kind \in {"VideoOffer", "VideoAnswer"} /\ MayRun(q, Head(ops[q]), rtc[q].streams)
                /\ Head(ops[q]).op \in {"set_local_offer", "set_local_answer"}
          BY <1>0, <5>1, ZenonT(60) DEF Effect, Quiet, PageInv
        <5>3. ASSUME NEW x, Says(q, x), x.kind \in {"VideoOffer", "VideoAnswer"}, socket[q] = "open"
              PROVE  Described(q, Len(sent[q]) + 1)'
          <6>1. sent'[q] = Append(sent[q], x) /\ x \in Message
            BY <5>3 DEF Says
          <6>2. Len(sent[q]) + 1 \in DOMAIN sent'[q] /\ sent'[q][Len(sent[q]) + 1] = x /\ Len(sent'[q]) = Len(sent[q]) + 1
            BY <1>1, <6>1, AppendSeq
          <6> QED BY <1>1, <5>3, <6>2 DEF Described
        <5>4. ASSUME MayRun(q, Head(ops[q]), rtc[q].streams), Head(ops[q]).op \in {"set_local_offer", "set_local_answer"}
              PROVE  socket[q] # "connecting"
          BY <5>4, NotConnecting DEF MayRun
        <5>5. socket[q] \in {"lost", "closed"} => Deaf(q)'
          BY <1>0 DEF Deaf
        <5>6. CASE gathering' = gathering
          BY <1>1, <4>1, <4>2, <5>1, <5>6
        <5>7. CASE gathering' # gathering
          <6>1. PICK x : Says(q, x) /\ x.kind \in {"VideoOffer", "VideoAnswer"}
            BY <5>2, <5>7
          <6>2. socket[q] # "connecting"
            BY <5>2, <5>4, <5>7
          <6> QED BY <1>1, <5>3, <5>5, <6>1, <6>2
        <5> QED BY <5>6, <5>7
      <4>3. CASE ~RunOperation(q)
        <5>1. Found(q) \/ UNCHANGED <<gathering, sleeping>>
          BY <1>0, <1>3, <2>2, <4>3, PageCases DEF Requested, CameraGranted, Turned, Shows
        <5> QED BY <4>1, <5>1 DEF Found
      <4> QED BY <1>1, <4>1, <4>2, <4>3
    <3> QED BY <3>6, <3>7 DEF Searching, Asks
  <2> QED BY <2>1, <2>2
<1>4. ASSUME NEW p \in UserID, Handles(p) PROVE Searching(q)'
  BY <1>2, <1>4, Handed
<1>5. CASE UNCHANGED <<sent, gathering, sleeping>>
  BY <1>2, <1>5
<1>6. Calm \/ UNCHANGED clientVars => UNCHANGED <<sent, gathering, sleeping>>
  BY DEF Calm, clientVars
<1>7. \A p \in UserID : ServerReads(p) => UNCHANGED clientVars
  BY DEF ServerReads
<1> QED BY <1>3, <1>4, <1>5, <1>6, <1>7, Steps

-------------------------------------------------------------------------------
(* What the invariants rest on. *)

Basis ==
  /\ CallInv /\ ClickInv /\ OrderInv /\ DoomedOwned /\ EnvelopeShaped /\ SessionsStand
  /\ \A q \in UserID : PageFacts(q)

LEMMA BasisInit == CallInit => Basis
<1> SUFFICES ASSUME CallInit PROVE Basis
  OBVIOUS
<1>1. CallInv /\ ClickInv
  BY CallInvInit, ClickInvInit
<1>2. OrderInv
  BY TypeInit DEF CallInit, Init, OrderInv, Counted, Undelivered, QueuedEarlier, Ordered
<1>3. DoomedOwned /\ EnvelopeShaped /\ SessionsStand
  BY DEF CallInit, Init, DoomedOwned, EnvelopeShaped, SessionsStand
<1>4. ASSUME NEW q \in UserID PROVE PageFacts(q)
  BY <1>4 DEF CallInit, Init, ClientInit, PageFacts, Wired, Told, Searching, Asks, Range
<1> QED BY <1>1, <1>2, <1>3, <1>4 DEF Basis

LEMMA BasisNext ==
  ASSUME WellBehaved, Basis, [CallNext]_callVars
  PROVE  Basis' /\ HistoryGrows /\ [Next]_vars
<1>1. CallInv' /\ [Next]_vars /\ TypeOK /\ SessionsRecorded
  BY CallInvNext DEF Basis, CallInv, RoutingInv
<1>2. ClickInv'
  BY ClickInvNext DEF Basis
<1>3. OrderInv'
  BY <1>1, TypeNext, CountedNext, QueuesNext DEF Basis, OrderInv
<1>4. DoomedOwned' /\ EnvelopeShaped' /\ SessionsStand' /\ HistoryGrows
  BY <1>1, DoomedOwnedNext, EnvelopeShapedNext, SessionsStandNext, HistoryNext DEF Basis, WellBehaved
<1>5. ASSUME NEW q \in UserID PROVE PageFacts(q)'
  BY <1>5, WiredNext, ToldNext, SearchingNext DEF Basis, PageFacts
<1> QED BY <1>1, <1>2, <1>3, <1>4, <1>5 DEF Basis

\* A queue is taken from, added to, or dropped; nothing is composed.
LEMMA QueueEffect ==
  ASSUME CallInv, NEW q \in UserID, NEW d \in UserID,
         (Forward(q) /\ socket[q] # "open") \/ Deliver(q) \/ ReplyWithID(q) \/ End(q)
  PROVE  /\ UNCHANGED <<received, host_of, guests_of>>
         /\ \A u \in UserID :
              /\ pc'[u] = "sending" => pc[u] = "sending" /\ envelope'[u] = envelope[u]
              /\ pc[u] = "sending" /\ pc'[u] # "sending" => u = q /\ Deliver(q)
         /\ out[d] \in Seq(SignalEnum)
         /\ \/ out'[d] = out[d]
            \/ out[d] # << >> /\ out'[d] = Tail(out[d]) /\ socket[d] # "open"
            \/ NewUser(d) \in SignalEnum /\ out'[d] = Append(out[d], NewUser(d))
            \/ out'[d] = << >> /\ pc'[d] = "ended"
            \/ /\ Deliver(q) /\ d = Addressee(q) /\ ~Off(d) /\ envelope[q].msg \in SignalEnum
               /\ out'[d] = Append(out[d], envelope[q].msg)
<1>0. TypeOK /\ out[d] \in Seq(SignalEnum)
  BY DEF CallInv, RoutingInv, TypeOK
<1>1. CASE Forward(q) /\ socket[q] # "open"
  BY <1>0, <1>1 DEF Forward, history, TypeOK
<1>2. CASE ReplyWithID(q)
  <2>1. NewUser(d) \in SignalEnum
    BY ReplyTypes
  <2>2. UNCHANGED <<received, host_of, guests_of, envelope>> /\ pc[q] = "listed" /\ pc' = [pc EXCEPT ![q] = "serving"]
    BY <1>2 DEF ReplyWithID, history
  <2>3. out'[d] = IF d = q THEN Append(out[d], NewUser(d)) ELSE out[d]
    BY <1>0, <1>2 DEF ReplyWithID, TypeOK
  <2> QED BY <1>0, <2>1, <2>2, <2>3 DEF TypeOK
<1>3. CASE End(q)
  BY <1>0, <1>3 DEF End, history, TypeOK
<1>4. CASE Deliver(q)
  <2> DEFINE e == Addressee(q)
             m == envelope[q].msg
  <2>1. /\ pc[q] = "sending" /\ pc'[q] = "serving"
        /\ \A u \in UserID : u # q => pc'[u] = pc[u] /\ envelope'[u] = envelope[u]
        /\ UNCHANGED <<received, host_of, guests_of>>
        /\ m \in SignalEnum /\ e \in UserID
        /\ \/ out' = [out EXCEPT ![e] = Append(out[e], m)] /\ ~Off(e)
           \/ out' = out /\ Off(e)
    BY <1>4, DeliverEffect
  <2> HIDE DEF e, m
  <2>2. out'[d] = out[d] \/ (d = e /\ ~Off(d) /\ out'[d] = Append(out[d], m))
    BY <1>0, <2>1 DEF TypeOK
  <2> QED BY <1>0, <1>4, <2>1, <2>2 DEF e, m
<1> QED BY <1>1, <1>2, <1>3, <1>4

LEMMA EnvelopeIsShaped ==
  ASSUME Basis, NEW c \in UserID, Deliver(c)
  PROVE  pc[c] = "sending" /\ Shaped(c, envelope[c].msg, Addressee(c))
BY DEF Basis, EnvelopeShaped, Deliver

-------------------------------------------------------------------------------
(* The initiator. *)

LEMMA InitiatorBefore ==
  ASSUME CallInv, NEW p \in UserID, [CallNext]_callVars
  PROVE  (Initiator(p)' => Initiator(p)) /\ (Listener(p)' => Listener(p))
BY Onward DEF Initiator, Listener, Button

\* An initiator answers nobody.
LEMMA InitiatorOffers ==
  ASSUME Basis, NEW p \in UserID, Initiator(p), NEW o \in Range(ops[p])
  PROVE  o.op \notin Answering
<1>1. MayRun(p, o, rtc[p].streams)
  BY DEF Basis, CallInv, PageInv
<1>2. \A s \in SessionID : ~Hosting(p, s)
  BY NoPart DEF Basis, Initiator
<1> QED BY <1>1, <1>2 DEF MayRun, Answering, Hosting

\* A listener offers nothing and is given no answer.
LEMMA ListenerAnswers ==
  ASSUME Basis, NEW h \in UserID, Listener(h), NEW o \in Range(ops[h])
  PROVE  o.op \notin Offering /\ o.op # "set_remote_answer"
<1>1. MayRun(h, o, rtc[h].streams) /\ Told(h)
  BY DEF Basis, CallInv, PageInv, PageFacts
<1>2. \A s \in SessionID : ~Joined(h, s)
  BY NoPart DEF Basis, Listener
<1> QED BY <1>1, <1>2 DEF MayRun, Told, Offering, Joined

\* What has been read stays read; a page that says more has not been read more.
LEMMA AskedStays ==
  ASSUME Basis, NEW p \in UserID, PageStep(p), received' = received
  PROVE  Asked(p)' <=> Asked(p)
<1>1. ClientTypeOK /\ Wired(p) /\ received[p] \in Nat /\ Len(sent[p]) \in Nat
  BY DEF Basis, CallInv, RoutingInv, TypeOK, ClientTypeOK, PageFacts
<1>2. PICK m : Adds(p, m)
  BY <1>1, PageAdds
<1>3. /\ \A i \in DOMAIN sent[p] : i \in DOMAIN sent'[p] /\ sent'[p][i] = sent[p][i]
      /\ \A i \in DOMAIN sent'[p] :
           \/ i \in DOMAIN sent[p] /\ sent'[p][i] = sent[p][i]
           \/ i \notin DOMAIN sent[p] /\ i = Len(sent[p]) + 1 /\ sent'[p][i] = m
  BY <1>1, <1>2, Grown
<1>4. ~(Len(sent[p]) + 1 <= received[p])
  BY <1>1 DEF Wired
<1> QED BY <1>3, <1>4 DEF Asked, Asks

\* While nothing is to be begun, an operation carried out begins nothing.
LEMMA UnbegunRuns ==
  ASSUME Basis, NEW p \in UserID, Initiator(p), Unbegun(p), RunOperation(p)
  PROVE  Unbegun(p)'
<1>0. ClientTypeOK /\ PageInv(p)
  BY DEF Basis, CallInv
<1>1. /\ ops[p] # << >> /\ Head(ops[p]) \in Range(ops[p]) /\ Effect(p)
      /\ rtc'[p].streams = rtc[p].streams
  BY <1>0, OperationEffect
<1>2. Head(ops[p]).op \notin Offering \cup Answering
  BY <1>1, InitiatorOffers DEF Unbegun, Idle
<1>3. ASSUME NEW o \in Range(ops'[p]) PROVE o.op \notin Offering
  <2>1. Drops(p)
    BY <1>1, <1>2, ZenonT(60) DEF Effect, Offering, Answering
  <2>2. Range(ops'[p]) \subseteq Range(ops[p])
    BY <1>0, <1>1, <2>1, TailRange DEF Drops, ClientTypeOK
  <2> QED BY <2>2 DEF Unbegun, Idle
<1>4. rtc'[p].local = rtc[p].local
  BY <1>1, <1>2, ZenonT(60) DEF Effect, Keeps, Offering, Answering
<1> QED BY <1>1, <1>3, <1>4 DEF Unbegun, Idle

LEMMA TokenNext ==
  ASSUME WellBehaved, Basis, NEW p \in UserID, Initiator(p)', TokenInv(p), [CallNext]_callVars
  PROVE  TokenInv(p)'
<1>0. /\ CallInv /\ ClickInv /\ TypeOK /\ ClientTypeOK /\ Initiator(p) /\ out[p] \in Seq(SignalEnum)
      /\ camera[p] \in Seq(Waiting)
  BY InitiatorBefore DEF Basis, CallInv, RoutingInv, TypeOK, ClientTypeOK
<1>1. ASSUME Asked(p)' <=> Asked(p), Accepting(p)' => Accepting(p), Accepted(p)' => Accepted(p),
             Once(out'[p], "SessionJoinSuccess"),
             Early(p)' /\ Unbegun(p) /\ camera[p] = << >> => Unbegun(p)' /\ camera'[p] = << >>
      PROVE  TokenInv(p)'
  BY <1>1 DEF TokenInv, Early
<1>2. ASSUME UNCHANGED <<ops[p], rtc[p]>> PROVE Unbegun(p)' <=> Unbegun(p)
  BY <1>2 DEF Unbegun, Idle
<1>3. CASE Calm
  <2>1. (Asked(p)' <=> Asked(p)) /\ (Accepting(p)' <=> Accepting(p)) /\ (Accepted(p)' <=> Accepted(p))
    BY <1>3 DEF Calm, Asked, Asks, Accepting, Accepted
  <2>2. UNCHANGED <<ops[p], rtc[p], camera[p], out[p]>>
    BY <1>3 DEF Calm
  <2>3. Once(out'[p], "SessionJoinSuccess")
    BY <2>2 DEF TokenInv
  <2> QED BY <1>1, <1>2, <2>1, <2>2, <2>3
<1>4. ASSUME NEW q \in UserID, PageStep(q), UNCHANGED vars PROVE TokenInv(p)'
  <2>1. (Accepting(p)' <=> Accepting(p)) /\ (Accepted(p)' <=> Accepted(p)) /\ out' = out /\ received' = received
    BY <1>4 DEF vars, Accepting, Accepted
  <2>2. Once(out'[p], "SessionJoinSuccess")
    BY <2>1 DEF TokenInv
  <2>3. Asked(p)' <=> Asked(p)
    <3>1. CASE q = p
      BY <1>4, <2>1, <3>1, AskedStays
    <3>2. CASE q # p
      <4>1. sent'[p] = sent[p]
        BY <1>0, <1>4, <3>2, PageFrame
      <4> QED BY <2>1, <4>1 DEF Asked, Asks
    <3> QED BY <3>1, <3>2
  <2>4. ASSUME Unbegun(p), camera[p] = << >> PROVE Unbegun(p)' /\ camera'[p] = << >>
    <3>1. CASE q # p
      BY <1>0, <1>2, <1>4, <2>4, <3>1, PageFrame
    <3>2. CASE q = p
      <4>1. DOMAIN camera[p] = {}
        BY <2>4
      <4>2. CASE RunOperation(p)
        BY <1>0, <2>4, <4>2, UnbegunRuns DEF RunOperation
      <4>3. CASE Requested(p)
        <5>1. clicks'[p]["start"] = 0
          BY DEF Initiator
        <5> QED BY <1>2, <2>4, <4>3, <5>1 DEF Requested
      <4>4. CASE Found(p) \/ Shows(p)
        BY <1>2, <2>4, <4>4 DEF Found, Shows
      <4> QED BY <1>0, <1>4, <3>2, <4>1, <4>2, <4>3, <4>4, PageCases DEF CameraGranted, Turned
    <3> QED BY <3>1, <3>2
  <2> QED BY <1>1, <2>1, <2>2, <2>3, <2>4
<1>5. ASSUME NEW c \in UserID, ServerReads(c) PROVE TokenInv(p)'
  <2> DEFINE n == received[c] + 1
             m == sent[c][n]
  <2>1. /\ pc[c] = "serving" /\ out' = out /\ UNCHANGED clientVars
        /\ \A u \in UserID : u # c => pc'[u] = pc[u] /\ envelope'[u] = envelope[u] /\ received'[u] = received[u]
        /\ n \in DOMAIN sent[c] /\ received'[c] = n /\ received[c] \in Nat
        /\ pc'[c] = "sending" =>
             \/ m.kind \in Relayed /\ envelope'[c].msg = Wire(c, n)
             \/ m.kind = "SessionNew" /\ envelope'[c].msg.kind = "SessionReady"
             \/ m.kind = "SessionJoin" /\ envelope'[c].msg.kind \in {"SessionJoinSuccess", "SessionJoinError"}
    BY <1>0, <1>5, ReadComposes
  <2>2. UNCHANGED <<ops[p], rtc[p], camera[p], sent[p], out[p]>>
    BY <2>1 DEF clientVars
  <2>3. Accepted(p)' <=> Accepted(p)
    BY <2>1 DEF Accepted
  <2>4. Once(out'[p], "SessionJoinSuccess")
    BY <2>2 DEF TokenInv
  <2>5. CASE c # p
    <3>1. (Asked(p)' <=> Asked(p)) /\ (Accepting(p)' <=> Accepting(p))
      BY <2>1, <2>2, <2>5 DEF Asked, Asks, Accepting
    <3> QED BY <1>1, <1>2, <2>2, <2>3, <2>4, <3>1
  <2>6. CASE c = p /\ m.kind # "SessionJoin"
    <3>1. ~Accepting(p)'
      BY <2>1, <2>6 DEF Accepting, Wire, Relayed
    <3>2. Asked(p)' <=> Asked(p)
      <4>1. \A i \in DOMAIN sent[p] : i \in Nat
        BY <1>0 DEF ClientTypeOK
      <4>2. \A i \in DOMAIN sent[p] : i <= n => i <= received[p] \/ i = n
        BY <2>1, <2>6, <4>1
      <4>3. \A i \in DOMAIN sent[p] : i <= received[p] => i <= n
        BY <2>1, <2>6, <4>1
      <4> QED BY <2>1, <2>2, <2>6, <4>2, <4>3 DEF Asked, Asks
    <3> QED BY <1>1, <1>2, <2>2, <2>3, <2>4, <3>1, <3>2
  <2>7. CASE c = p /\ m.kind = "SessionJoin"
    <3>1. ~Asked(p)
      <4> SUFFICES ASSUME NEW i \in DOMAIN sent[p], i <= received[p], Asks(p, i, "SessionJoin") PROVE FALSE
        BY DEF Asked
      <4>1. i # n /\ Asks(p, n, "SessionJoin") /\ n \in DOMAIN sent[p]
        BY <2>1, <2>7 DEF Asks
      <4>2. clicks[p]["connect"] > 1
        BY <1>0, <4>1 DEF ClickInv, Clicked
      <4>3. clicks[p]["connect"] <= 1 /\ clicks[p]["connect"] \in Nat
        BY <1>0 DEF Initiator, ClientTypeOK, Button
      <4> QED BY <4>2, <4>3
    <3>2. Asked(p)'
      BY <2>1, <2>2, <2>7 DEF Asked, Asks
    <3>3. ~Accepted(p)' /\ camera'[p] = << >> /\ Unbegun(p)'
      BY <1>2, <2>2, <2>3, <3>1 DEF TokenInv, Early
    <3> QED BY <2>4, <3>2, <3>3 DEF TokenInv
  <2> QED BY <2>5, <2>6, <2>7
<1>6. ASSUME NEW t \in Seq(SignalEnum), out[p] # << >>, t = Tail(out[p]), out'[p] = t,
             Asked(p)' <=> Asked(p), Accepting(p)' => Accepting(p),
             Head(out[p]).kind # "SessionJoinSuccess" /\ Unbegun(p) /\ camera[p] = << >> => Unbegun(p)' /\ camera'[p] = << >>
      PROVE  TokenInv(p)'
  <2>1. Once(t, "SessionJoinSuccess") /\
        (Head(out[p]).kind = "SessionJoinSuccess" => \A m \in Range(t) : m.kind # "SessionJoinSuccess")
    BY <1>0, <1>6, OnceTail DEF TokenInv
  <2>2. Accepted(p)' => Accepted(p)
    BY <1>0, <1>6, TailRange DEF Accepted
  <2>3. CASE Head(out[p]).kind # "SessionJoinSuccess"
    BY <1>1, <1>6, <2>1, <2>2, <2>3
  <2>4. CASE Head(out[p]).kind = "SessionJoinSuccess"
    <3>1. Accepted(p)
      BY <1>0, <1>6, <2>4, TailRange DEF Accepted
    <3>2. ~Early(p)'
      BY <1>6, <2>1, <2>4, <3>1 DEF Early, TokenInv, Accepted
    <3> QED BY <1>1, <1>6, <2>1, <2>2, <3>2
  <2> QED BY <2>3, <2>4
<1>7. ASSUME NEW q \in UserID, Handles(q) PROVE TokenInv(p)'
  <2> DEFINE m == Head(out[q])
  <2>1. /\ out' = [out EXCEPT ![q] = Tail(out[q])] /\ out[q] # << >>
        /\ UNCHANGED <<sent, rtc, pc, envelope, received>>
        /\ \/ m.kind \in Relayed /\ camera' = camera /\ \E x : Queues(q, x) /\ Brought(m, x)
           \/ m.kind = "SessionJoinSuccess"
           \/ UNCHANGED <<camera, ops>>
    BY <1>0, <1>7, Handed
  <2>2. (Asked(p)' <=> Asked(p)) /\ (Accepting(p)' <=> Accepting(p))
    BY <2>1 DEF Asked, Asks, Accepting
  <2>3. CASE q # p
    <3>1. out'[p] = out[p]
      BY <1>0, <2>1, <2>3 DEF TypeOK
    <3>2. UNCHANGED <<camera[p], ops[p], rtc[p]>>
      BY <1>0, <1>7, <2>3, PageFrame DEF Handles
    <3>3. Once(out'[p], "SessionJoinSuccess")
      BY <3>1 DEF TokenInv
    <3>4. Accepted(p)' <=> Accepted(p)
      BY <3>1 DEF Accepted
    <3> QED BY <1>1, <1>2, <2>2, <3>2, <3>3, <3>4
  <2>4. CASE q = p
    <3>1. out'[p] = Tail(out[p]) /\ Tail(out[p]) \in Seq(SignalEnum)
      BY <1>0, <2>1, <2>4, TailRange DEF TypeOK
    <3>2. ASSUME m.kind # "SessionJoinSuccess", Unbegun(p), camera[p] = << >>
          PROVE  Unbegun(p)' /\ camera'[p] = << >>
      <4>1. CASE UNCHANGED <<camera, ops>>
        BY <1>2, <2>1, <3>2, <4>1
      <4>2. CASE camera' = camera /\ \E x : Queues(q, x) /\ Brought(m, x)
        <5>1. PICK x : Queues(q, x) /\ Brought(m, x)
          BY <4>2
        <5>2. x.op \notin Offering
          BY <5>1 DEF Brought, Offering
        <5>3. Range(ops'[p]) = Range(ops[p]) \cup {x}
          BY <1>0, <2>4, <5>1, AppendRange DEF Queues, ClientTypeOK
        <5> QED BY <2>1, <3>2, <4>2, <5>2, <5>3 DEF Unbegun, Idle
      <4> QED BY <2>1, <3>2, <4>1, <4>2
    <3> QED BY <1>6, <2>1, <2>2, <2>4, <3>1, <3>2
  <2> QED BY <2>3, <2>4
<1>8. ASSUME NEW q \in UserID, UNCHANGED clientVars,
             (Forward(q) /\ socket[q] # "open") \/ Deliver(q) \/ ReplyWithID(q) \/ End(q)
      PROVE  TokenInv(p)'
  <2>1. UNCHANGED <<sent, camera[p], ops[p], rtc[p]>>
    BY <1>8 DEF clientVars
  <2>2. /\ UNCHANGED received
        /\ pc'[p] = "sending" => pc[p] = "sending" /\ envelope'[p] = envelope[p]
        /\ pc[p] = "sending" /\ pc'[p] # "sending" => p = q /\ Deliver(q)
        /\ \/ out'[p] = out[p]
           \/ out[p] # << >> /\ out'[p] = Tail(out[p])
           \/ NewUser(p) \in SignalEnum /\ out'[p] = Append(out[p], NewUser(p))
           \/ out'[p] = << >>
           \/ /\ Deliver(q) /\ p = Addressee(q) /\ envelope[q].msg \in SignalEnum
              /\ out'[p] = Append(out[p], envelope[q].msg)
    BY <1>0, <1>8, QueueEffect
  <2>3. (Asked(p)' <=> Asked(p)) /\ (Accepting(p)' => Accepting(p))
    BY <2>1, <2>2 DEF Asked, Asks, Accepting
  <2>4. CASE out'[p] = out[p]
    <3>1. (Accepted(p)' <=> Accepted(p)) /\ Once(out'[p], "SessionJoinSuccess")
      BY <2>4 DEF Accepted, TokenInv
    <3> QED BY <1>1, <1>2, <2>1, <2>3, <3>1
  <2>5. CASE out[p] # << >> /\ out'[p] = Tail(out[p])
    <3>1. Tail(out[p]) \in Seq(SignalEnum)
      BY <1>0, <2>5, TailRange
    <3> QED BY <1>2, <1>6, <2>1, <2>3, <2>5, <3>1
  <2>6. CASE out'[p] = << >>
    <3>1. ~Accepted(p)' /\ Once(out'[p], "SessionJoinSuccess")
      BY <2>6 DEF Accepted, Once, Range
    <3> QED BY <1>1, <1>2, <2>1, <2>3, <3>1
  <2>7. ASSUME NEW x \in SignalEnum, out'[p] = Append(out[p], x), x.kind # "SessionJoinSuccess"
        PROVE  TokenInv(p)'
    <3>1. Range(out'[p]) = Range(out[p]) \cup {x}
      BY <1>0, <2>7, AppendRange
    <3>2. (Accepted(p)' <=> Accepted(p)) /\ Once(out'[p], "SessionJoinSuccess")
      BY <1>0, <2>7, <3>1, OnceAppend DEF Accepted, TokenInv
    <3> QED BY <1>1, <1>2, <2>1, <2>3, <3>2
  <2>8. ASSUME NEW x \in SignalEnum, out'[p] = Append(out[p], x), x.kind = "SessionJoinSuccess",
               Deliver(q), p = Addressee(q), x = envelope[q].msg
        PROVE  TokenInv(p)'
    <3>1. q = p /\ pc[p] = "sending" /\ Accepting(p)
      BY <2>8, EnvelopeIsShaped DEF Shaped, Relayed, Accepting
    <3>2. pc'[p] # "sending"
      BY <1>0, <2>8, <3>1, DeliverEffect
    <3>3. ~Accepted(p) /\ Asked(p)
      BY <3>1 DEF TokenInv
    <3>4. Once(out'[p], "SessionJoinSuccess")
      BY <1>0, <2>8, <3>3, OnceAppend DEF Accepted, TokenInv
    <3>5. Asked(p)' /\ ~Accepting(p)' /\ camera'[p] = << >> /\ Unbegun(p)'
      BY <1>2, <2>1, <2>3, <3>1, <3>2, <3>3 DEF Accepting, TokenInv, Early
    <3> QED BY <3>4, <3>5 DEF TokenInv
  <2>9. NewUser(p).kind # "SessionJoinSuccess"
    BY DEF NewUser
  <2> QED BY <2>2, <2>4, <2>5, <2>6, <2>7, <2>8, <2>9
<1> QED BY <1>0, <1>3, <1>4, <1>5, <1>7, <1>8, Steps

LEMMA RemoveOnly ==
  ASSUME NEW S, NEW q \in Seq(S), Len(q) = 1, NEW i \in DOMAIN q
  PROVE  i = 1 /\ RemoveAt(q, i) = << >>
<1>1. i = 1
  OBVIOUS
<1>2. SubSeq(q, 1, 0) = << >> /\ SubSeq(q, 2, 1) = << >>
  OBVIOUS
<1> QED BY <1>1, <1>2 DEF RemoveAt

LEMMA OfferOperation ==
  ASSUME Basis, NEW p \in UserID, Initiator(p), OfferInv(p), RunOperation(p)
  PROVE  OfferInv(p)'
<1>0. /\ ClientTypeOK /\ PageInv(p) /\ ops[p] \in Seq(Operation) /\ sent[p] \in Seq(Message)
      /\ Told(p) /\ rtc[p].streams \in Nat
  BY DEF Basis, CallInv, ClientTypeOK, PageFacts, PeerConnection
<1> DEFINE o == Head(ops[p])
           rest == Tail(ops[p])
<1>1. /\ ops[p] # << >> /\ o \in Operation /\ o \in Range(ops[p]) /\ Effect(p)
      /\ rtc'[p].streams = rtc[p].streams /\ UNCHANGED <<camera, video>>
  BY <1>0, OperationEffect
<1>2. rest \in Seq(Operation) /\ Range(rest) \subseteq Range(ops[p])
  BY <1>0, <1>1, TailRange
<1>3. OnceAmong(rest, Offering) /\ (o.op \in Offering => \A x \in Range(rest) : x.op \notin Offering)
  BY <1>0, <1>1, OnceAmongTail DEF OfferInv
<1>4. o.op \notin Answering /\ MayRun(p, o, rtc[p].streams)
  BY <1>0, <1>1, InitiatorOffers DEF PageInv
<1>5. camera'[p] # << >> => Len(camera'[p]) = 1 /\ camera'[p][1].for = "offer" /\ Unbegun(p)'
  BY <1>1, UnbegunRuns DEF OfferInv
<1>6. rtc'[p].streams > 0 => video'[p]["peer_a_video"] = "own"
  BY <1>1 DEF OfferInv
<1> DEFINE OpsGood == \A x \in Range(ops'[p]) :
             /\ x.op \in Offering => rtc'[p].streams = 1 /\ rtc'[p].local = None
             /\ x.op = "set_local_offer" => x.desc.streams = 1
           SentGood == Once(sent'[p], "VideoOffer") /\ \A m \in Range(sent'[p]) : m.kind = "VideoOffer" => m.desc = rtc'[p].local
           StateGood ==
             /\ rtc'[p].local # None => rtc'[p].local.streams = 1
             /\ rtc'[p].local # None /\ rtc'[p].remote = None => rtc'[p].signaling = "have-local-offer"
             /\ rtc'[p].remote # None \/ rtc'[p].signaling = "have-local-offer" => rtc'[p].streams > 0
<1>7. Quiet /\ rtc'[p].local = rtc[p].local => SentGood
  BY DEF Quiet, OfferInv
<1>8. Keeps(p) => StateGood
  BY <1>1 DEF Keeps, OfferInv
<1>9. Drops(p) /\ rtc'[p].local = rtc[p].local => OpsGood /\ OnceAmong(ops'[p], Offering)
  BY <1>1, <1>2, <1>3 DEF Drops, OfferInv
<1> DEFINE Good == OpsGood /\ OnceAmong(ops'[p], Offering) /\ SentGood /\ StateGood
<1> HIDE DEF o, rest
<1>10. ASSUME o.op = "create_offer", Keeps(p), Quiet,
              NEW x, Goes(p, x), x.op = "set_local_offer", x.desc.streams = rtc[p].streams
       PROVE  Good
  <2>1. x \in Operation /\ ops'[p] = Append(rest, x)
    BY <1>10 DEF Goes, rest
  <2>2. Range(ops'[p]) = Range(rest) \cup {x}
    BY <1>2, <2>1, AppendRange
  <2>3. o.op \in Offering
    BY <1>10 DEF Offering
  <2>4. OnceAmong(ops'[p], Offering)
    BY <1>2, <1>3, <2>1, <2>3, OnceAmongAppend
  <2>5. OpsGood
    BY <1>1, <1>2, <1>10, <2>2, <2>3 DEF OfferInv, Keeps
  <2> QED BY <1>7, <1>8, <1>10, <2>4, <2>5 DEF Keeps
<1>11. ASSUME o.op = "set_local_offer", Drops(p), rtc'[p].local = o.desc, rtc'[p].remote = rtc[p].remote,
              rtc'[p].signaling = "have-local-offer",
              NEW m, Says(p, m), m.kind = "VideoOffer", m.desc = o.desc
       PROVE  Good
  <2>1. /\ o.op \in Offering /\ rtc[p].streams = 1 /\ rtc[p].local = None /\ o.desc.streams = 1
    BY <1>1, <1>11 DEF OfferInv, Offering
  <2>2. OpsGood /\ OnceAmong(ops'[p], Offering)
    BY <1>3, <1>11, <2>1 DEF Drops, rest, Offering
  <2>3. \A y \in Range(sent[p]) : y.kind # "VideoOffer"
    BY <1>0, <2>1, NoneIsNoDescription DEF OfferInv, PageInv, MaySend
  <2>4. CASE sent' = sent
    BY <1>1, <1>11, <2>1, <2>2, <2>3, <2>4 DEF OfferInv
  <2>5. CASE sent'[p] = Append(sent[p], m) /\ m \in Message
    <3>1. Once(sent'[p], "VideoOffer")
      BY <1>0, <2>3, <2>5, OnceAppend DEF OfferInv
    <3>2. Range(sent'[p]) = Range(sent[p]) \cup {m}
      BY <1>0, <2>5, AppendRange
    <3> QED BY <1>1, <1>11, <2>1, <2>2, <2>3, <3>1, <3>2
  <2> QED BY <1>11, <2>4, <2>5 DEF Says
<1>12. ASSUME o.op = "set_remote_answer", AnswerFits(p), Drops(p), Quiet, rtc'[p].local = rtc[p].local,
              rtc'[p].remote = o.desc, rtc'[p].signaling = "stable"
       PROVE  Good
  <2>1. rtc[p].signaling = "have-local-offer" /\ rtc[p].streams > 0
    BY <1>12 DEF AnswerFits, OfferInv
  <2>2. o.desc # None
    BY <1>0, <1>1, <1>12, NoneIsNoDescription DEF Told
  <2>3. StateGood
    BY <1>1, <1>12, <2>1, <2>2 DEF OfferInv
  <2> QED BY <1>7, <1>9, <1>12, <2>3
<1>13. ASSUME Drops(p), Keeps(p), sent' = sent PROVE Good
  <2>1. SentGood
    BY <1>13 DEF OfferInv, Keeps
  <2> QED BY <1>8, <1>9, <1>13, <2>1 DEF Keeps
<1> HIDE DEF Good
<1>14. Good
  BY <1>1, <1>4, <1>10, <1>11, <1>12, <1>13, ZenonT(60) DEF Effect, Answering, Quiet, o
<1> QED BY <1>5, <1>6, <1>14 DEF OfferInv, Good

LEMMA OfferNext ==
  ASSUME WellBehaved, Basis, NEW p \in UserID, Initiator(p)', TokenInv(p), OfferInv(p), [CallNext]_callVars
  PROVE  OfferInv(p)'
<1>0. /\ CallInv /\ TypeOK /\ ClientTypeOK /\ Initiator(p) /\ PageInv(p) /\ ops[p] \in Seq(Operation)
      /\ camera[p] \in Seq(Waiting) /\ sent[p] \in Seq(Message) /\ rtc[p].streams \in Nat
      /\ video[p] \in [Pane -> {"nothing", "own", "remote"}]
  BY InitiatorBefore DEF Basis, CallInv, RoutingInv, ClientTypeOK, PeerConnection
<1>1. ASSUME UNCHANGED <<camera[p], ops[p], rtc[p], sent[p], video[p]>> PROVE OfferInv(p)'
  BY <1>1 DEF OfferInv, Unbegun, Idle
<1>2. ASSUME NEW m, Says(p, m), m.kind # "VideoOffer"
      PROVE  /\ Once(sent'[p], "VideoOffer")
             /\ \A y \in Range(sent'[p]) : y.kind = "VideoOffer" => y.desc = rtc[p].local
  <2>1. CASE sent' = sent
    BY <2>1 DEF OfferInv
  <2>2. CASE sent'[p] = Append(sent[p], m) /\ m \in Message
    <3>1. Once(sent'[p], "VideoOffer")
      BY <1>0, <1>2, <2>2, OnceAppend DEF OfferInv
    <3>2. Range(sent'[p]) = Range(sent[p]) \cup {m}
      BY <1>0, <2>2, AppendRange
    <3> QED BY <1>2, <3>1, <3>2 DEF OfferInv
  <2> QED BY <1>2, <2>1, <2>2 DEF Says
<1>3. ASSUME PageStep(p) PROVE OfferInv(p)'
  <2>1. clicks'[p]["start"] = 0 /\ clicks[p]["start"] = 0
    BY <1>0 DEF Initiator
  <2>2. CASE Requested(p)
    <3>1. UNCHANGED <<camera[p], ops, rtc, video>>
      BY <2>1, <2>2 DEF Requested
    <3>2. /\ Once(sent'[p], "VideoOffer")
          /\ \A y \in Range(sent'[p]) : y.kind = "VideoOffer" => y.desc = rtc[p].local
      BY <1>2, <2>2 DEF Requested
    <3> QED BY <3>1, <3>2 DEF OfferInv, Unbegun, Idle
  <2>3. CASE CameraGranted(p)
    <3>1. PICK i \in DOMAIN camera[p] :
            /\ camera'[p] = RemoveAt(camera[p], i)
            /\ \/ ops'[p] = ops[p] /\ camera[p][i].for = "start"
               \/ /\ camera[p][i].for = "offer"
                  /\ \E x : Queues(p, x) /\ x.op = "create_offer" /\ x.session = camera[p][i].session
            /\ video'[p] = [video[p] EXCEPT ![OwnPane(camera[p][i].for)] = "own"]
      BY <1>0, <2>3, CameraEffect
    <3>2. sent' = sent /\ rtc'[p].streams = rtc[p].streams + 1 /\ Keeps(p)
      BY <1>0, <2>3, CameraEffect
    <3>3. Len(camera[p]) = 1 /\ camera[p][1].for = "offer" /\ Unbegun(p)
      <4>1. camera[p] # << >>
        BY <3>1
      <4> QED BY <4>1 DEF OfferInv
    <3>4. i = 1 /\ camera'[p] = << >>
      BY <1>0, <3>1, <3>3, RemoveOnly
    <3>5. PICK x : Queues(p, x) /\ x.op = "create_offer"
      BY <3>1, <3>3, <3>4
    <3>6. Range(ops'[p]) = Range(ops[p]) \cup {x} /\ \A y \in Range(ops[p]) : y.op \notin Offering
      BY <1>0, <3>3, <3>5, AppendRange DEF Queues, Unbegun, Idle
    <3>7. OnceAmong(ops'[p], Offering)
      BY <1>0, <3>5, <3>6, OnceAmongAppend DEF Queues, OfferInv
    <3>8. rtc'[p].streams = 1 /\ rtc'[p].local = None
      BY <3>2, <3>3 DEF Unbegun, Keeps
    <3>9. video'[p]["peer_a_video"] = "own"
      BY <1>0, <3>1, <3>3, <3>4 DEF OwnPane, Pane
    <3>10. \A y \in Range(ops'[p]) :
             /\ y.op \in Offering => rtc'[p].streams = 1 /\ rtc'[p].local = None
             /\ y.op = "set_local_offer" => y.desc.streams = 1
      BY <3>5, <3>6, <3>8 DEF Offering
    <3>11. /\ Once(sent'[p], "VideoOffer")
           /\ \A m \in Range(sent'[p]) : m.kind = "VideoOffer" => m.desc = rtc'[p].local
      BY <3>2 DEF OfferInv, Keeps
    <3> QED BY <3>4, <3>7, <3>8, <3>9, <3>10, <3>11 DEF OfferInv
  <2>4. CASE Turned(p)
    <3>1. PICK i \in DOMAIN camera[p] : camera'[p] = RemoveAt(camera[p], i)
      BY <2>4 DEF Turned
    <3>2. camera[p] # << >> /\ Len(camera[p]) = 1
      BY <3>1 DEF OfferInv
    <3>3. camera'[p] = << >>
      BY <1>0, <3>1, <3>2, RemoveOnly
    <3>4. UNCHANGED <<sent, ops, rtc, video>>
      BY <2>4 DEF Turned
    <3> QED BY <3>3, <3>4 DEF OfferInv
  <2>5. CASE RunOperation(p)
    BY <1>0, <2>5, OfferOperation
  <2>6. CASE Found(p)
    <3>1. UNCHANGED <<camera, ops, rtc, video>>
      BY <2>6 DEF Found
    <3>2. /\ Once(sent'[p], "VideoOffer")
          /\ \A y \in Range(sent'[p]) : y.kind = "VideoOffer" => y.desc = rtc[p].local
      <4>1. CASE sent' = sent
        BY <4>1 DEF OfferInv
      <4> QED BY <1>2, <2>6, <4>1 DEF Found
    <3> QED BY <3>1, <3>2 DEF OfferInv, Unbegun, Idle
  <2>7. CASE Shows(p)
    <3>1. UNCHANGED <<camera, ops, rtc, sent>>
      BY <2>7 DEF Shows
    <3>2. video'[p]["peer_a_video"] = video[p]["peer_a_video"]
      BY <1>0, <2>1, <2>7 DEF Shows, RemotePane, Pane
    <3> QED BY <3>1, <3>2 DEF OfferInv, Unbegun, Idle
  <2> QED BY <1>0, <1>3, <2>2, <2>3, <2>4, <2>5, <2>6, <2>7, PageCases
<1>4. ASSUME NEW q \in UserID, PageStep(q), q # p PROVE OfferInv(p)'
  BY <1>0, <1>1, <1>4, PageFrame
<1>5. ASSUME NEW q \in UserID, Handles(q), q # p PROVE OfferInv(p)'
  BY <1>0, <1>1, <1>5, PageFrame DEF Handles
<1>6. ASSUME Handles(p) PROVE OfferInv(p)'
  <2> DEFINE m == Head(out[p])
  <2>1. /\ m \in Range(out[p])
        /\ UNCHANGED <<sent, rtc, video>>
        /\ \/ m.kind \in Relayed /\ camera' = camera /\ \E x : Queues(p, x) /\ Brought(m, x)
           \/ /\ m.kind = "SessionJoinSuccess" /\ ops' = ops
              /\ camera' = [camera EXCEPT ![p] = Append(camera[p], [for |-> "offer", session |-> m.session])]
           \/ UNCHANGED <<camera, ops>>
    BY <1>0, <1>6, Handed
  <2>2. CASE UNCHANGED <<camera, ops>>
    BY <1>1, <2>1, <2>2
  <2>3. CASE camera' = camera /\ \E x : Queues(p, x) /\ Brought(m, x)
    <3>1. PICK x : Queues(p, x) /\ Brought(m, x)
      BY <2>3
    <3>2. x.op \notin Offering
      BY <3>1 DEF Brought, Offering
    <3>3. Range(ops'[p]) = Range(ops[p]) \cup {x} /\ OnceAmong(ops'[p], Offering)
      BY <1>0, <3>1, <3>2, AppendRange, OnceAmongAppend DEF Queues, OfferInv
    <3>4. Unbegun(p) => Unbegun(p)'
      BY <2>1, <3>2, <3>3 DEF Unbegun, Idle
    <3>5. x.op # "set_local_offer"
      BY <3>2 DEF Offering
    <3> QED BY <2>1, <2>3, <3>2, <3>3, <3>4, <3>5 DEF OfferInv
  <2>4. CASE /\ m.kind = "SessionJoinSuccess" /\ ops' = ops
             /\ camera' = [camera EXCEPT ![p] = Append(camera[p], [for |-> "offer", session |-> m.session])]
    <3>1. Early(p) /\ camera[p] = << >> /\ Unbegun(p)
      BY <2>1, <2>4 DEF Early, Accepted, TokenInv
    <3>2. camera'[p] = << [for |-> "offer", session |-> m.session] >>
      BY <1>0, <2>4, <3>1 DEF ClientTypeOK
    <3>3. Unbegun(p)'
      BY <2>1, <2>4, <3>1 DEF Unbegun, Idle
    <3>4. Len(camera'[p]) = 1 /\ camera'[p][1].for = "offer"
      BY <3>2
    <3> QED BY <2>1, <2>4, <3>3, <3>4 DEF OfferInv
  <2> QED BY <2>1, <2>2, <2>3, <2>4
<1>7. Calm \/ UNCHANGED clientVars => UNCHANGED <<camera, ops, rtc, sent, video>>
  BY DEF Calm, clientVars, screen
<1>8. \A q \in UserID : ServerReads(q) => UNCHANGED clientVars
  BY DEF ServerReads
<1> QED BY <1>0, <1>1, <1>3, <1>4, <1>5, <1>6, <1>7, <1>8, Steps

-------------------------------------------------------------------------------
(* Initiator and listener. *)

LEMMA PairedBefore ==
  ASSUME CallInv, HistoryGrows, NEW p \in UserID, NEW h \in UserID, [CallNext]_callVars, Paired(p, h)'
  PROVE  Paired(p, h)
<1>1. Initiator(p) /\ Listener(h)
  BY InitiatorBefore DEF Paired
<1>2. ASSUME NEW s \in SessionID, host_of[s] = h PROVE guests_of[s] \subseteq {p}
  <2>1. host_of'[s] = h /\ guests_of[s] \subseteq guests_of'[s]
    BY <1>2, NoneIsNoIdentifier DEF HistoryGrows
  <2> QED BY <2>1 DEF Paired
<1> QED BY <1>1, <1>2 DEF Paired

\* A session that somebody has joined keeps its host.
LEMMA HostStands ==
  ASSUME Basis, HistoryGrows, NEW s, NEW u \in UserID, Joined(u, s) \/ Hosting(u, s)
  PROVE  host_of'[s] = host_of[s] /\ s \in SessionID
BY NoneIsNoIdentifier DEF Basis, HistoryGrows, SessionsStand, Joined, Hosting

\* Who sends about the sessions of h: its guest p the offers, h the answers.
LEMMA PairSpeaks ==
  ASSUME Basis, NEW p \in UserID, NEW h \in UserID, Paired(p, h), NEW u \in UserID
  PROVE  /\ \A s : Joined(u, s) /\ Hosting(h, s) => u = p
         /\ \A s : Hosting(u, s) /\ Hosting(h, s) => u = h
         /\ \A s : ~Joined(h, s) /\ ~Hosting(p, s)
         /\ \A i \in DOMAIN sent[u] :
              /\ sent[u][i].kind = "VideoOffer" => Joined(u, sent[u][i].session) /\ sent[u][i].desc \in Description
              /\ sent[u][i].kind = "VideoAnswer" => Hosting(u, sent[u][i].session) /\ sent[u][i].desc \in Description
<1>1. \A s \in SessionID : ~Joined(h, s) /\ ~Hosting(p, s)
  BY NoPart DEF Basis, Paired, Initiator, Listener
<1>2. \A m \in Range(sent[u]) : MaySend(u, m)
  BY DEF Basis, CallInv, PageInv
<1> QED BY <1>1, <1>2 DEF Paired, Joined, Hosting, MaySend, Range

\* A message in transit is the latest that its sender's task has read, if the
\* task still holds it, and an earlier one otherwise.
LEMMA Composed ==
  ASSUME Basis, NEW c \in UserID, pc[c] = "sending", envelope[c].msg.kind \in Relayed,
         NEW m, m = envelope[c].msg
  PROVE  /\ m \in SignalEnum /\ m.by = c /\ m.seq = received[c] /\ IsSent(m)
         /\ For(Addressee(c), m, host_of, guests_of)
<1>1. m \in SignalEnum
  BY DEF Basis, OrderInv, TypeOK
<1>2. m.by = c /\ m.seq = received[c]
  BY DEF Basis, OrderInv, Counted, Undelivered
<1>3. IsSent(m)
  BY <1>1 DEF Basis, CallInv, Traced, InTransit
<1>4. For(Addressee(c), m, host_of, guests_of)
  BY DEF Basis, CallInv, RoutingInv, EnvelopeAddressed
<1> QED BY <1>1, <1>2, <1>3, <1>4

LEMMA Queued ==
  ASSUME Basis, NEW d \in UserID, NEW i \in DOMAIN out[d], NEW m, m = out[d][i]
  PROVE  /\ m \in SignalEnum /\ For(d, m, host_of, guests_of)
         /\ m.kind \in Relayed =>
              /\ IsSent(m) /\ m.by \in UserID /\ m.seq \in Nat /\ m.seq <= received[m.by]
              /\ pc[m.by] = "sending" /\ envelope[m.by].msg.kind \in Relayed => m.seq < received[m.by]
<1>1. m \in SignalEnum
  BY DEF Basis, OrderInv, TypeOK
<1>2. For(d, m, host_of, guests_of)
  BY DEF Basis, CallInv, RoutingInv, QueuesAddressed
<1>3. m.kind \in Relayed => IsSent(m)
  BY <1>1 DEF Basis, CallInv, Traced, InTransit, Range
<1>4. Earlier(m, received, Holders)
  BY DEF Basis, OrderInv, QueuedEarlier
<1> QED BY <1>1, <1>2, <1>3, <1>4 DEF Earlier, Holders, Undelivered

\* An offer in the queue of h is p's only one: it is not on its way as well.
LEMMA OfferArrives ==
  ASSUME Basis, NEW p \in UserID, NEW h \in UserID, Paired(p, h), OfferInv(p),
         NEW i \in DOMAIN out[h], out[h][i].kind = "VideoOffer", NEW m, m = out[h][i]
  PROVE  /\ Hosting(h, m.session) /\ Joined(p, m.session) /\ m.by = p
         /\ sent[m.by][m.seq].desc = rtc[p].local
         /\ OfferRead(p, h) /\ ~OfferComposed(p, h)
         /\ \A j \in DOMAIN out[h] : out[h][j].kind = "VideoOffer" => j = i
<1> DEFINE P(k) == k \in DOMAIN out[h] /\ out[h][k].kind = "VideoOffer"
<1>1. ASSUME NEW k, P(k)
      PROVE  /\ Hosting(h, out[h][k].session) /\ out[h][k].by = p /\ Asks(p, out[h][k].seq, "VideoOffer")
             /\ out[h][k].seq \in Nat /\ out[h][k].seq <= received[p]
             /\ pc[p] = "sending" /\ envelope[p].msg.kind \in Relayed => out[h][k].seq < received[p]
             /\ sent[p][out[h][k].seq].session = out[h][k].session /\ Joined(p, out[h][k].session)
  <2> DEFINE x == out[h][k]
  <2>1. x.kind = "VideoOffer" /\ x.kind \in Relayed /\ x.kind \in SessionKinds
    BY <1>1 DEF Relayed, SessionKinds
  <2>2. /\ For(h, x, host_of, guests_of) /\ IsSent(x) /\ x.by \in UserID /\ x.seq \in Nat /\ x.seq <= received[x.by]
        /\ pc[x.by] = "sending" /\ envelope[x.by].msg.kind \in Relayed => x.seq < received[x.by]
    BY <1>1, <2>1, Queued
  <2>3. Hosting(h, x.session)
    BY <2>1, <2>2 DEF For, Concerns, Hosting
  <2>4. Joined(x.by, x.session)
    BY <2>1, <2>2, PairSpeaks DEF IsSent
  <2>5. x.by = p
    BY <2>2, <2>3, <2>4, PairSpeaks
  <2> QED BY <2>1, <2>2, <2>3, <2>4, <2>5 DEF IsSent, Asks
<1>2. P(i)
  OBVIOUS
<1>3. sent[m.by][m.seq].desc = rtc[p].local
  BY <1>1, <1>2 DEF OfferInv, Asks, Range
<1>4. OfferRead(p, h)
  BY <1>1, <1>2 DEF OfferRead, Asks
<1>5. ASSUME OfferComposed(p, h) PROVE FALSE
  <2>1. pc[p] = "sending" /\ envelope[p].msg.kind = "VideoOffer" /\ envelope[p].msg.kind \in Relayed
    BY <1>5 DEF OfferComposed, Relayed
  <2>2. envelope[p].msg.by = p /\ envelope[p].msg.seq = received[p] /\ IsSent(envelope[p].msg)
    BY <2>1, Composed
  <2>3. Asks(p, received[p], "VideoOffer")
    BY <2>1, <2>2 DEF IsSent, Asks
  <2>4. Asks(p, m.seq, "VideoOffer") /\ m.seq < received[p] /\ m.seq \in Nat
    BY <1>1, <1>2, <2>1
  <2>5. m.seq = received[p]
    BY <2>3, <2>4 DEF OfferInv, Once, Asks
  <2> QED BY <2>4, <2>5
<1>6. ASSUME NEW j \in DOMAIN out[h], out[h][j].kind = "VideoOffer", j # i PROVE FALSE
  <2>1. P(j) /\ i \in Nat /\ j \in Nat /\ Ordered(out[h])
    BY <1>6 DEF Basis, OrderInv, TypeOK
  <2>2. out[h][j].seq = m.seq
    BY <1>1, <1>2, <2>1 DEF OfferInv, Once, Asks
  <2>3. out[h][j].by = out[h][i].by /\ {out[h][i].kind, out[h][j].kind} \subseteq Relayed
    BY <1>1, <1>2, <2>1 DEF Relayed
  <2>4. i < j \/ j < i
    BY <1>6, <2>1
  <2>5. out[h][j].seq \in Nat /\ out[h][i].seq \in Nat
    BY <1>1, <1>2, <2>1
  <2> QED BY <2>1, <2>2, <2>3, <2>4, <2>5 DEF Ordered
<1> QED BY <1>1, <1>2, <1>3, <1>4, <1>5, <1>6

-------------------------------------------------------------------------------
(* The host's side of the negotiation. *)

\* The initiator sets its local description once.
LEMMA LocalOnce ==
  ASSUME Basis, NEW p \in UserID, Initiator(p), OfferInv(p), PageStep(p)
  PROVE  rtc'[p].local = rtc[p].local \/ rtc[p].local = None
<1>0. ClientTypeOK /\ PageInv(p)
  BY DEF Basis, CallInv
<1>1. CASE RunOperation(p)
  <2> DEFINE o == Head(ops[p])
  <2>1. Effect(p) /\ o \in Range(ops[p])
    BY <1>0, <1>1, OperationEffect
  <2>2. o.op \notin Answering
    BY <2>1, InitiatorOffers
  <2>3. o.op = "set_local_offer" => rtc[p].local = None
    BY <2>1 DEF OfferInv, Offering
  <2> HIDE DEF o
  <2>4. o.op # "set_local_offer" => rtc'[p].local = rtc[p].local
    BY <2>1, <2>2, ZenonT(60) DEF Effect, Keeps, Answering, o
  <2> QED BY <2>3, <2>4
<1>2. CASE CameraGranted(p)
  BY <1>0, <1>2, CameraEffect DEF Keeps
<1>3. CASE UNCHANGED rtc
  BY <1>3
<1> QED BY <1>0, <1>1, <1>2, <1>3, PageCases DEF Requested, Turned, Found, Shows

\* What has been read stays read.
LEMMA SentOnward ==
  ASSUME CallInv, NEW p \in UserID, [CallNext]_callVars
  PROVE  \A i \in DOMAIN sent[p] : i \in DOMAIN sent'[p] /\ sent'[p][i] = sent[p][i]
<1>0. ClientTypeOK
  BY DEF CallInv
<1>1. ASSUME NEW q \in UserID, PageStep(q)
      PROVE  \A i \in DOMAIN sent[p] : i \in DOMAIN sent'[p] /\ sent'[p][i] = sent[p][i]
  BY <1>0, <1>1, SentGrows
<1>2. ASSUME sent' = sent
      PROVE  \A i \in DOMAIN sent[p] : i \in DOMAIN sent'[p] /\ sent'[p][i] = sent[p][i]
  BY <1>2
<1>3. ASSUME NEW q \in UserID, Handles(q) PROVE sent' = sent
  BY <1>3 DEF Handles, OnMessage
<1>4. Calm \/ UNCHANGED clientVars => sent' = sent
  BY DEF Calm, clientVars
<1>5. \A q \in UserID : ServerReads(q) => UNCHANGED clientVars
  BY DEF ServerReads
<1> QED BY <1>1, <1>2, <1>3, <1>4, <1>5, Steps

LEMMA ReadStays ==
  ASSUME CallInv, HistoryGrows, NEW p \in UserID, NEW h \in UserID, [CallNext]_callVars,
         received[p] <= received'[p], received[p] \in Nat, received'[p] \in Nat
  PROVE  OfferRead(p, h) => OfferRead(p, h)'
<1> SUFFICES ASSUME OfferRead(p, h) PROVE OfferRead(p, h)'
  OBVIOUS
<1>1. PICK i \in DOMAIN sent[p] : i <= received[p] /\ Asks(p, i, "VideoOffer") /\ Hosting(h, sent[p][i].session)
  BY DEF OfferRead
<1>2. i \in DOMAIN sent'[p] /\ sent'[p][i] = sent[p][i]
  BY SentOnward
<1>3. i \in Nat
  BY DEF CallInv, ClientTypeOK
<1>4. i <= received'[p] /\ Asks(p, i, "VideoOffer")'
  BY <1>1, <1>2, <1>3 DEF Asks
<1>5. Hosting(h, sent[p][i].session)'
  BY <1>1, <1>2, PagesStable DEF Hosting
<1> QED BY <1>2, <1>4, <1>5 DEF OfferRead

\* A step that gives h nothing to answer keeps the invariant.
LEMMA HostKeeps ==
  ASSUME HistoryGrows, NEW p \in UserID, NEW h \in UserID, HostInv(p, h),
         rtc'[h].local = rtc[h].local, rtc'[h].remote = rtc[h].remote,
         \/ rtc'[p].local = rtc[p].local
         \/ rtc[h].remote = None /\ \A o \in Range(ops[h]) : o.op # "set_remote_offer",
         OnceAmong(ops'[h], Answering),
         \A o \in Range(ops'[h]) : o \in Range(ops[h]) \/ o.op \notin Answering,
         \A m \in Range(sent'[h]) : m \in Range(sent[h]) \/ m.kind # "VideoAnswer",
         Awaited(p, h)' => Untouched(h)
  PROVE  HostInv(p, h)'
<1>1. \A s : Joined(p, s) => Joined(p, s)'
  BY PagesStable
<1>2. Awaited(p, h)' => Untouched(h)'
  BY DEF Untouched, Idle
<1>3. ASSUME NEW o \in Range(ops'[h])
      PROVE  /\ o.op \in Answering => Joined(p, o.session)' /\ rtc'[h].local = None
             /\ o.op = "set_remote_offer" => rtc'[h].remote = None /\ o.desc = rtc'[p].local
             /\ o.op \in {"create_answer", "set_local_answer"} => rtc'[h].remote # None
             /\ o.op = "set_local_answer" => AnswerTo(o.desc, rtc'[h].remote)
  <2>1. CASE o.op \notin Answering
    BY <2>1 DEF Answering
  <2>2. CASE o \in Range(ops[h])
    BY <1>1, <2>2 DEF HostInv
  <2> QED BY <1>3, <2>1, <2>2
<1>4. rtc'[h].remote # None => rtc'[h].remote = rtc'[p].local
  BY DEF HostInv
<1>5. rtc'[h].local # None => rtc'[h].remote # None /\ AnswerTo(rtc'[h].local, rtc'[h].remote)
  BY DEF HostInv
<1>6. \A m \in Range(sent'[h]) : m.kind = "VideoAnswer" =>
        m.desc = rtc'[h].local /\ m.desc # None /\ Joined(p, m.session)'
  BY <1>1 DEF HostInv
<1> QED BY <1>2, <1>3, <1>4, <1>5, <1>6 DEF HostInv, AnswerTo

LEMMA HostOperation ==
  ASSUME Basis, HistoryGrows, NEW p \in UserID, NEW h \in UserID, Paired(p, h), HostInv(p, h),
         RunOperation(h), Awaited(p, h)' => Awaited(p, h)
  PROVE  HostInv(p, h)'
<1> DEFINE o == Head(ops[h])
           t == Tail(ops[h])
<1>0. /\ ClientTypeOK /\ PageInv(h) /\ Listener(h) /\ p # h
      /\ Awaited(p, h) => Untouched(h) /\ OnceAmong(ops[h], Answering)
      /\ OnceAmong(ops[h], Answering)
  BY DEF Basis, CallInv, Paired, HostInv
<1>1. /\ ops[h] # << >> /\ ops[h] \in Seq(Operation) /\ o \in Operation /\ o \in Range(ops[h]) /\ Effect(h)
  BY <1>0, OperationEffect
<1>2. /\ t \in Seq(Operation) /\ Range(t) \subseteq Range(ops[h]) /\ OnceAmong(t, Answering)
      /\ o.op \in Answering => \A y \in Range(t) : y.op \notin Answering
  BY <1>0, <1>1, TailRange, OnceAmongTail
<1>3. o.op \notin Offering /\ o.op # "set_remote_answer"
  BY <1>0, <1>1, ListenerAnswers
<1>4. rtc'[p].local = rtc[p].local
  BY <1>0, PageFrame DEF PageStep
<1>5. o.op \in Answering =>
        /\ ~Awaited(p, h)' /\ Joined(p, o.session) /\ rtc[h].local = None
        /\ \A m \in Range(sent[h]) : m.kind # "VideoAnswer"
  <2> SUFFICES ASSUME o.op \in Answering
               PROVE  /\ ~Awaited(p, h)' /\ Joined(p, o.session) /\ rtc[h].local = None
                      /\ \A m \in Range(sent[h]) : m.kind # "VideoAnswer"
    OBVIOUS
  <2>1. ~Awaited(p, h)'
    BY <1>0, <1>1 DEF Untouched, Idle
  <2>2. Joined(p, o.session) /\ rtc[h].local = None
    BY <1>1 DEF HostInv
  <2>3. \A m \in Range(sent[h]) : m.kind # "VideoAnswer"
    BY <2>2 DEF HostInv
  <2> QED BY <2>1, <2>2, <2>3
<1>6. \A s : Joined(p, s) => Joined(p, s)'
  BY PagesStable
<1>7. o \in Range(ops[h]) => MayRun(h, o, rtc[h].streams)
  BY <1>0 DEF PageInv
<1> HIDE DEF o, t
\* A new operation takes the place of the first one.
<1>8. ASSUME NEW x, Goes(h, x), o.op \in Answering, x.op \in {"create_answer", "set_local_answer"},
             sent' = sent, rtc'[h].local = rtc[h].local, rtc'[h].remote # None,
             rtc'[h].remote = rtc[p].local,
             x.op = "set_local_answer" => AnswerTo(x.desc, rtc'[h].remote)
      PROVE  HostInv(p, h)'
  <2>1. ops'[h] = Append(t, x) /\ x \in Operation /\ x.session = o.session
    BY <1>8 DEF Goes, o, t
  <2>2. Range(ops'[h]) = Range(t) \cup {x} /\ OnceAmong(ops'[h], Answering)
    BY <1>2, <1>8, <2>1, AppendRange, OnceAmongAppend
  <2>3. ASSUME NEW y \in Range(ops'[h])
        PROVE  /\ y.op \in Answering => Joined(p, y.session)' /\ rtc'[h].local = None
               /\ y.op = "set_remote_offer" => rtc'[h].remote = None /\ y.desc = rtc'[p].local
               /\ y.op \in {"create_answer", "set_local_answer"} => rtc'[h].remote # None
               /\ y.op = "set_local_answer" => AnswerTo(y.desc, rtc'[h].remote)
    <3>1. CASE y = x
      BY <1>5, <1>6, <1>8, <2>1, <3>1
    <3>2. CASE y \in Range(t)
      BY <1>2, <1>8, <3>2 DEF Answering
    <3> QED BY <2>2, <2>3, <3>1, <3>2
  <2>4. \A m \in Range(sent'[h]) : m.kind = "VideoAnswer" =>
          m.desc = rtc'[h].local /\ m.desc # None /\ Joined(p, m.session)'
    BY <1>5, <1>8
  <2>5. rtc'[h].local = None /\ ~Awaited(p, h)'
    BY <1>5, <1>8
  <2> QED BY <1>4, <1>8, <2>2, <2>3, <2>4, <2>5 DEF HostInv, AnswerTo
<1>9. CASE o.op = "set_remote_offer"
  <2>1. rtc'[h].local = rtc[h].local /\ rtc'[h].remote = o.desc /\ Quiet /\ \E x : Goes(h, x) /\ x.op = "create_answer"
    BY <1>1, <1>9, ZenonT(60) DEF Effect, o
  <2>2. o.desc = rtc[p].local
    BY <1>1, <1>9 DEF HostInv
  <2>3. o.desc # None
    BY <1>1, <1>7, <1>9, NoneIsNoDescription DEF MayRun
  <2>4. o.op \in Answering
    BY <1>9 DEF Answering
  <2> QED BY <1>8, <2>1, <2>2, <2>3, <2>4 DEF Quiet
<1>10. CASE o.op = "create_answer"
  <2>0. o.op \in Answering
    BY <1>10 DEF Answering
  <2>1. rtc[h].remote # None /\ rtc[h].remote = rtc[p].local
    BY <1>1, <1>10 DEF HostInv
  <2>2. CASE Keeps(h) /\ Quiet /\ \E x : Goes(h, x) /\ x.op = "set_local_answer" /\ AnswerTo(x.desc, rtc[h].remote)
    BY <1>8, <2>0, <2>1, <2>2 DEF Quiet, Keeps, AnswerTo
  <2>3. CASE Drops(h) /\ Keeps(h) /\ Quiet
    <3>1. ops'[h] = t
      BY <2>3 DEF Drops, t
    <3>2. \A y \in Range(ops'[h]) : y \in Range(ops[h]) \/ y.op \notin Answering
      BY <1>2, <3>1
    <3> QED BY <1>2, <1>4, <1>5, <2>0, <2>3, <3>1, <3>2, HostKeeps DEF Keeps, Quiet
  <2> QED BY <1>1, <1>10, <2>2, <2>3, ZenonT(60) DEF Effect, o
<1>11. CASE o.op = "set_local_answer"
  <2>0. o.op \in Answering
    BY <1>11 DEF Answering
  <2>1. rtc[h].remote # None /\ rtc[h].remote = rtc[p].local /\ AnswerTo(o.desc, rtc[h].remote)
    BY <1>1, <1>11 DEF HostInv
  <2>2. CASE /\ Drops(h) /\ rtc'[h].local = o.desc /\ rtc'[h].remote = rtc[h].remote
             /\ \E m : Says(h, m) /\ m.kind = "VideoAnswer" /\ m.session = o.session /\ m.desc = o.desc
    <3>1. ops'[h] = t
      BY <2>2 DEF Drops, t
    <3>2. \A y \in Range(ops'[h]) : y.op \notin Answering
      BY <1>2, <2>0, <3>1
    <3>3. o.desc # None
      BY <1>1, <1>7, <1>11, NoneIsNoDescription DEF MayRun
    <3>4. ASSUME NEW m \in Range(sent'[h]), m.kind = "VideoAnswer"
          PROVE  m.session = o.session /\ m.desc = o.desc
      <4>1. PICK w : Says(h, w) /\ w.session = o.session /\ w.desc = o.desc
        BY <2>2
      <4>2. sent[h] \in Seq(Message)
        BY <1>0 DEF ClientTypeOK
      <4>3. sent'[h] = Append(sent[h], w) => Range(sent'[h]) = Range(sent[h]) \cup {w}
        BY <4>1, <4>2, AppendRange DEF Says
      <4>4. m \in Range(sent[h]) \/ m = w
        BY <3>4, <4>1, <4>3 DEF Says
      <4> QED BY <1>5, <2>0, <3>4, <4>1, <4>4
    <3>5. \A y \in Range(ops'[h]) : y.op \notin {"set_remote_offer", "create_answer", "set_local_answer"}
      BY <3>2 DEF Answering
    <3> QED BY <1>2, <1>4, <1>5, <1>6, <2>0, <2>1, <2>2, <3>1, <3>2, <3>3, <3>4, <3>5 DEF HostInv, AnswerTo
  <2>3. CASE Drops(h) /\ Keeps(h) /\ Quiet
    <3>1. ops'[h] = t
      BY <2>3 DEF Drops, t
    <3>2. \A y \in Range(ops'[h]) : y \in Range(ops[h]) \/ y.op \notin Answering
      BY <1>2, <3>1
    <3> QED BY <1>2, <1>4, <1>5, <2>0, <2>3, <3>1, <3>2, HostKeeps DEF Keeps, Quiet
  <2> QED BY <1>1, <1>11, <2>2, <2>3, ZenonT(60) DEF Effect, o
<1>12. CASE o.op = "add_ice_candidate"
  <2>1. Drops(h) /\ Keeps(h) /\ sent' = sent
    BY <1>1, <1>12, ZenonT(60) DEF Effect, o
  <2>2. ops'[h] = t
    BY <2>1 DEF Drops, t
  <2>3. \A y \in Range(ops'[h]) : y \in Range(ops[h]) \/ y.op \notin Answering
    BY <1>2, <2>2
  <2>4. Awaited(p, h)' => Untouched(h)
    BY <1>0
  <2> QED BY <1>2, <1>4, <2>1, <2>2, <2>3, <2>4, HostKeeps DEF Keeps
<1>13. o.op \in OpNames
  BY <1>1 DEF Operation
<1> QED BY <1>3, <1>9, <1>10, <1>11, <1>12, <1>13 DEF OpNames, Offering

\* A step of the page of h, or of p, does not bring the offer back.
LEMMA HostPages ==
  ASSUME Basis, HistoryGrows, NEW p \in UserID, NEW h \in UserID, Paired(p, h), OfferInv(p),
         HostInv(p, h), NEW q \in UserID, PageStep(q), Awaited(p, h)' => Awaited(p, h)
  PROVE  HostInv(p, h)'
<1>0. /\ ClientTypeOK /\ PageInv(h) /\ Listener(h) /\ Initiator(p) /\ p # h /\ (Awaited(p, h)' => Untouched(h))
      /\ OnceAmong(ops[h], Answering) /\ ops[h] \in Seq(Operation) /\ sent[h] \in Seq(Message)
  BY DEF Basis, CallInv, Paired, HostInv, ClientTypeOK
<1>1. CASE q # h
  <2>1. UNCHANGED <<ops[h], rtc[h], sent[h]>>
    BY <1>0, <1>1, PageFrame
  <2>2. rtc'[p].local = rtc[p].local \/ rtc[p].local = None
    BY <1>0, PageFrame, LocalOnce
  <2>3. rtc[p].local = None => rtc[h].remote = None /\ \A o \in Range(ops[h]) : o.op # "set_remote_offer"
    <3>1. \A o \in Range(ops[h]) : o.op = "set_remote_offer" => o.desc # None /\ o.desc = rtc[p].local
      BY <1>0, NoneIsNoDescription DEF PageInv, MayRun, HostInv
    <3>2. rtc[h].remote # None => rtc[h].remote = rtc[p].local
      BY DEF HostInv
    <3> QED BY <3>1, <3>2
  <2> QED BY <1>0, <2>1, <2>2, <2>3, HostKeeps
<1>2. CASE q = h /\ ~RunOperation(h)
  <2>1. rtc'[p].local = rtc[p].local
    BY <1>0, <1>2, PageFrame
  <2>2. /\ Keeps(h)
        /\ ops'[h] = ops[h] \/ \E x : Queues(h, x) /\ x.op = "create_offer"
        /\ sent'[h] = sent[h] \/ \E m : Says(h, m) /\ m.kind # "VideoAnswer"
    <3>1. CASE CameraGranted(h)
      BY <1>0, <3>1, CameraEffect
    <3>2. CASE Requested(h)
      BY <3>2 DEF Requested, Keeps
    <3>3. CASE Turned(h) \/ Shows(h)
      BY <3>3 DEF Turned, Shows, Keeps
    <3>4. CASE Found(h)
      BY <3>4 DEF Found, Keeps
    <3> QED BY <1>0, <1>2, <3>1, <3>2, <3>3, <3>4, PageCases
  <2>3. /\ OnceAmong(ops'[h], Answering)
        /\ \A o \in Range(ops'[h]) : o \in Range(ops[h]) \/ o.op \notin Answering
    <3>1. CASE ops'[h] = ops[h]
      BY <1>0, <3>1
    <3>2. ASSUME NEW x, Queues(h, x), x.op = "create_offer"
          PROVE  /\ OnceAmong(ops'[h], Answering)
                 /\ \A o \in Range(ops'[h]) : o \in Range(ops[h]) \/ o.op \notin Answering
      <4>1. x.op \notin Answering /\ ops'[h] = Append(ops[h], x) /\ x \in Operation
        BY <3>2 DEF Answering, Queues
      <4>2. Range(ops'[h]) = Range(ops[h]) \cup {x} /\ OnceAmong(ops'[h], Answering)
        BY <1>0, <4>1, AppendRange, OnceAmongAppend
      <4> QED BY <4>1, <4>2
    <3> QED BY <2>2, <3>1, <3>2
  <2>4. \A m \in Range(sent'[h]) : m \in Range(sent[h]) \/ m.kind # "VideoAnswer"
    <3>1. ASSUME NEW m, Says(h, m), m.kind # "VideoAnswer"
          PROVE  \A w \in Range(sent'[h]) : w \in Range(sent[h]) \/ w.kind # "VideoAnswer"
      <4>1. CASE sent' = sent
        BY <4>1
      <4>2. CASE sent'[h] = Append(sent[h], m) /\ m \in Message
        <5>1. Range(sent'[h]) = Range(sent[h]) \cup {m}
          BY <1>0, <4>2, AppendRange
        <5> QED BY <3>1, <5>1
      <4> QED BY <3>1, <4>1, <4>2 DEF Says
    <3>2. CASE sent'[h] = sent[h]
      BY <3>2
    <3> QED BY <2>2, <3>1, <3>2
  <2> QED BY <1>0, <2>1, <2>2, <2>3, <2>4, HostKeeps DEF Keeps
<1>3. CASE q = h /\ RunOperation(h)
  BY <1>3, HostOperation
<1> QED BY <1>1, <1>2, <1>3

\* What is read or composed is p's one offer, which was still to be read.
LEMMA AwaitedRead ==
  ASSUME WellBehaved, Basis, HistoryGrows, NEW p \in UserID, NEW h \in UserID, Paired(p, h),
         OfferInv(p), NEW c \in UserID, ServerReads(c), [CallNext]_callVars, Awaited(p, h)'
  PROVE  Awaited(p, h)
<1> DEFINE n == received[c] + 1
           m == sent[c][n]
<1>1. /\ pc[c] = "serving" /\ out' = out /\ sent' = sent
      /\ \A u \in UserID : u # c => pc'[u] = pc[u] /\ envelope'[u] = envelope[u] /\ received'[u] = received[u]
      /\ n \in DOMAIN sent[c] /\ received'[c] = n /\ received[c] \in Nat
      /\ pc'[c] = "sending" =>
           \/ m.kind \in Relayed /\ envelope'[c].msg = Wire(c, n)
           \/ m.kind = "SessionNew" /\ envelope'[c].msg.kind = "SessionReady"
           \/ m.kind = "SessionJoin" /\ envelope'[c].msg.kind \in {"SessionJoinSuccess", "SessionJoinError"}
  BY ReadComposes DEF Basis, clientVars
<1>2. OfferRead(p, h) => OfferRead(p, h)'
  <2>1. received[p] \in Nat
    BY DEF Basis, OrderInv, TypeOK
  <2>2. received'[p] \in Nat /\ received[p] <= received'[p]
    BY <1>1, <2>1
  <2> QED BY <2>1, <2>2, ReadStays DEF Basis
<1>3. OfferQueued(h)' => OfferQueued(h)
  BY <1>1 DEF OfferQueued
<1>4. ASSUME OfferComposed(p, h)', c # p PROVE OfferComposed(p, h)
  <2>1. pc[p] = "sending" /\ envelope[p].msg.kind = "VideoOffer" /\ host_of'[envelope[p].msg.session] = h
    BY <1>1, <1>4 DEF OfferComposed, Hosting
  <2>2. envelope[p].msg.kind \in Relayed
    BY <2>1 DEF Relayed
  <2>3. envelope[p].msg.by = p /\ IsSent(envelope[p].msg)
    BY <2>1, <2>2, Composed
  <2>4. Joined(p, envelope[p].msg.session)
    BY <2>1, <2>3, PairSpeaks DEF IsSent
  <2>5. host_of'[envelope[p].msg.session] = host_of[envelope[p].msg.session] /\ envelope[p].msg.session \in SessionID
    BY <2>4, HostStands
  <2> QED BY <2>1, <2>5 DEF OfferComposed, Hosting
<1>5. ASSUME OfferComposed(p, h)', c = p PROVE ~OfferRead(p, h)
  <2>1. m.kind = "VideoOffer"
    BY <1>1, <1>5 DEF OfferComposed, Wire
  <2>2. \A i \in DOMAIN sent[p] : sent[p][i].kind = "VideoOffer" => i = n
    BY <1>1, <1>5, <2>1 DEF OfferInv, Once
  <2>3. ~(n <= received[p])
    BY <1>1, <1>5
  <2> QED BY <2>2, <2>3 DEF OfferRead, Asks
<1> QED BY <1>2, <1>3, <1>4, <1>5 DEF Awaited

LEMMA AwaitedQueue ==
  ASSUME WellBehaved, Basis, HistoryGrows, NEW p \in UserID, NEW h \in UserID, Paired(p, h),
         OfferInv(p), NEW q \in UserID, [CallNext]_callVars, Awaited(p, h)',
         (Forward(q) /\ socket[q] # "open") \/ Deliver(q) \/ ReplyWithID(q) \/ End(q),
         UNCHANGED clientVars
  PROVE  Awaited(p, h)
<1>0. CallInv /\ received[p] \in Nat
  BY DEF Basis, OrderInv, TypeOK
<1>1. /\ UNCHANGED <<received, host_of, guests_of>>
      /\ \A u \in UserID : pc'[u] = "sending" => pc[u] = "sending" /\ envelope'[u] = envelope[u]
      /\ out[h] \in Seq(SignalEnum)
      /\ \/ out'[h] = out[h]
         \/ out[h] # << >> /\ out'[h] = Tail(out[h])
         \/ NewUser(h) \in SignalEnum /\ out'[h] = Append(out[h], NewUser(h))
         \/ out'[h] = << >>
         \/ /\ Deliver(q) /\ h = Addressee(q) /\ envelope[q].msg \in SignalEnum
            /\ out'[h] = Append(out[h], envelope[q].msg)
  BY <1>0, QueueEffect
<1>2. OfferRead(p, h) => OfferRead(p, h)'
  BY <1>0, <1>1, ReadStays
<1>3. OfferComposed(p, h)' => OfferComposed(p, h)
  BY <1>1 DEF OfferComposed, Hosting
<1>4. ASSUME OfferQueued(h)', ~OfferQueued(h) PROVE OfferComposed(p, h)
  <2>1. PICK m \in Range(out'[h]) : m.kind = "VideoOffer"
    BY <1>4 DEF OfferQueued
  <2>2. m \notin Range(out[h])
    BY <1>4, <2>1 DEF OfferQueued
  <2>3. CASE out[h] # << >> /\ out'[h] = Tail(out[h])
    BY <1>1, <2>1, <2>2, <2>3, TailRange
  <2>4. CASE NewUser(h) \in SignalEnum /\ out'[h] = Append(out[h], NewUser(h))
    <3>1. Range(out'[h]) = Range(out[h]) \cup {NewUser(h)}
      BY <1>1, <2>4, AppendRange
    <3> QED BY <2>1, <2>2, <3>1 DEF NewUser
  <2>5. CASE /\ Deliver(q) /\ h = Addressee(q) /\ envelope[q].msg \in SignalEnum
             /\ out'[h] = Append(out[h], envelope[q].msg)
    <3>1. Range(out'[h]) = Range(out[h]) \cup {envelope[q].msg}
      BY <1>1, <2>5, AppendRange
    <3>2. m = envelope[q].msg /\ pc[q] = "sending" /\ m.kind \in Relayed /\ m.kind \in SessionKinds
      BY <2>1, <2>2, <2>5, <3>1 DEF Deliver, Relayed, SessionKinds
    <3>3. m.by = q /\ IsSent(m) /\ For(h, m, host_of, guests_of)
      BY <2>5, <3>2, Composed
    <3>4. Hosting(h, m.session)
      BY <2>1, <3>2, <3>3 DEF For, Concerns, Hosting
    <3>5. Joined(q, m.session)
      BY <2>1, <3>3, PairSpeaks DEF IsSent
    <3>6. q = p
      BY <3>4, <3>5, PairSpeaks
    <3> QED BY <2>1, <3>2, <3>4, <3>6 DEF OfferComposed
  <2>6. CASE out'[h] = << >>
    BY <2>1, <2>6 DEF Range
  <2> QED BY <1>1, <2>1, <2>2, <2>3, <2>4, <2>5, <2>6
<1> QED BY <1>2, <1>3, <1>4 DEF Awaited

\* The page of h takes a message from its queue.
LEMMA HostHandles ==
  ASSUME Basis, HistoryGrows, NEW p \in UserID, NEW h \in UserID, Paired(p, h), OfferInv(p),
         HostInv(p, h), Handles(h), [CallNext]_callVars
  PROVE  HostInv(p, h)'
<1> DEFINE m == Head(out[h])
<1>0. /\ CallInv /\ ClientTypeOK /\ p # h /\ received[p] \in Nat
      /\ OnceAmong(ops[h], Answering) /\ ops[h] \in Seq(Operation)
  BY DEF Basis, CallInv, Paired, HostInv, ClientTypeOK, OrderInv, TypeOK
<1>1. /\ m \in SignalEnum /\ m \in Range(out[h]) /\ out[h] \in Seq(SignalEnum) /\ out[h] # << >>
      /\ out' = [out EXCEPT ![h] = Tail(out[h])]
      /\ m.kind \in {"VideoOffer", "VideoAnswer"} => Text(m) = sent[m.by][m.seq].desc /\ Text(m) \in Description
      /\ UNCHANGED <<sent, rtc, pc, envelope, received, host_of>>
      /\ \/ /\ m.kind \in Relayed
            /\ \E x : Queues(h, x) /\ x.session = m.session /\ Brought(m, x)
         \/ m.kind \notin Relayed /\ ops' = ops
  BY <1>0, Handed DEF Relayed
<1>2. out'[h] = Tail(out[h]) /\ Range(out'[h]) \subseteq Range(out[h])
  BY <1>0, <1>1, TailRange DEF Basis, OrderInv, TypeOK
<1>3. OfferRead(p, h) => OfferRead(p, h)'
  BY <1>0, <1>1, ReadStays
<1>4. OfferComposed(p, h)' => OfferComposed(p, h)
  BY <1>1 DEF OfferComposed, Hosting
<1>5. Awaited(p, h)' => Awaited(p, h)
  BY <1>2, <1>3, <1>4 DEF Awaited, OfferQueued
<1>6. CASE m.kind # "VideoOffer"
  <2>1. /\ OnceAmong(ops'[h], Answering)
        /\ \A o \in Range(ops'[h]) : o \in Range(ops[h]) \/ o.op \notin Answering
    <3>1. CASE ops' = ops
      BY <1>0, <3>1
    <3>2. ASSUME NEW x, Queues(h, x), Brought(m, x)
          PROVE  /\ OnceAmong(ops'[h], Answering)
                 /\ \A o \in Range(ops'[h]) : o \in Range(ops[h]) \/ o.op \notin Answering
      <4>1. x.op \notin Answering /\ ops'[h] = Append(ops[h], x) /\ x \in Operation
        BY <1>6, <3>2 DEF Answering, Queues, Brought
      <4>2. Range(ops'[h]) = Range(ops[h]) \cup {x} /\ OnceAmong(ops'[h], Answering)
        BY <1>0, <4>1, AppendRange, OnceAmongAppend
      <4> QED BY <4>1, <4>2
    <3> QED BY <1>1, <3>1, <3>2
  <2>2. Awaited(p, h)' => Untouched(h)
    BY <1>5 DEF HostInv
  <2> QED BY <1>1, <2>1, <2>2, HostKeeps
<1>7. CASE m.kind = "VideoOffer"
  <2>1. 1 \in DOMAIN out[h] /\ m = out[h][1]
    BY <1>1, TailSeq
  <2>2. /\ Hosting(h, m.session) /\ Joined(p, m.session) /\ m.by = p
        /\ sent[m.by][m.seq].desc = rtc[p].local
        /\ OfferRead(p, h) /\ ~OfferComposed(p, h)
        /\ \A j \in DOMAIN out[h] : out[h][j].kind = "VideoOffer" => j = 1
    BY <1>7, <2>1, OfferArrives
  <2>3. \A i \in DOMAIN Tail(out[h]) : Tail(out[h])[i].kind # "VideoOffer"
    <3>1. \A i \in DOMAIN Tail(out[h]) : i + 1 \in DOMAIN out[h] /\ i + 1 # 1 /\ Tail(out[h])[i] = out[h][i + 1]
      BY <1>1, TailSeq
    <3> QED BY <2>2, <3>1
  <2>4. ~Awaited(p, h)'
    <3>1. ~OfferQueued(h)'
      BY <1>2, <2>3 DEF OfferQueued, Range
    <3> QED BY <1>3, <1>4, <2>2, <3>1 DEF Awaited
  <2>5. Untouched(h)
    BY <1>1, <1>7 DEF HostInv, Awaited, OfferQueued
  <2>6. m.kind \in Relayed
    BY <1>7 DEF Relayed
  <2>7. PICK x : Queues(h, x) /\ x.session = m.session /\ Brought(m, x)
    BY <1>1, <2>6
  <2>8. x.op = "set_remote_offer" /\ x.desc = rtc[p].local /\ ops'[h] = Append(ops[h], x) /\ x \in Operation
    BY <1>1, <1>7, <2>2, <2>7 DEF Brought, Queues
  <2>9. \A o \in Range(ops[h]) : o.op \notin Answering
    BY <2>5 DEF Untouched, Idle
  <2>10. Range(ops'[h]) = Range(ops[h]) \cup {x} /\ OnceAmong(ops'[h], Answering)
    BY <1>0, <2>8, <2>9, AppendRange, OnceAmongAppend
  <2>11. \A s : Joined(p, s) => Joined(p, s)'
    BY PagesStable
  <2>12. ASSUME NEW o \in Range(ops'[h])
         PROVE  /\ o.op \in Answering => Joined(p, o.session)' /\ rtc'[h].local = None
                /\ o.op = "set_remote_offer" => rtc'[h].remote = None /\ o.desc = rtc'[p].local
                /\ o.op \in {"create_answer", "set_local_answer"} => rtc'[h].remote # None
                /\ o.op = "set_local_answer" => AnswerTo(o.desc, rtc'[h].remote)
    <3>1. CASE o = x
      BY <1>1, <2>2, <2>5, <2>7, <2>8, <2>11, <3>1 DEF Untouched
    <3>2. CASE o \in Range(ops[h])
      BY <2>9, <3>2 DEF Answering
    <3> QED BY <2>10, <2>12, <3>1, <3>2
  <2>13. rtc'[h].local = None /\ rtc'[h].remote = None
    BY <1>1, <2>5 DEF Untouched
  <2>14. \A w \in Range(sent'[h]) : w.kind # "VideoAnswer"
    BY <1>1, <2>5 DEF HostInv, Untouched
  <2> QED BY <2>4, <2>10, <2>12, <2>13, <2>14 DEF HostInv, AnswerTo
<1> QED BY <1>6, <1>7

LEMMA HostNext ==
  ASSUME WellBehaved, Basis, HistoryGrows, NEW p \in UserID, NEW h \in UserID, Paired(p, h),
         OfferInv(p), HostInv(p, h), [CallNext]_callVars
  PROVE  HostInv(p, h)'
<1>0. /\ CallInv /\ ClientTypeOK /\ p # h /\ received[p] \in Nat /\ OnceAmong(ops[h], Answering)
      /\ Awaited(p, h) => Untouched(h)
  BY DEF Basis, CallInv, Paired, HostInv, OrderInv, TypeOK
<1>1. ASSUME UNCHANGED <<ops[h], rtc[h], sent[h], rtc[p]>>, Awaited(p, h)' => Awaited(p, h)
      PROVE  HostInv(p, h)'
  BY <1>0, <1>1, HostKeeps
<1>2. ASSUME UNCHANGED <<received, host_of, sent, out>>,
             \A u \in UserID : pc'[u] = "sending" => pc[u] = "sending" /\ envelope'[u] = envelope[u]
      PROVE  Awaited(p, h)' => Awaited(p, h)
  BY <1>2 DEF Awaited, OfferRead, OfferComposed, OfferQueued, Asks, Hosting
<1>3. CASE Calm
  <2>1. UNCHANGED <<ops[h], rtc[h], sent[h], rtc[p]>>
    BY <1>3 DEF Calm
  <2>2. Awaited(p, h)' => Awaited(p, h)
    BY <1>2, <1>3 DEF Calm
  <2> QED BY <1>1, <2>1, <2>2
<1>4. ASSUME NEW q \in UserID, PageStep(q), UNCHANGED vars PROVE HostInv(p, h)'
  <2>1. OfferRead(p, h) => OfferRead(p, h)'
    BY <1>0, <1>4, ReadStays DEF vars
  <2>2. Awaited(p, h)' => Awaited(p, h)
    BY <1>4, <2>1 DEF Awaited, OfferComposed, OfferQueued, Hosting, vars, history
  <2> QED BY <1>4, <2>2, HostPages
<1>5. ASSUME NEW c \in UserID, ServerReads(c) PROVE HostInv(p, h)'
  <2>1. UNCHANGED <<ops[h], rtc[h], sent[h], rtc[p]>>
    BY <1>5 DEF ServerReads, clientVars
  <2> QED BY <1>1, <1>5, <2>1, AwaitedRead
<1>6. ASSUME NEW q \in UserID, Handles(q), q # h PROVE HostInv(p, h)'
  <2>1. UNCHANGED <<ops[h], sent[h]>>
    BY <1>0, <1>6, PageFrame DEF Handles
  <2>2. UNCHANGED <<rtc, sent, received, host_of, pc, envelope>> /\ out' = [out EXCEPT ![q] = Tail(out[q])]
    BY <1>0, <1>6, Handed
  <2>3. out'[h] = out[h]
    BY <1>6, <2>2 DEF Basis, OrderInv, TypeOK
  <2>4. Awaited(p, h)' => Awaited(p, h)
    BY <2>2, <2>3 DEF Awaited, OfferRead, OfferComposed, OfferQueued, Asks, Hosting
  <2> QED BY <1>1, <2>1, <2>2, <2>4
<1>7. CASE Handles(h)
  BY <1>7, HostHandles
<1>8. ASSUME NEW q \in UserID, UNCHANGED clientVars,
             (Forward(q) /\ socket[q] # "open") \/ Deliver(q) \/ ReplyWithID(q) \/ End(q)
      PROVE  HostInv(p, h)'
  <2>1. UNCHANGED <<ops[h], rtc[h], sent[h], rtc[p]>>
    BY <1>8 DEF clientVars
  <2>2. Awaited(p, h)' => Awaited(p, h)
    BY <1>8, AwaitedQueue
  <2> QED BY <1>1, <2>1, <2>2
<1> QED BY <1>0, <1>3, <1>4, <1>5, <1>6, <1>7, <1>8, Steps

-------------------------------------------------------------------------------
(* The guest's side of the negotiation. *)

\* The host sets its local description once.
LEMMA AnswerOnce ==
  ASSUME Basis, NEW p \in UserID, NEW h \in UserID, Listener(h), HostInv(p, h), PageStep(h)
  PROVE  rtc'[h].local = rtc[h].local \/ rtc[h].local = None
<1>0. ClientTypeOK /\ PageInv(h)
  BY DEF Basis, CallInv
<1>1. CASE RunOperation(h)
  <2> DEFINE o == Head(ops[h])
  <2>1. Effect(h) /\ o \in Range(ops[h])
    BY <1>0, <1>1, OperationEffect
  <2>2. o.op \notin Offering
    BY <2>1, ListenerAnswers
  <2>3. o.op = "set_local_answer" => rtc[h].local = None
    BY <2>1 DEF HostInv, Answering
  <2> HIDE DEF o
  <2>4. o.op # "set_local_answer" => rtc'[h].local = rtc[h].local
    BY <2>1, <2>2, ZenonT(60) DEF Effect, Keeps, Offering, o
  <2> QED BY <2>3, <2>4
<1>2. CASE CameraGranted(h)
  BY <1>0, <1>2, CameraEffect DEF Keeps
<1>3. CASE UNCHANGED rtc
  BY <1>3
<1> QED BY <1>0, <1>1, <1>2, <1>3, PageCases DEF Requested, Turned, Found, Shows

\* A member of a session does not become the guest of another host.
LEMMA MemberLinked ==
  ASSUME WellBehaved, Basis, HistoryGrows, NEW p \in UserID, NEW h \in UserID, Initiator(p), Member(p),
         [CallNext]_callVars, Linked(p, h)'
  PROVE  Linked(p, h)
<1>0. CallInv /\ ClickInv /\ clicks[p]["start"] = 0 /\ clicks[p]["connect"] <= 1 /\ clicks[p]["connect"] \in Nat
  BY Onward DEF Basis, Initiator, Button
<1>1. PICK s \in SessionID : Joined(p, s)
  BY <1>0, NoPart DEF Member
<1>2. PICK t \in SessionID : host_of'[t] = h /\ p \in guests_of'[t]
  BY DEF Linked, Hosting, Joined
<1>3. ASSUME p \notin guests_of[t] PROVE FALSE
  <2>1. guests_of' # guests_of
    BY <1>2, <1>3
  <2>2. PICK c \in UserID : ServerReads(c)
    <3>1. Calm => guests_of' = guests_of
      BY DEF Calm
    <3>2. \A q \in UserID : Handles(q) => guests_of' = guests_of
      BY <1>0, Handed
    <3>3. \A q \in UserID :
            (Forward(q) /\ socket[q] # "open") \/ Deliver(q) \/ ReplyWithID(q) \/ End(q) => guests_of' = guests_of
      BY <1>0, QueueEffect
    <3>4. UNCHANGED vars => guests_of' = guests_of
      BY DEF vars, history
    <3> QED BY <1>0, <2>1, <3>1, <3>2, <3>3, <3>4, Steps
  <2> DEFINE n == received[c] + 1
  <2>3. /\ Asks(c, n, "SessionJoin") /\ n \in DOMAIN sent[c]
        /\ guests_of' = [guests_of EXCEPT ![sent[c][n].session] = @ \cup {c}]
    BY <1>0, <2>1, <2>2, ReadEffect DEF WellBehaved
  <2>4. guests_of \in [SessionID -> SUBSET UserID]
    BY DEF Basis, OrderInv, TypeOK
  <2>5. sent[c][n].session = t /\ c = p
    BY <1>2, <1>3, <2>3, <2>4
  <2>6. PICK i \in DOMAIN sent[p] : Asks(p, i, "SessionJoin") /\ sent[p][i].session = s
    BY <1>0, <1>1 DEF ClickInv, Seated
  <2>7. s # t
    BY <1>1, <1>3 DEF Joined
  <2>8. i # n
    BY <2>5, <2>6, <2>7
  <2>9. clicks[p]["connect"] > 1
    BY <1>0, <2>3, <2>5, <2>6, <2>8 DEF ClickInv, Clicked
  <2> QED BY <1>0, <2>9
<1>4. Joined(p, t)
  BY <1>3 DEF Joined
<1>5. Hosting(h, t)
  BY <1>2, <1>4, HostStands DEF Hosting
<1> QED BY <1>4, <1>5 DEF Linked

\* A step that brings p no answer, and leaves that of h as it is.
LEMMA GuestKeeps ==
  ASSUME WellBehaved, Basis, HistoryGrows, [CallNext]_callVars, NEW p \in UserID, NEW h \in UserID,
         Initiator(p), GuestInv(p, h), rtc'[p].remote = rtc[p].remote,
         rtc'[h].local = rtc[h].local \/ rtc[h].local = None,
         \A o \in Range(ops'[p]) : o.op = "set_remote_answer" => o \in Range(ops[p])
  PROVE  GuestInv(p, h)'
<1>1. Told(p)
  BY DEF Basis, PageFacts
<1>2. ASSUME NEW o \in Range(ops'[p]), o.op = "set_remote_answer", Hosting(h, o.session)'
      PROVE  o.desc = rtc'[h].local /\ o.desc # None
  <2>1. o \in Range(ops[p]) /\ Joined(p, o.session)
    BY <1>1, <1>2 DEF Told
  <2>2. Hosting(h, o.session)
    BY <1>2, <2>1, HostStands DEF Hosting
  <2> QED BY <1>2, <2>1, <2>2 DEF GuestInv
<1>3. ASSUME Linked(p, h)', rtc'[p].remote # None PROVE rtc'[p].remote = rtc'[h].local
  <2>1. Member(p)
    BY <1>1, <1>3 DEF Told
  <2>2. Linked(p, h)
    BY <1>3, <2>1, MemberLinked
  <2> QED BY <1>3, <2>2 DEF GuestInv
<1> QED BY <1>2, <1>3 DEF GuestInv

\* The page of p carries out an operation.
LEMMA GuestOperation ==
  ASSUME WellBehaved, Basis, HistoryGrows, [CallNext]_callVars, UNCHANGED vars,
         NEW p \in UserID, NEW h \in UserID, Paired(p, h), GuestInv(p, h), RunOperation(p)
  PROVE  GuestInv(p, h)'
<1> DEFINE o == Head(ops[p])
<1>0. /\ CallInv /\ ClickInv /\ ClientTypeOK /\ PageInv(p) /\ Initiator(p) /\ p # h /\ Told(p)
      /\ clicks[p]["connect"] <= 1
  BY DEF Basis, CallInv, PageFacts, Paired, Initiator
<1>1. Effect(p) /\ o \in Range(ops[p]) /\ o \in Operation
  BY <1>0, OperationEffect
<1>2. o.op \notin Answering
  BY <1>0, <1>1, InitiatorOffers
<1>3. rtc'[h].local = rtc[h].local
  BY <1>0, PageFrame DEF PageStep
<1>4. \A y \in Range(ops'[p]) : y.op = "set_remote_answer" => y \in Range(ops[p])
  BY <1>0, OpsAfter
<1> HIDE DEF o
<1>5. \/ rtc'[p].remote = rtc[p].remote
      \/ o.op = "set_remote_answer" /\ rtc'[p].remote = o.desc
  BY <1>1, <1>2, ZenonT(60) DEF Effect, Keeps, Answering, o
<1>6. CASE rtc'[p].remote = rtc[p].remote
  BY <1>0, <1>3, <1>4, <1>6, GuestKeeps
<1>7. CASE o.op = "set_remote_answer" /\ rtc'[p].remote = o.desc
  <2>1. Joined(p, o.session) /\ o.session \in SessionID
    BY <1>0, <1>1, <1>7 DEF Told, Joined
  <2>2. UNCHANGED <<host_of, guests_of>>
    BY DEF vars, history
  <2>3. Linked(p, h) => Hosting(h, o.session)
    <3>1. ASSUME NEW s \in SessionID, Hosting(h, s), Joined(p, s) PROVE s = o.session
      BY <1>0, <2>1, <3>1, OneSeat
    <3> QED BY <3>1 DEF Linked
  <2>4. Linked(p, h)' => rtc'[p].remote = rtc'[h].local
    BY <1>1, <1>3, <1>7, <2>2, <2>3 DEF GuestInv, Linked, Hosting, Joined
  <2>5. \A y \in Range(ops'[p]) : y.op = "set_remote_answer" /\ Hosting(h, y.session)' =>
          y.desc = rtc'[h].local /\ y.desc # None
    BY <1>3, <1>4, <2>2 DEF GuestInv, Hosting
  <2> QED BY <2>4, <2>5 DEF GuestInv
<1> QED BY <1>5, <1>6, <1>7

\* The answer that p is given is that of h.
LEMMA GuestHandles ==
  ASSUME WellBehaved, Basis, HistoryGrows, [CallNext]_callVars, NEW p \in UserID, NEW h \in UserID,
         Paired(p, h), HostInv(p, h), GuestInv(p, h), Handles(p)
  PROVE  GuestInv(p, h)'
<1> DEFINE m == Head(out[p])
<1>0. /\ CallInv /\ ClientTypeOK /\ Initiator(p) /\ Told(p) /\ ops[p] \in Seq(Operation)
  BY DEF Basis, CallInv, PageFacts, Paired, ClientTypeOK
<1>1. /\ m.kind \in Relayed => IsSent(m)
      /\ m.kind \in {"VideoOffer", "VideoAnswer"} => Text(m) = sent[m.by][m.seq].desc /\ Text(m) \in Description
      /\ UNCHANGED <<rtc, host_of, guests_of>>
      /\ \/ \E x : Queues(p, x) /\ x.session = m.session /\ Brought(m, x)
         \/ ops' = ops
  BY <1>0, Handed
<1>2. CASE ops' = ops
  BY <1>0, <1>1, <1>2, GuestKeeps
<1>3. ASSUME NEW x, Queues(p, x), x.session = m.session, Brought(m, x) PROVE GuestInv(p, h)'
  <2>1. Range(ops'[p]) = Range(ops[p]) \cup {x}
    BY <1>0, <1>3, AppendRange DEF Queues
  <2>2. CASE m.kind # "VideoAnswer"
    <3>1. x.op # "set_remote_answer"
      BY <1>3, <2>2 DEF Brought
    <3> QED BY <1>0, <1>1, <2>1, <3>1, GuestKeeps
  <2>3. CASE m.kind = "VideoAnswer"
    <3>1. x.desc = Text(m) /\ m.kind \in Relayed
      BY <1>3, <2>3 DEF Brought, Relayed
    <3>2. IsSent(m) /\ Text(m) = sent[m.by][m.seq].desc
      BY <1>1, <2>3, <3>1
    <3>3. Hosting(m.by, m.session)
      <4>1. /\ m.by \in UserID /\ m.seq \in DOMAIN sent[m.by]
            /\ sent[m.by][m.seq].kind = "VideoAnswer" /\ sent[m.by][m.seq].session = m.session
        BY <2>3, <3>2 DEF IsSent
      <4> QED BY <4>1, PairSpeaks
    <3>4. ASSUME Hosting(h, x.session) PROVE x.desc = rtc[h].local /\ x.desc # None
      <4>1. m.by = h
        BY <1>3, <3>3, <3>4 DEF Hosting
      <4>2. sent[h][m.seq] \in Range(sent[h]) /\ sent[h][m.seq].kind = "VideoAnswer"
        BY <2>3, <3>2, <4>1 DEF IsSent, Range
      <4> QED BY <3>1, <3>2, <4>1, <4>2 DEF HostInv
    <3>5. \A o \in Range(ops'[p]) : o.op = "set_remote_answer" /\ Hosting(h, o.session)' =>
            o.desc = rtc'[h].local /\ o.desc # None
      BY <1>1, <2>1, <3>4 DEF GuestInv, Hosting
    <3>6. Linked(p, h)' /\ rtc'[p].remote # None => rtc'[p].remote = rtc'[h].local
      BY <1>1 DEF GuestInv, Linked, Hosting, Joined
    <3> QED BY <3>5, <3>6 DEF GuestInv
  <2> QED BY <2>2, <2>3
<1> QED BY <1>1, <1>2, <1>3

LEMMA GuestNext ==
  ASSUME WellBehaved, Basis, HistoryGrows, NEW p \in UserID, NEW h \in UserID, Paired(p, h),
         HostInv(p, h), GuestInv(p, h), [CallNext]_callVars
  PROVE  GuestInv(p, h)'
<1>0. CallInv /\ ClientTypeOK /\ p # h /\ Initiator(p) /\ Listener(h) /\ ops[p] \in Seq(Operation)
  BY DEF Basis, CallInv, Paired, ClientTypeOK
<1>1. ASSUME UNCHANGED <<ops[p], rtc[p], rtc[h]>> PROVE GuestInv(p, h)'
  BY <1>0, <1>1, GuestKeeps
<1>2. ASSUME NEW q \in UserID, PageStep(q), q # p PROVE GuestInv(p, h)'
  <2>1. UNCHANGED <<ops[p], rtc[p]>>
    BY <1>0, <1>2, PageFrame
  <2>2. rtc'[h].local = rtc[h].local \/ rtc[h].local = None
    BY <1>0, <1>2, PageFrame, AnswerOnce
  <2> QED BY <1>0, <2>1, <2>2, GuestKeeps
<1>3. ASSUME PageStep(p), UNCHANGED vars PROVE GuestInv(p, h)'
  <2>1. CASE RunOperation(p)
    BY <1>3, <2>1, GuestOperation
  <2>2. rtc'[h].local = rtc[h].local
    BY <1>0, <1>3, PageFrame
  <2>3. CASE UNCHANGED <<ops, rtc>>
    BY <1>0, <2>2, <2>3, GuestKeeps
  <2>4. CASE CameraGranted(p)
    <3>1. Keeps(p) /\ (ops'[p] = ops[p] \/ \E x : Queues(p, x) /\ x.op = "create_offer")
      BY <1>0, <2>4, CameraEffect
    <3>2. ASSUME NEW x, Queues(p, x), x.op = "create_offer"
          PROVE  \A o \in Range(ops'[p]) : o.op = "set_remote_answer" => o \in Range(ops[p])
      <4>1. Range(ops'[p]) = Range(ops[p]) \cup {x}
        BY <1>0, <3>2, AppendRange DEF Queues
      <4> QED BY <3>2, <4>1
    <3>3. \A o \in Range(ops'[p]) : o.op = "set_remote_answer" => o \in Range(ops[p])
      BY <3>1, <3>2
    <3> QED BY <1>0, <2>2, <3>1, <3>3, GuestKeeps DEF Keeps
  <2> QED BY <1>0, <1>3, <2>1, <2>3, <2>4, PageCases DEF Requested, Turned, Found, Shows
<1>4. ASSUME NEW q \in UserID, Handles(q), q # p PROVE GuestInv(p, h)'
  <2>1. ops'[p] = ops[p]
    BY <1>0, <1>4, PageFrame DEF Handles
  <2>2. rtc' = rtc
    BY <1>0, <1>4, Handed
  <2> QED BY <1>1, <2>1, <2>2
<1>5. CASE Handles(p)
  BY <1>5, GuestHandles
<1>6. Calm \/ UNCHANGED clientVars => UNCHANGED <<ops, rtc>>
  BY DEF Calm, clientVars
<1>7. \A q \in UserID : ServerReads(q) => UNCHANGED clientVars
  BY DEF ServerReads
<1> QED BY <1>0, <1>1, <1>2, <1>3, <1>4, <1>5, <1>6, <1>7, Steps

-------------------------------------------------------------------------------
(* Descriptions and candidates from one of the two to the other. *)

PairInv(p, h) == Paired(p, h) /\ OfferInv(p) /\ HostInv(p, h) /\ GuestInv(p, h)

Toward(q, r, p, h, kind, op) ==
  \/ q = p /\ r = h /\ kind = "VideoOffer" /\ op = "set_remote_offer"
  \/ q = h /\ r = p /\ kind = "VideoAnswer" /\ op = "set_remote_answer"

LEMMA FollowsFewer ==
  ASSUME NEW q, NEW late, NEW fewer, NEW early, Follows(q, late, early),
         \A i \in DOMAIN q : q[i] \in fewer => q[i] \in late
  PROVE  Follows(q, fewer, early)
BY DEF Follows

\* The answer of h fits the offer that p has made.
LEMMA AnswersFit ==
  ASSUME Basis, NEW p \in UserID, NEW h \in UserID, PairInv(p, h), Linked(p, h), ops[p] # << >>,
         Head(ops[p]) \in Range(ops[p]), Head(ops[p]).op = "set_remote_answer", rtc[p].remote = None
  PROVE  AnswerFits(p)
<1> DEFINE o == Head(ops[p])
<1>1. Joined(p, o.session) /\ o.session \in SessionID
  BY DEF Basis, PageFacts, Told, Joined
<1>2. Hosting(h, o.session)
  <2>1. PICK s \in SessionID : Hosting(h, s) /\ Joined(p, s)
    BY DEF Linked
  <2>2. s = o.session
    BY <1>1, <2>1, OneSeat DEF Basis, PairInv, Paired, Initiator
  <2> QED BY <2>1, <2>2
<1>3. o.desc = rtc[h].local /\ o.desc # None
  BY <1>2 DEF PairInv, GuestInv
<1>4. rtc[h].remote # None /\ o.desc.lines = rtc[h].remote.lines /\ rtc[h].remote = rtc[p].local
  BY <1>3 DEF PairInv, HostInv, AnswerTo
<1>5. rtc[p].signaling = "have-local-offer"
  BY <1>4 DEF PairInv, OfferInv
<1> QED BY <1>4, <1>5 DEF AnswerFits, Current

\* Carrying out the operation that brings r the description sets it.
LEMMA OperationSets ==
  ASSUME Basis, NEW p \in UserID, NEW h \in UserID, PairInv(p, h),
         NEW q, NEW r \in UserID, NEW kind, NEW op, Toward(q, r, p, h, kind, op),
         r = p => Linked(p, h), RunOperation(r), Head(ops[r]).op = op, rtc[r].remote = None
  PROVE  rtc'[r].remote # None
<1> DEFINE o == Head(ops[r])
<1>0. ClientTypeOK /\ PageInv(r) /\ Told(r)
  BY DEF Basis, CallInv, PageFacts
<1>1. Effect(r) /\ o \in Range(ops[r]) /\ ops[r] # << >>
  BY <1>0, OperationEffect
<1>2. CASE op = "set_remote_offer"
  <2>1. o.op = "set_remote_offer" /\ o.desc # None
    BY <1>0, <1>1, <1>2, NoneIsNoDescription DEF PageInv, MayRun
  <2> HIDE DEF o
  <2>2. rtc'[r].remote = o.desc
    BY <1>1, <2>1, ZenonT(60) DEF Effect, o
  <2> QED BY <2>1, <2>2
<1>3. CASE op = "set_remote_answer"
  <2>1. o.op = "set_remote_answer" /\ o.desc # None
    BY <1>0, <1>1, <1>3, NoneIsNoDescription DEF Told
  <2>2. r = p /\ Linked(p, h)
    BY <1>3 DEF Toward
  <2>3. AnswerFits(r)
    BY <1>1, <2>1, <2>2, AnswersFit
  <2> HIDE DEF o
  <2>4. rtc'[r].remote = o.desc
    BY <1>1, <2>1, <2>3, ZenonT(60) DEF Effect, o
  <2> QED BY <2>1, <2>4
<1> QED BY <1>2, <1>3 DEF Toward

\* A remote description is replaced and never removed.
LEMMA RemoteStays ==
  ASSUME Basis, NEW r \in UserID, PageStep(r), rtc[r].remote # None
  PROVE  rtc'[r].remote # None
<1>0. ClientTypeOK /\ PageInv(r) /\ Told(r)
  BY DEF Basis, CallInv, PageFacts
<1>1. CASE RunOperation(r)
  <2> DEFINE o == Head(ops[r])
  <2>1. Effect(r) /\ o \in Range(ops[r])
    BY <1>0, <1>1, OperationEffect
  <2>2. o.op \in {"set_remote_offer", "set_remote_answer"} => o.desc # None
    BY <1>0, <2>1, NoneIsNoDescription DEF PageInv, MayRun, Told
  <2> HIDE DEF o
  <2>3. \/ rtc'[r].remote = rtc[r].remote
        \/ o.op \in {"set_remote_offer", "set_remote_answer"} /\ rtc'[r].remote = o.desc
    BY <2>1, ZenonT(60) DEF Effect, Keeps, o
  <2> QED BY <2>2, <2>3
<1>2. CASE CameraGranted(r)
  BY <1>0, <1>2, CameraEffect DEF Keeps
<1>3. CASE UNCHANGED rtc
  BY <1>3
<1> QED BY <1>0, <1>1, <1>2, <1>3, PageCases DEF Requested, Turned, Found, Shows

\* What a step does to the operations of r.
OpsGrow(r) == ops'[r] = ops[r] \/ \E x : Queues(r, x) /\ (x.op = "create_offer" \/ Handles(r))

LEMMA OpsCases ==
  ASSUME Basis, NEW r \in UserID, [CallNext]_callVars
  PROVE  /\ OpsGrow(r) \/ RunOperation(r)
         /\ rtc[r].remote # None => rtc'[r].remote # None
<1>0. CallInv /\ ClientTypeOK /\ PageInv(r)
  BY DEF Basis, CallInv
<1>1. ASSUME PageStep(r)
      PROVE  /\ OpsGrow(r) \/ RunOperation(r)
             /\ rtc[r].remote # None => rtc'[r].remote # None
  <2>1. rtc[r].remote # None => rtc'[r].remote # None
    BY <1>1, RemoteStays
  <2>2. CASE CameraGranted(r)
    <3>1. ops'[r] = ops[r] \/ \E x : Queues(r, x) /\ x.op = "create_offer"
      BY <1>0, <2>2, CameraEffect
    <3> QED BY <2>1, <3>1 DEF OpsGrow
  <2>3. CASE UNCHANGED ops
    BY <2>1, <2>3 DEF OpsGrow
  <2> QED BY <1>0, <1>1, <2>1, <2>2, <2>3, PageCases DEF Requested, Turned, Found, Shows
<1>2. ASSUME UNCHANGED <<ops[r], rtc[r]>>
      PROVE  /\ OpsGrow(r) \/ RunOperation(r)
             /\ rtc[r].remote # None => rtc'[r].remote # None
  BY <1>2 DEF OpsGrow
<1>3. ASSUME NEW q \in UserID, PageStep(q) \/ Handles(q), q # r PROVE UNCHANGED <<ops[r], rtc[r]>>
  BY <1>0, <1>3, PageFrame DEF Handles
<1>4. ASSUME Handles(r)
      PROVE  /\ OpsGrow(r) \/ RunOperation(r)
             /\ rtc[r].remote # None => rtc'[r].remote # None
  <2>1. rtc' = rtc /\ (ops' = ops \/ \E x : Queues(r, x))
    BY <1>0, <1>4, Handed
  <2> QED BY <1>4, <2>1 DEF OpsGrow
<1>5. Calm \/ UNCHANGED clientVars => UNCHANGED <<ops[r], rtc[r]>>
  BY DEF Calm, clientVars
<1>6. \A q \in UserID : ServerReads(q) => UNCHANGED clientVars
  BY DEF ServerReads
<1> QED BY <1>0, <1>1, <1>2, <1>3, <1>4, <1>5, <1>6, Steps

LEMMA TookStays ==
  ASSUME Basis, NEW p \in UserID, NEW h \in UserID, PairInv(p, h),
         NEW q, NEW r \in UserID, NEW kind, NEW op, Toward(q, r, p, h, kind, op),
         r = p => Linked(p, h), [CallNext]_callVars, Took(r, op)
  PROVE  Took(r, op)'
<1>0. ClientTypeOK /\ PageInv(r) /\ ops[r] \in Seq(Operation)
  BY DEF Basis, CallInv, ClientTypeOK
<1>1. CASE rtc[r].remote # None
  BY <1>1, OpsCases DEF Took
<1>2. ASSUME rtc[r].remote = None, NEW o \in Range(ops[r]), o.op = op PROVE Took(r, op)'
  <2>1. CASE ops'[r] = ops[r]
    BY <1>2, <2>1 DEF Took
  <2>2. ASSUME NEW x, Queues(r, x) PROVE Took(r, op)'
    <3>1. Range(ops'[r]) = Range(ops[r]) \cup {x}
      BY <1>0, <2>2, AppendRange DEF Queues
    <3> QED BY <1>2, <3>1 DEF Took
  <2>3. CASE RunOperation(r)
    <3>1. CASE Head(ops[r]).op = op
      BY <1>2, <2>3, <3>1, OperationSets DEF Took
    <3>2. CASE Head(ops[r]).op # op
      <4>1. ops[r] # << >> /\ Effect(r)
        BY <1>0, <2>3, OperationEffect
      <4>2. o \in Range(Tail(ops[r]))
        <5>1. PICK i \in DOMAIN ops[r] : ops[r][i] = o
          BY DEF Range
        <5>2. Head(ops[r]) = ops[r][1] /\ (i = 1 \/ (i - 1 \in DOMAIN Tail(ops[r]) /\ Tail(ops[r])[i - 1] = ops[r][i]))
          BY <1>0, <4>1, TailSeq
        <5> QED BY <1>2, <3>2, <5>1, <5>2 DEF Range
      <4>3. ops'[r] = Tail(ops[r]) \/ \E x \in Operation : ops'[r] = Append(Tail(ops[r]), x)
        BY <4>1, ZenonT(60) DEF Effect, Drops, Goes
      <4>4. o \in Range(ops'[r])
        <5>1. Tail(ops[r]) \in Seq(Operation)
          BY <1>0, <4>1, TailRange
        <5> DEFINE t == Tail(ops[r])
        <5>2. o \in Range(t) /\ t \in Seq(Operation) /\ (ops'[r] = t \/ \E x \in Operation : ops'[r] = Append(t, x))
          BY <4>2, <4>3, <5>1
        <5> HIDE DEF t
        <5>3. ASSUME NEW x \in Operation, ops'[r] = Append(t, x) PROVE o \in Range(ops'[r])
          <6>1. Range(Append(t, x)) = Range(t) \cup {x}
            BY <5>2, AppendRange
          <6> QED BY <5>2, <5>3, <6>1
        <5> QED BY <5>2, <5>3
      <4> QED BY <1>2, <4>4 DEF Took
    <3> QED BY <3>1, <3>2
  <2> QED BY <2>1, <2>2, <2>3, OpsCases DEF OpsGrow
<1> QED BY <1>1, <1>2 DEF Took

\* The operations that add candidates stay behind the one that they need.
LEMMA OpsFollow ==
  ASSUME Basis, NEW p \in UserID, NEW h \in UserID, PairInv(p, h),
         NEW q, NEW r \in UserID, NEW kind, NEW op, Toward(q, r, p, h, kind, op),
         r = p => Linked(p, h), [CallNext]_callVars, host_of' = host_of, Ahead(q, r, h, kind, op)
  PROVE  rtc'[r].remote # None \/ Follows(ops'[r], AdditionsOf(h)', CallsOf(op))
<1> SUFFICES ASSUME rtc'[r].remote = None
             PROVE  Follows(ops'[r], AdditionsOf(h)', CallsOf(op))
  OBVIOUS
<1> DEFINE A == AdditionsOf(h)
           B == CallsOf(op)
<1>0. /\ CallInv /\ ClientTypeOK /\ PageInv(r) /\ ops[r] \in Seq(Operation)
      /\ rtc[r].remote = None /\ AdditionsOf(h)' = A
  BY OpsCases DEF Basis, CallInv, ClientTypeOK, AdditionsOf, Hosting
<1>1. Follows(ops[r], A, B)
  BY <1>0 DEF Ahead
<1>2. \A x : x \in A <=> x \in Operation /\ x.op = "add_ice_candidate" /\ Hosting(h, x.session)
  BY DEF AdditionsOf
<1>3. \A x : x \in B <=> x \in Operation /\ x.op = op
  BY DEF CallsOf
<1> SUFFICES Follows(ops'[r], A, B)
  BY <1>0
<1> HIDE DEF A, B
<1>4. ASSUME ops'[r] = ops[r] PROVE Follows(ops'[r], A, B)
  BY <1>1, <1>4
<1>5. ASSUME NEW x, Queues(r, x), x \in A => \E y \in Range(ops[r]) : y \in B
      PROVE  Follows(ops'[r], A, B)
  BY <1>0, <1>1, <1>5, FollowsAppend DEF Queues
<1>6. CASE Handles(r)
  <2> DEFINE m == Head(out[r])
  <2>1. /\ m \in SignalEnum /\ out[r] \in Seq(SignalEnum) /\ out[r] # << >> /\ socket[r] = "open"
        /\ ops' = ops \/ \E x : Queues(r, x) /\ x.session = m.session /\ Brought(m, x)
    BY <1>0, <1>6, Handed DEF Handles
  <2>2. ASSUME NEW x, Queues(r, x), x.session = m.session, Brought(m, x), x \in A
        PROVE  \E y \in Range(ops[r]) : y \in B
    <3>1. m.kind = "IceCandidate" /\ Hosting(h, m.session)
      BY <1>2, <2>2 DEF Brought
    <3>2. m \in CandidatesOf(h)
      BY <2>1, <3>1 DEF CandidatesOf
    <3>3. ~Follows(out[r], CandidatesOf(h), MessagesOf(kind))
      BY <2>1, <3>2, FollowsTail
    <3>4. ~Deaf(r)
      BY <2>1 DEF Deaf
    <3>5. PICK y \in Range(ops[r]) : y.op = op
      BY <1>0, <3>3, <3>4 DEF Ahead, Took
    <3>6. y \in Operation
      BY <1>0 DEF Range
    <3> QED BY <1>3, <3>5, <3>6
  <2> HIDE DEF m
  <2> QED BY <1>0, <1>4, <1>5, <2>1, <2>2
<1>7. CASE RunOperation(r)
  <2> DEFINE t == Tail(ops[r])
  <2>1. ops[r] # << >> /\ Effect(r)
    BY <1>0, <1>7, OperationEffect
  <2>2. Head(ops[r]).op # op
    BY <1>0, <1>7, OperationSets
  <2>3. Follows(t, A, B) /\ t \in Seq(Operation)
    BY <1>0, <1>1, <1>3, <2>1, <2>2, FollowsTail, TailRange
  <2>4. ops'[r] = t \/ \E x \in Operation : ops'[r] = Append(t, x) /\ x.op # "add_ice_candidate"
    <3>1. "set_local_offer" # "add_ice_candidate" /\ "create_answer" # "add_ice_candidate"
          /\ "set_local_answer" # "add_ice_candidate"
      OBVIOUS
    <3> QED BY <2>1, <3>1, ZenonT(60) DEF Effect, Drops, Goes
  <2> HIDE DEF t
  <2>5. ASSUME NEW x \in Operation, ops'[r] = Append(t, x), x.op # "add_ice_candidate"
        PROVE  Follows(ops'[r], A, B)
    BY <1>2, <2>3, <2>5, FollowsAppend
  <2> QED BY <1>0, <2>3, <2>4, <2>5
<1>8. ASSUME NEW x, Queues(r, x), x.op = "create_offer" PROVE Follows(ops'[r], A, B)
  BY <1>2, <1>5, <1>8
<1> QED BY <1>0, <1>4, <1>6, <1>7, <1>8, OpsCases DEF OpsGrow

\* The description that a candidate of q belongs to has been passed on.
LEMMA DescriptionPassed ==
  ASSUME Basis, NEW p \in UserID, NEW h \in UserID, PairInv(p, h),
         NEW q, NEW r \in UserID, NEW kind, NEW op, Toward(q, r, p, h, kind, op),
         NEW u \in UserID, Deliver(u), r = Addressee(u), envelope[u].msg \in CandidatesOf(h)
  PROVE  u = q /\ \E j \in DOMAIN sent[q] : Passed(q, j, h, kind)
<1> DEFINE m == envelope[u].msg
<1>0. ClickInv /\ CallInv /\ Searching(u) /\ Initiator(p) /\ p # h /\ clicks[p]["connect"] <= 1
  BY DEF Basis, PageFacts, PairInv, Paired, Initiator
<1>1. m \in SignalEnum /\ m.kind = "IceCandidate" /\ Hosting(h, m.session) /\ m.kind \in Relayed
  BY DEF CandidatesOf, Relayed
<1>2. pc[u] = "sending" /\ Shaped(u, m, r)
  BY EnvelopeIsShaped
<1>3. m.by = u /\ m.seq = received[u] /\ IsSent(m)
  BY <1>1, <1>2, Composed
<1>4. u = q /\ (Hosting(u, m.session) \/ Joined(u, m.session))
  <2>1. CASE Hosting(u, m.session) /\ Joined(r, m.session)
    <3>1. u = h
      BY <1>1, <2>1 DEF Hosting
    <3>2. r # h
      BY <2>1, PairSpeaks DEF PairInv
    <3> QED BY <2>1, <3>1, <3>2 DEF Toward
  <2>2. CASE Joined(u, m.session) /\ Hosting(r, m.session)
    <3>1. u = p
      BY <1>1, <2>2, PairSpeaks DEF PairInv
    <3>2. r # p
      BY <2>2, PairSpeaks DEF PairInv
    <3> QED BY <2>2, <3>1, <3>2 DEF Toward
  <2> QED BY <1>1, <1>2, <2>1, <2>2 DEF Shaped
<1>5. Asks(u, received[u], "IceCandidate") /\ received[u] \in DOMAIN sent[u]
  BY <1>1, <1>3 DEF IsSent, Asks
<1>6. PICK j \in DOMAIN sent[u] : j < received[u] /\ sent[u][j].kind \in {"VideoOffer", "VideoAnswer"}
  BY <1>0, <1>5 DEF Searching, Described
<1>7. sent[u][j].kind = kind /\ Hosting(h, sent[u][j].session)
  <2>1. /\ sent[u][j].kind = "VideoOffer" => Joined(u, sent[u][j].session)
        /\ sent[u][j].kind = "VideoAnswer" => Hosting(u, sent[u][j].session)
    BY PairSpeaks DEF PairInv
  <2>2. \A s : ~Joined(h, s) /\ ~Hosting(p, s)
    BY PairSpeaks DEF PairInv
  <2>3. CASE u = h
    <3>1. sent[u][j].kind = "VideoAnswer" /\ Hosting(h, sent[u][j].session)
      BY <1>6, <2>1, <2>2, <2>3
    <3> QED BY <1>0, <1>4, <2>3, <3>1 DEF Toward
  <2>4. CASE u = p
    <3>1. sent[u][j].kind = "VideoOffer" /\ Joined(p, sent[u][j].session) /\ Joined(p, m.session)
      BY <1>4, <1>6, <2>1, <2>2, <2>4
    <3>2. sent[u][j].session = m.session
      BY <1>0, <1>1, <3>1, OneSeat DEF Joined
    <3> QED BY <1>0, <1>1, <1>4, <2>4, <3>1, <3>2 DEF Toward
  <2> QED BY <1>4, <2>3, <2>4 DEF Toward
<1>8. kind # "IceCandidate"
  BY DEF Toward
<1>9. received[u] \in Nat /\ j \in Nat
  <2>1. received[u] \in Nat
    BY DEF Basis, OrderInv, TypeOK
  <2>2. sent[u] \in Seq(Message)
    BY <1>0 DEF CallInv, ClientTypeOK
  <2> QED BY <2>1, <2>2
<1>10. Passed(u, j, h, kind)
  BY <1>1, <1>6, <1>7, <1>8, <1>9 DEF Passed, Asks
<1> QED BY <1>4, <1>10

\* A page cut off is one that its user has opened.
LEMMA CutOff ==
  ASSUME Basis, NEW r \in UserID, socket[r] # "open", out[r] # << >>
  PROVE  Deaf(r)
<1>1. socket[r] \in {"connecting", "open", "lost", "closed"}
  BY DEF Basis, CallInv, ClientTypeOK
<1>2. socket[r] = "connecting" => pc[r] = "new"
  BY DEF Basis, PageFacts, Wired
<1>3. pc[r] = "new" => out[r] = << >>
  BY DEF Basis, CallInv, RoutingInv, QueuesAddressed, Started
<1> QED BY <1>1, <1>2, <1>3 DEF Deaf

LEMMA HistoryRead ==
  ASSUME CallInv, [CallNext]_callVars, \A c \in UserID : ~ServerReads(c)
  PROVE  UNCHANGED <<host_of, guests_of>>
<1>1. Calm => UNCHANGED <<host_of, guests_of>>
  BY DEF Calm
<1>2. \A q \in UserID : Handles(q) => UNCHANGED <<host_of, guests_of>>
  BY Handed
<1>3. \A q \in UserID :
        (Forward(q) /\ socket[q] # "open") \/ Deliver(q) \/ ReplyWithID(q) \/ End(q) =>
          UNCHANGED <<host_of, guests_of>>
  BY QueueEffect
<1>4. UNCHANGED vars => UNCHANGED <<host_of, guests_of>>
  BY DEF vars, history
<1> QED BY <1>1, <1>2, <1>3, <1>4, Steps

\* What is new about the messages that the server is done with.
LEMMA PassedBefore ==
  ASSUME Basis, [CallNext]_callVars, \A c \in UserID : ~ServerReads(c),
         NEW q \in UserID, NEW h, NEW kind, NEW j \in DOMAIN sent'[q], Passed(q, j, h, kind)'
  PROVE  /\ j \in DOMAIN sent[q]
         /\ \/ Passed(q, j, h, kind)
            \/ /\ Deliver(q) /\ UNCHANGED clientVars /\ pc[q] = "sending"
               /\ envelope[q].msg.kind = kind /\ Hosting(h, sent[q][j].session)
               /\ envelope[q].msg.seq = j
<1>0. CallInv /\ ClientTypeOK /\ sent[q] \in Seq(Message)
  BY DEF Basis, CallInv, ClientTypeOK
<1>1. host_of' = host_of
  BY <1>0, HistoryRead
<1>2. ASSUME UNCHANGED <<sent, received>>,
             pc'[q] = "sending" <=> pc[q] = "sending", envelope' = envelope
      PROVE  j \in DOMAIN sent[q] /\ Passed(q, j, h, kind)
  BY <1>1, <1>2 DEF Passed, Asks, Hosting
<1>3. CASE Calm
  BY <1>2, <1>3 DEF Calm
<1>4. ASSUME NEW u \in UserID, PageStep(u), UNCHANGED vars PROVE j \in DOMAIN sent[q] /\ Passed(q, j, h, kind)
  <2>1. UNCHANGED <<received, pc, envelope>>
    BY <1>4 DEF vars
  <2>2. received[q] \in Nat /\ received[q] <= Len(sent[q])
    BY DEF Basis, PageFacts, Wired, OrderInv, TypeOK
  <2>3. sent'[q] \in Seq(Message)
    BY <1>0, <1>4, PageStepType DEF CallInv, ClientTypeOK
  <2>4. j \in DOMAIN sent[q]
    BY <1>0, <2>1, <2>2, <2>3 DEF Passed
  <2>5. sent'[q][j] = sent[q][j]
    BY <1>0, <2>4, SentOnward
  <2> QED BY <1>1, <2>1, <2>4, <2>5 DEF Passed, Asks, Hosting
<1>5. ASSUME NEW u \in UserID, Handles(u) PROVE j \in DOMAIN sent[q] /\ Passed(q, j, h, kind)
  <2>1. UNCHANGED <<sent, received, pc, envelope>>
    BY <1>0, <1>5, Handed
  <2> QED BY <1>2, <2>1
<1>6. ASSUME NEW u \in UserID, UNCHANGED clientVars,
             (Forward(u) /\ socket[u] # "open") \/ Deliver(u) \/ ReplyWithID(u) \/ End(u),
             ~Passed(q, j, h, kind)
      PROVE  /\ j \in DOMAIN sent[q]
             /\ Deliver(q) /\ pc[q] = "sending"
             /\ envelope[q].msg.kind = kind /\ Hosting(h, sent[q][j].session)
             /\ envelope[q].msg.seq = j
  <2>1. /\ received' = received
        /\ pc'[q] = "sending" => pc[q] = "sending" /\ envelope'[q] = envelope[q]
        /\ pc[q] = "sending" /\ pc'[q] # "sending" => q = u /\ Deliver(u)
    BY <1>0, <1>6, QueueEffect
  <2>2. sent' = sent
    BY <1>6 DEF clientVars
  <2>3. pc[q] = "sending" /\ envelope[q].msg.kind = kind /\ envelope[q].msg.seq = j
    BY <1>1, <1>6, <2>1, <2>2 DEF Passed, Asks, Hosting
  <2>4. pc'[q] # "sending"
    BY <2>1, <2>3 DEF Passed
  <2> QED BY <1>1, <2>1, <2>2, <2>3, <2>4 DEF Passed, Hosting
<1>7. Passed(q, j, h, kind) => j \in DOMAIN sent[q]
  BY DEF Passed, Asks
<1>8. \A c \in UserID : ~ServerReads(c)
  OBVIOUS
<1> QED BY <1>0, <1>3, <1>4, <1>5, <1>6, <1>7, <1>8, Steps

\* What the queue of r becomes.
LEMMA QueueCases ==
  ASSUME Basis, NEW r \in UserID, [CallNext]_callVars, \A c \in UserID : ~ServerReads(c), ~Deaf(r)
  PROVE  \/ out'[r] = out[r]
         \/ Handles(r)
         \/ NewUser(r) \in SignalEnum /\ out'[r] = Append(out[r], NewUser(r))
         \/ \E u \in UserID :
              /\ Deliver(u) /\ r = Addressee(u) /\ ~Off(r) /\ envelope[u].msg \in SignalEnum
              /\ out'[r] = Append(out[r], envelope[u].msg)
         \/ out'[r] = << >> /\ Off(r)'
<1>0. CallInv /\ out \in [UserID -> Seq(SignalEnum)]
  BY DEF Basis, OrderInv, TypeOK
<1>1. Calm \/ UNCHANGED vars => out' = out
  BY DEF Calm, vars
<1>2. ASSUME NEW u \in UserID, Handles(u), u # r PROVE out'[r] = out[r]
  BY <1>0, <1>2, Handed
<1>3. ASSUME NEW u \in UserID, (Forward(u) /\ socket[u] # "open") \/ Deliver(u) \/ ReplyWithID(u) \/ End(u)
      PROVE  \/ out'[r] = out[r]
             \/ NewUser(r) \in SignalEnum /\ out'[r] = Append(out[r], NewUser(r))
             \/ /\ Deliver(u) /\ r = Addressee(u) /\ ~Off(r) /\ envelope[u].msg \in SignalEnum
                /\ out'[r] = Append(out[r], envelope[u].msg)
             \/ out'[r] = << >> /\ Off(r)'
  <2>1. ~(socket[r] # "open" /\ out[r] # << >>)
    BY CutOff
  <2>2. pc'[r] = "ended" => Off(r)'
    BY DEF Off
  <2> QED BY <1>0, <1>3, <2>1, <2>2, QueueEffect
<1>4. \A c \in UserID : ~ServerReads(c)
  OBVIOUS
<1> QED BY <1>0, <1>1, <1>2, <1>3, <1>4, Steps

\* A description that has arrived is not lost to a page that can still be reached.
LEMMA ArrivedStays ==
  ASSUME WellBehaved, Basis, NEW p \in UserID, NEW h \in UserID, PairInv(p, h),
         NEW q, NEW r \in UserID, NEW kind, NEW op, Toward(q, r, p, h, kind, op),
         r = p => Linked(p, h), [CallNext]_callVars, \A c \in UserID : ~ServerReads(c),
         Arrived(r, kind, op)
  PROVE  Arrived(r, kind, op)'
<1>0. CallInv /\ out[r] \in Seq(SignalEnum) /\ ops[r] \in Seq(Operation)
  BY DEF Basis, CallInv, ClientTypeOK, OrderInv, TypeOK
<1>1. (Deaf(r) => Deaf(r)') /\ (Off(r) => Off(r)')
  BY <1>0, Onward
<1>2. Took(r, op) => Took(r, op)'
  BY TookStays
<1>3. ASSUME ~Deaf(r), NEW m \in Range(out[r]), m.kind = kind PROVE Arrived(r, kind, op)'
  <2>1. CASE out'[r] = out[r]
    BY <1>3, <2>1 DEF Arrived
  <2>2. ASSUME NEW x \in SignalEnum, out'[r] = Append(out[r], x) PROVE Arrived(r, kind, op)'
    <3>1. Range(out'[r]) = Range(out[r]) \cup {x}
      BY <1>0, <2>2, AppendRange
    <3> QED BY <1>3, <3>1 DEF Arrived
  <2>3. CASE Off(r)'
    BY <2>3 DEF Arrived
  <2>4. CASE Handles(r)
    <3> DEFINE w == Head(out[r])
    <3>1. /\ out' = [out EXCEPT ![r] = Tail(out[r])] /\ out[r] # << >>
          /\ \/ w.kind \in Relayed /\ \E x : Queues(r, x) /\ Brought(w, x)
             \/ w.kind \notin Relayed
      BY <1>0, <2>4, Handed DEF Relayed
    <3>2. CASE w.kind = kind
      <4>1. kind \in Relayed
        BY DEF Toward, Relayed
      <4>2. PICK x : Queues(r, x) /\ Brought(w, x)
        BY <3>1, <3>2, <4>1
      <4>3. x.op = op
        BY <3>2, <4>2 DEF Brought, Toward
      <4>4. Range(ops'[r]) = Range(ops[r]) \cup {x}
        BY <1>0, <4>2, AppendRange DEF Queues
      <4> QED BY <4>3, <4>4 DEF Arrived, Took
    <3>3. CASE w.kind # kind
      <4>1. PICK i \in DOMAIN out[r] : out[r][i] = m
        BY DEF Range
      <4>2. w = out[r][1] /\ (i = 1 \/ (i - 1 \in DOMAIN Tail(out[r]) /\ Tail(out[r])[i - 1] = out[r][i]))
        BY <1>0, <3>1, TailSeq
      <4>3. m \in Range(Tail(out[r]))
        BY <1>3, <3>3, <4>1, <4>2 DEF Range
      <4>4. out'[r] = Tail(out[r])
        BY <3>1 DEF Basis, OrderInv, TypeOK
      <4> QED BY <1>3, <4>3, <4>4 DEF Arrived
    <3> QED BY <3>2, <3>3
  <2> QED BY <1>3, <2>1, <2>2, <2>3, <2>4, QueueCases
<1> QED BY <1>1, <1>2, <1>3 DEF Arrived

\* The message that is delivered to r, if it is a description, has arrived.
LEMMA Delivered ==
  ASSUME Basis, NEW p \in UserID, NEW h \in UserID, PairInv(p, h),
         NEW q \in UserID, NEW r \in UserID, NEW kind, NEW op, Toward(q, r, p, h, kind, op),
         [CallNext]_callVars, Deliver(q), pc[q] = "sending", envelope[q].msg.kind = kind,
         NEW j \in DOMAIN sent[q], envelope[q].msg.seq = j, Hosting(h, sent[q][j].session)
  PROVE  Arrived(r, kind, op)'
<1> DEFINE m == envelope[q].msg
<1>0. CallInv /\ out \in [UserID -> Seq(SignalEnum)]
  BY DEF Basis, OrderInv, TypeOK
<1>1. m.kind \in Relayed /\ m.kind \in SessionKinds
  BY DEF Toward, Relayed, SessionKinds
<1>2. m.by = q /\ IsSent(m) /\ For(Addressee(q), m, host_of, guests_of)
  BY <1>1, Composed
<1>3. m.session = sent[q][j].session /\ Hosting(h, m.session)
  BY <1>2 DEF IsSent
<1>4. Addressee(q) = r
  <2>1. CASE kind = "VideoOffer"
    BY <1>2, <1>3, <2>1 DEF For, Concerns, Hosting, Toward
  <2>2. CASE kind = "VideoAnswer"
    <3>1. Addressee(q) \in guests_of[m.session] /\ m.session \in SessionID /\ host_of[m.session] = h
      BY <1>2, <1>3, <2>2 DEF For, Concerns, Hosting
    <3>2. Addressee(q) = p
      BY <3>1 DEF PairInv, Paired
    <3> QED BY <2>2, <3>2 DEF Toward
  <2> QED BY <2>1, <2>2 DEF Toward
<1>5. m \in SignalEnum /\ (out'[r] = Append(out[r], m) \/ Off(r))
  <2>1. m \in SignalEnum
    BY <1>0, DeliverEffect
  <2>2. out' = [out EXCEPT ![Addressee(q)] = Append(out[Addressee(q)], m)] \/ Off(Addressee(q))
    BY <1>0, DeliverEffect
  <2> QED BY <1>0, <1>4, <2>1, <2>2
<1>6. CASE out'[r] = Append(out[r], m)
  <2>1. out[r] \in Seq(SignalEnum)
    BY <1>0
  <2>2. m \in Range(out'[r])
    BY <1>5, <1>6, <2>1, AppendRange
  <2> QED BY <2>2 DEF Arrived
<1>7. CASE Off(r)
  BY <1>0, <1>7, Onward DEF Arrived
<1> QED BY <1>5, <1>6, <1>7

\* The candidates in the queue of r stay behind the description.
LEMMA QueueFollows ==
  ASSUME WellBehaved, Basis, NEW p \in UserID, NEW h \in UserID, PairInv(p, h),
         NEW q, NEW r \in UserID, NEW kind, NEW op, Toward(q, r, p, h, kind, op),
         r = p => Linked(p, h), [CallNext]_callVars, \A c \in UserID : ~ServerReads(c),
         Ahead(q, r, h, kind, op)
  PROVE  Took(r, op)' \/ Deaf(r)' \/ Follows(out'[r], CandidatesOf(h)', MessagesOf(kind))
<1> SUFFICES ASSUME ~Took(r, op)', ~Deaf(r)'
             PROVE  Follows(out'[r], CandidatesOf(h)', MessagesOf(kind))
  OBVIOUS
<1> DEFINE C == CandidatesOf(h)
           D == MessagesOf(kind)
<1>0. /\ CallInv /\ out[r] \in Seq(SignalEnum) /\ ops[r] \in Seq(Operation)
      /\ host_of' = host_of
  BY HistoryRead DEF Basis, CallInv, ClientTypeOK, OrderInv, TypeOK
<1>1. CandidatesOf(h)' = C
  BY <1>0 DEF CandidatesOf, Hosting
<1>2. ~Took(r, op) /\ ~Deaf(r)
  BY <1>0, TookStays, Onward
<1>3. Follows(out[r], C, D)
  BY <1>2 DEF Ahead
<1>4. \A x : x \in C => x.kind = "IceCandidate"
  BY DEF CandidatesOf
<1>5. \A x : x \in D <=> x \in SignalEnum /\ x.kind = kind
  BY DEF MessagesOf
<1>6. ASSUME NEW u \in UserID, Deliver(u), r = Addressee(u), ~Off(r), envelope[u].msg \in C
      PROVE  \E y \in Range(out[r]) : y \in D
  <2>1. PICK j \in DOMAIN sent[q] : Passed(q, j, h, kind)
    BY <1>6, DescriptionPassed
  <2>2. Arrived(r, kind, op)
    BY <2>1 DEF Ahead
  <2>3. PICK y \in Range(out[r]) : y.kind = kind
    BY <1>2, <1>6, <2>2 DEF Arrived
  <2>4. y \in SignalEnum
    BY <1>0 DEF Range
  <2> QED BY <1>5, <2>3, <2>4
<1> SUFFICES Follows(out'[r], C, D)
  BY <1>1
<1> HIDE DEF C, D
<1>7. ASSUME NEW x \in SignalEnum, out'[r] = Append(out[r], x), x \in C => \E y \in Range(out[r]) : y \in D
      PROVE  Follows(out'[r], C, D)
  BY <1>0, <1>3, <1>7, FollowsAppend
<1>8. CASE Handles(r)
  <2> DEFINE w == Head(out[r])
  <2>1. /\ out' = [out EXCEPT ![r] = Tail(out[r])] /\ out[r] # << >>
        /\ \/ w.kind \in Relayed /\ \E x : Queues(r, x) /\ Brought(w, x)
           \/ w.kind \notin Relayed
    BY <1>0, <1>8, Handed DEF Relayed
  <2>2. out'[r] = Tail(out[r])
    BY <2>1 DEF Basis, OrderInv, TypeOK
  <2>3. ASSUME w.kind = kind PROVE FALSE
    <3>1. kind \in Relayed
      BY DEF Toward, Relayed
    <3>2. PICK x : Queues(r, x) /\ Brought(w, x)
      BY <2>1, <2>3, <3>1
    <3>3. x.op = op
      BY <2>3, <3>2 DEF Brought, Toward
    <3>4. Range(ops'[r]) = Range(ops[r]) \cup {x}
      BY <1>0, <3>2, AppendRange DEF Queues
    <3> QED BY <3>3, <3>4 DEF Took
  <2> QED BY <1>0, <1>3, <1>5, <2>1, <2>2, <2>3, FollowsTail
<1>9. NewUser(r) \notin C
  BY <1>4 DEF NewUser
<1>10. CASE out'[r] = out[r]
  BY <1>3, <1>10
<1>11. CASE out'[r] = << >>
  BY <1>11 DEF Follows
<1> QED BY <1>2, <1>6, <1>7, <1>8, <1>9, <1>10, <1>11, QueueCases

\* What the server reads is composed, or dropped when nobody is there to get it.
LEMMA AheadRead ==
  ASSUME WellBehaved, Basis, HistoryGrows, NEW p \in UserID, NEW h \in UserID, PairInv(p, h),
         NEW q \in UserID, NEW r \in UserID, NEW kind, NEW op, Toward(q, r, p, h, kind, op),
         NEW c \in UserID, ServerReads(c), [CallNext]_callVars, Ahead(q, r, h, kind, op)
  PROVE  Ahead(q, r, h, kind, op)'
<1> DEFINE n == received[c] + 1
           m == sent[c][n]
<1>0. CallInv /\ SessionsStand /\ Told(r) /\ received[q] \in Nat /\ sent[q] \in Seq(Message)
  BY DEF Basis, CallInv, PageFacts, OrderInv, TypeOK, ClientTypeOK
<1>1. /\ pc[c] = "serving" /\ out' = out /\ UNCHANGED clientVars
      /\ \A u \in UserID : u # c => pc'[u] = pc[u] /\ envelope'[u] = envelope[u] /\ received'[u] = received[u]
      /\ received'[c] = n /\ received[c] \in Nat
      /\ pc'[c] = "sending" =>
           \/ m.kind \in Relayed /\ envelope'[c].msg = Wire(c, n)
           \/ m.kind = "SessionNew"
           \/ m.kind = "SessionJoin"
      /\ pc'[c] = "sending" \/
           /\ m.kind = "VideoOffer" => ~Exists(m.session)
           /\ m.kind = "VideoAnswer" => ~Exists(m.session) \/ session_list[m.session].guest = None
  BY <1>0, ReadComposes
<1>2. UNCHANGED <<sent, ops, rtc, socket>>
  BY <1>1 DEF clientVars
<1>3. (Took(r, op)' <=> Took(r, op)) /\ (Deaf(r)' <=> Deaf(r)) /\ (Off(r) => Off(r)')
  BY <1>0, <1>2, Onward DEF Took, Deaf
<1>4. Arrived(r, kind, op) => Arrived(r, kind, op)'
  BY <1>1, <1>3 DEF Arrived
<1>5. \A s : (Hosting(r, s) \/ Joined(r, s) \/ Hosting(q, s) \/ Joined(q, s)) /\ Hosting(h, s)' => Hosting(h, s)
  BY HostStands DEF Hosting
<1>6. Took(r, op)' \/ Deaf(r)' \/ Follows(out'[r], CandidatesOf(h)', MessagesOf(kind))
  <2>1. ASSUME NEW i \in DOMAIN out[r], out[r][i] \in CandidatesOf(h)' PROVE out[r][i] \in CandidatesOf(h)
    <3> DEFINE x == out[r][i]
    <3>1. x.kind = "IceCandidate" /\ Hosting(h, x.session)' /\ x \in SignalEnum /\ x.kind \in SessionKinds
      BY <1>1, <2>1 DEF CandidatesOf, SessionKinds, Relayed, Hosting
    <3>2. For(r, x, host_of, guests_of)
      BY Queued
    <3>3. Hosting(r, x.session) \/ Joined(r, x.session)
      BY <3>1, <3>2 DEF For, Concerns, Hosting, Joined
    <3>4. host_of'[x.session] = h /\ x.session \in SessionID
      BY <1>1, <2>1 DEF CandidatesOf, Hosting
    <3>5. Hosting(h, x.session)
      BY <3>3, <3>4, HostStands DEF Hosting
    <3> QED BY <3>1, <3>5 DEF CandidatesOf
  <2> QED BY <1>1, <1>3, <2>1, FollowsFewer DEF Ahead
<1>7. rtc'[r].remote # None \/ Follows(ops'[r], AdditionsOf(h)', CallsOf(op))
  <2>1. ASSUME NEW i \in DOMAIN ops[r], ops[r][i] \in AdditionsOf(h)' PROVE ops[r][i] \in AdditionsOf(h)
    <3> DEFINE x == ops[r][i]
    <3>1. x \in Operation /\ x.op = "add_ice_candidate" /\ host_of'[x.session] = h /\ x.session \in SessionID
      BY <1>2, <2>1 DEF AdditionsOf, Hosting
    <3>2. Hosting(r, x.session) \/ Joined(r, x.session)
      BY <1>0, <3>1 DEF Told, Range
    <3>3. Hosting(h, x.session)
      BY <3>1, <3>2, HostStands DEF Hosting
    <3> QED BY <3>1, <3>3 DEF AdditionsOf
  <2> QED BY <1>2, <2>1, FollowsFewer DEF Ahead
<1>8. ASSUME NEW j \in DOMAIN sent'[q], Passed(q, j, h, kind)' PROVE Arrived(r, kind, op)'
  <2> DEFINE s == sent[q][j].session
  <2>1. /\ Asks(q, j, kind) /\ j \in DOMAIN sent[q] /\ j \in Nat /\ j <= received'[q]
        /\ host_of'[s] = h /\ s \in SessionID
        /\ ~(pc'[q] = "sending" /\ envelope'[q].msg.kind = kind /\ envelope'[q].msg.seq = j)
    BY <1>0, <1>2, <1>8 DEF Passed, Asks, Hosting
  <2>2. Joined(q, s) \/ Hosting(q, s)
    BY <2>1, PairSpeaks DEF PairInv, Toward, Asks
  <2>3. Hosting(h, s)
    BY <2>1, <2>2, HostStands DEF Hosting
  <2>4. CASE c # q \/ j <= received[q]
    <3>1. Passed(q, j, h, kind)
      <4>1. j <= received[q]
        BY <1>1, <2>1, <2>4
      <4>2. CASE c # q
        BY <1>1, <2>1, <2>3, <4>1, <4>2 DEF Passed
      <4>3. CASE c = q
        BY <1>1, <2>1, <2>3, <4>1, <4>3 DEF Passed
      <4> QED BY <4>2, <4>3
    <3> QED BY <1>4, <2>1, <3>1 DEF Ahead
  <2>5. CASE c = q /\ ~(j <= received[q])
    <3>1. j = n /\ m.kind = kind /\ m.session = s
      BY <1>1, <2>1, <2>5 DEF Asks
    <3>2. pc'[q] # "sending"
      <4>1. m.kind \notin {"SessionNew", "SessionJoin"}
        BY <3>1 DEF Toward
      <4>2. Wire(c, n).kind = m.kind /\ Wire(c, n).seq = n
        BY DEF Wire
      <4> QED BY <1>1, <2>1, <2>5, <3>1, <4>1, <4>2
    <3>3. /\ kind = "VideoOffer" => ~Exists(s)
          /\ kind = "VideoAnswer" => ~Exists(s) \/ session_list[s].guest = None
      BY <1>1, <2>5, <3>1, <3>2
    <3>4. ~Exists(s) => pc[h] \in {"closing", "ended"}
      BY <1>0, <2>1, <2>3, NoneIsNoIdentifier DEF SessionsStand, Hosting
    <3>5. CASE kind = "VideoOffer"
      <4>1. Off(h) /\ r = h
        BY <3>3, <3>4, <3>5 DEF Off, Toward
      <4> QED BY <1>3, <4>1 DEF Arrived
    <3>6. CASE kind = "VideoAnswer"
      <4>1. q = h /\ pc[h] = "serving"
        BY <1>1, <2>5, <3>6 DEF Toward
      <4>2. Exists(s) /\ session_list[s].guest = None
        BY <3>3, <3>4, <3>6, <4>1
      <4>3. Joined(p, s)
        <5>1. sent[h][j] \in Range(sent[h]) /\ sent[h][j].kind = "VideoAnswer"
          BY <2>1, <3>6, <4>1 DEF Asks, Range
        <5> QED BY <4>1, <5>1 DEF PairInv, HostInv
      <4> QED BY <1>0, <4>2, <4>3 DEF SessionsStand, Joined
    <3> QED BY <3>5, <3>6 DEF Toward
  <2> QED BY <2>4, <2>5
<1> QED BY <1>6, <1>7, <1>8 DEF Ahead

LEMMA AheadStep ==
  ASSUME WellBehaved, Basis, NEW p \in UserID, NEW h \in UserID, PairInv(p, h),
         NEW q \in UserID, NEW r \in UserID, NEW kind, NEW op, Toward(q, r, p, h, kind, op),
         r = p => Linked(p, h), [CallNext]_callVars, \A c \in UserID : ~ServerReads(c),
         Ahead(q, r, h, kind, op)
  PROVE  Ahead(q, r, h, kind, op)'
<1>1. ASSUME NEW j \in DOMAIN sent'[q], Passed(q, j, h, kind)' PROVE Arrived(r, kind, op)'
  <2>1. CASE j \in DOMAIN sent[q] /\ Passed(q, j, h, kind)
    BY <2>1, ArrivedStays DEF Ahead
  <2>2. CASE /\ j \in DOMAIN sent[q] /\ Deliver(q) /\ pc[q] = "sending"
             /\ envelope[q].msg.kind = kind /\ Hosting(h, sent[q][j].session) /\ envelope[q].msg.seq = j
    BY <2>2, Delivered
  <2> QED BY <1>1, <2>1, <2>2, PassedBefore
<1>2. Took(r, op)' \/ Deaf(r)' \/ Follows(out'[r], CandidatesOf(h)', MessagesOf(kind))
  BY QueueFollows
<1>3. host_of' = host_of
  BY HistoryRead DEF Basis
<1>4. rtc'[r].remote # None \/ Follows(ops'[r], AdditionsOf(h)', CallsOf(op))
  BY <1>3, OpsFollow
<1> QED BY <1>1, <1>2, <1>4 DEF Ahead

\* Without a session that the two share, nothing goes from h to p.
LEMMA AheadUnlinked ==
  ASSUME Basis, NEW p \in UserID, NEW h \in UserID, Paired(p, h), HostInv(p, h), ~Linked(p, h)
  PROVE  Ahead(h, p, h, "VideoAnswer", "set_remote_answer")
<1>0. \A s : ~(Joined(p, s) /\ Hosting(h, s)) /\ ~Hosting(p, s)
  BY PairSpeaks DEF Linked, Joined
<1>1. ASSUME NEW j \in DOMAIN sent[h], Passed(h, j, h, "VideoAnswer") PROVE FALSE
  <2>1. sent[h][j] \in Range(sent[h]) /\ sent[h][j].kind = "VideoAnswer" /\ Hosting(h, sent[h][j].session)
    BY <1>1 DEF Passed, Asks, Range
  <2> QED BY <1>0, <2>1 DEF HostInv
<1>2. ASSUME NEW i \in DOMAIN out[p], out[p][i] \in CandidatesOf(h) PROVE FALSE
  <2> DEFINE x == out[p][i]
  <2>1. x.kind = "IceCandidate" /\ Hosting(h, x.session)
    BY <1>2 DEF CandidatesOf
  <2>2. For(p, x, host_of, guests_of)
    BY Queued
  <2>3. Hosting(p, x.session) \/ Joined(p, x.session)
    BY <2>1, <2>2 DEF For, Concerns, Hosting, Joined
  <2> QED BY <1>0, <2>1, <2>3
<1>3. ASSUME NEW i \in DOMAIN ops[p], ops[p][i] \in AdditionsOf(h) PROVE FALSE
  <2>1. ops[p][i].op = "add_ice_candidate" /\ Hosting(h, ops[p][i].session) /\ ops[p][i] \in Range(ops[p])
    BY <1>3 DEF AdditionsOf, Range
  <2>2. Hosting(p, ops[p][i].session) \/ Joined(p, ops[p][i].session)
    BY <2>1 DEF Basis, PageFacts, Told
  <2> QED BY <1>0, <2>1, <2>2
<1> QED BY <1>1, <1>2, <1>3 DEF Ahead, Follows

\* No candidate is added before the description is set.
LEMMA NoneRefused ==
  ASSUME Basis, NEW p \in UserID, NEW h \in UserID, PairInv(p, h),
         NEW q, NEW r \in UserID, NEW kind, NEW op, Toward(q, r, p, h, kind, op),
         r = p => Linked(p, h), [CallNext]_callVars, Ahead(q, r, h, kind, op), refused[r] = 0
  PROVE  refused'[r] = 0
<1>0. CallInv /\ ClientTypeOK /\ PageInv(r) /\ Told(r)
  BY DEF Basis, CallInv, PageFacts
<1>1. CASE RunOperation(r)
  <2> DEFINE o == Head(ops[r])
  <2>1. /\ Effect(r) /\ o \in Range(ops[r]) /\ o \in Operation
        /\ ops[r] # << >> /\ ops[r] \in Seq(Operation)
    BY <1>0, <1>1, OperationEffect
  <2> HIDE DEF o
  <2>2. refused'[r] # refused[r] => o.op = "add_ice_candidate" /\ rtc[r].remote = None
    BY <2>1, ZenonT(60) DEF Effect, Quiet, o
  <2>3. ASSUME o.op = "add_ice_candidate", rtc[r].remote = None PROVE FALSE
    <3>1. o \notin AdditionsOf(h)
      BY <2>1, <2>3, FollowsTail DEF Ahead, o
    <3>2. Hosting(r, o.session) \/ Joined(r, o.session)
      BY <1>0, <2>1, <2>3 DEF Told
    <3>3. \A s : ~Joined(h, s) /\ ~Hosting(p, s)
      BY PairSpeaks DEF PairInv
    <3>4. CASE r = h
      BY <2>1, <2>3, <3>1, <3>2, <3>3, <3>4 DEF AdditionsOf
    <3>5. CASE r = p
      <4>1. PICK s \in SessionID : Hosting(h, s) /\ Joined(p, s)
        BY <3>5 DEF Linked
      <4>2. Joined(p, o.session) /\ o.session \in SessionID
        BY <3>2, <3>3, <3>5 DEF Joined
      <4>3. s = o.session
        BY <4>1, <4>2, OneSeat DEF Basis, PairInv, Paired, Initiator
      <4> QED BY <2>1, <2>3, <3>1, <4>1, <4>3 DEF AdditionsOf
    <3> QED BY <3>4, <3>5 DEF Toward
  <2> QED BY <2>2, <2>3
<1>2. ASSUME NEW u \in UserID, PageStep(u) \/ Handles(u), u # r PROVE refused'[r] = refused[r]
  BY <1>0, <1>2, PageFrame DEF Handles
<1>3. ASSUME PageStep(r), ~RunOperation(r) PROVE refused' = refused
  <2>1. CameraGranted(r) => refused' = refused
    BY <1>0, CameraEffect
  <2> QED BY <1>0, <1>3, <2>1, PageCases DEF Requested, Turned, Found, Shows
<1>4. Handles(r) => refused' = refused
  BY <1>0, Handed
<1>5. Calm \/ UNCHANGED clientVars => refused' = refused
  BY DEF Calm, clientVars
<1>6. \A c \in UserID : ServerReads(c) => UNCHANGED clientVars
  BY DEF ServerReads
<1> QED BY <1>0, <1>1, <1>2, <1>3, <1>4, <1>5, <1>6, Steps

LEMMA AheadNext ==
  ASSUME WellBehaved, Basis, HistoryGrows, NEW p \in UserID, NEW h \in UserID, PairInv(p, h),
         AheadInv(p, h), [CallNext]_callVars
  PROVE  AheadInv(p, h)'
<1>1. Toward(p, h, p, h, "VideoOffer", "set_remote_offer")
  BY DEF Toward
<1>2. Toward(h, p, p, h, "VideoAnswer", "set_remote_answer")
  BY DEF Toward
<1>3. p # h /\ Paired(p, h) /\ HostInv(p, h) /\ Initiator(p)
  BY DEF PairInv, Paired
<1>4. Ahead(p, h, h, "VideoOffer", "set_remote_offer")'
  BY <1>1, <1>3, AheadRead, AheadStep DEF AheadInv
<1>5. refused'[h] = 0
  BY <1>1, <1>3, NoneRefused DEF AheadInv
<1>6. ASSUME Linked(p, h)', Linked(p, h)
      PROVE  Ahead(h, p, h, "VideoAnswer", "set_remote_answer")' /\ refused'[p] = 0
  <2>1. Ahead(h, p, h, "VideoAnswer", "set_remote_answer") /\ refused[p] = 0
    BY <1>6 DEF AheadInv
  <2>2. Ahead(h, p, h, "VideoAnswer", "set_remote_answer")'
    BY <1>2, <1>6, <2>1, AheadRead, AheadStep
  <2>3. refused'[p] = 0
    BY <1>2, <1>6, <2>1, NoneRefused
  <2> QED BY <2>2, <2>3
<1>7. ASSUME Linked(p, h)', ~Linked(p, h)
      PROVE  Ahead(h, p, h, "VideoAnswer", "set_remote_answer")' /\ refused'[p] = 0
  <2>1. PICK c \in UserID : ServerReads(c)
    <3>1. UNCHANGED <<host_of, guests_of>> => (Linked(p, h)' <=> Linked(p, h))
      BY DEF Linked, Hosting, Joined
    <3> QED BY <1>7, <3>1, HistoryRead DEF Basis
  <2>2. Ahead(h, p, h, "VideoAnswer", "set_remote_answer")
    BY <1>3, <1>7, AheadUnlinked
  <2>3. Ahead(h, p, h, "VideoAnswer", "set_remote_answer")'
    BY <1>2, <2>1, <2>2, AheadRead
  <2>4. ~Member(p)
    BY <1>3, <1>7, MemberLinked
  <2>5. refused[p] = 0
    <3>1. refused[p] \in Nat
      BY DEF Basis, CallInv, ClientTypeOK
    <3>2. refused[p] > 0 => Member(p)
      BY DEF Basis, PageFacts, Told
    <3> QED BY <2>4, <3>1, <3>2
  <2>6. refused' = refused
    BY <2>1 DEF ServerReads, clientVars
  <2> QED BY <2>3, <2>5, <2>6
<1> QED BY <1>4, <1>5, <1>6, <1>7 DEF AheadInv

-------------------------------------------------------------------------------
(* The screen. *)

LEMMA VideoCases ==
  ASSUME CallInv, NEW u \in UserID, [CallNext]_callVars
  PROVE  UNCHANGED <<video[u], connected[u]>> \/ CameraGranted(u) \/ Shows(u)
<1>0. ClientTypeOK /\ PageInv(u)
  BY DEF CallInv
<1>1. ASSUME PageStep(u), ~CameraGranted(u), ~Shows(u) PROVE UNCHANGED <<video, connected>>
  <2>1. RunOperation(u) => UNCHANGED <<video, connected>>
    BY <1>0, OperationEffect
  <2> QED BY <1>0, <1>1, <2>1, PageCases DEF Requested, Turned, Found
<1>2. ASSUME NEW q \in UserID, PageStep(q) \/ Handles(q), q # u PROVE UNCHANGED <<video[u], connected[u]>>
  BY <1>0, <1>2, PageFrame DEF Handles
<1>3. Handles(u) => UNCHANGED <<video, connected>>
  BY Handed
<1>4. Calm \/ UNCHANGED clientVars => UNCHANGED <<video, connected>>
  BY DEF Calm, clientVars, screen
<1>5. \A c \in UserID : ServerReads(c) => UNCHANGED clientVars
  BY DEF ServerReads
<1> QED BY <1>1, <1>2, <1>3, <1>4, <1>5, Steps

\* A camera that is granted to a listener shows in the pane of its own, and so
\* does the other side in the other pane.
LEMMA ListenerPanes ==
  ASSUME Basis, NEW h \in UserID, Listener(h)
  PROVE  /\ CameraGranted(h) => video'[h] = [video[h] EXCEPT !["peer_b_video"] = "own"]
         /\ Shows(h) => RemotePane(h) = "peer_a_video"
<1>0. ClientTypeOK /\ CallInv /\ ClickInv /\ PageInv(h) /\ Told(h)
  BY DEF Basis, CallInv, PageFacts
<1>1. \A s : ~Joined(h, s)
  BY <1>0, NoPart DEF Listener, Joined
<1>2. ASSUME CameraGranted(h) PROVE video'[h] = [video[h] EXCEPT !["peer_b_video"] = "own"]
  <2>1. PICK i \in DOMAIN camera[h] :
          /\ camera[h][i].for \in {"start", "offer"}
          /\ video'[h] = [video[h] EXCEPT ![OwnPane(camera[h][i].for)] = "own"]
    BY <1>0, <1>2, CameraEffect
  <2>2. camera[h][i].for # "offer"
    BY <1>0, <1>1 DEF PageInv, Range
  <2> QED BY <2>1, <2>2 DEF OwnPane
<1>3. ASSUME Shows(h) PROVE RemotePane(h) = "peer_a_video"
  <2>1. PICK s \in SessionID : Hosting(h, s)
    BY <1>0, <1>1, <1>3 DEF Shows, Told, Member
  <2>2. clicks[h]["start"] # 0
    BY <1>0, <2>1, NoPart
  <2> QED BY <2>2 DEF RemotePane
<1> QED BY <1>2, <1>3

LEMMA ScreenNext ==
  ASSUME WellBehaved, Basis, HistoryGrows, \A p, h \in UserID : Paired(p, h) => PairInv(p, h),
         ScreenInv, [CallNext]_callVars
  PROVE  ScreenInv'
<1>0. /\ CallInv /\ ClientTypeOK
      /\ \A u \in UserID : video[u] \in [Pane -> {"nothing", "own", "remote"}]
  BY DEF Basis, CallInv, ClientTypeOK
<1>1. ASSUME NEW p \in UserID, Initiator(p)' PROVE video'[p]["peer_a_video"] # "remote"
  <2>1. Initiator(p) /\ video[p]["peer_a_video"] # "remote"
    BY <1>0, <1>1, InitiatorBefore DEF ScreenInv
  <2>2. CASE CameraGranted(p)
    <3>1. PICK i \in DOMAIN camera[p] : video'[p] = [video[p] EXCEPT ![OwnPane(camera[p][i].for)] = "own"]
      BY <1>0, <2>2, CameraEffect
    <3> QED BY <1>0, <2>1, <3>1 DEF Pane
  <2>3. CASE Shows(p)
    <3>1. RemotePane(p) = "peer_b_video"
      BY <2>1 DEF Initiator, RemotePane
    <3> QED BY <1>0, <2>1, <2>3, <3>1 DEF Shows, Pane
  <2> QED BY <1>0, <2>1, <2>2, <2>3, VideoCases
<1>2. ASSUME NEW h \in UserID, Listener(h)' PROVE video'[h]["peer_b_video"] # "remote"
  <2>1. Listener(h) /\ video[h]["peer_b_video"] # "remote"
    BY <1>0, <1>2, InitiatorBefore DEF ScreenInv
  <2>2. CASE CameraGranted(h)
    BY <1>0, <2>1, <2>2, ListenerPanes DEF Pane
  <2>3. CASE Shows(h)
    BY <1>0, <2>1, <2>3, ListenerPanes DEF Shows, Pane
  <2> QED BY <1>0, <2>1, <2>2, <2>3, VideoCases
<1>3. ASSUME NEW p \in UserID, NEW h \in UserID, Paired(p, h)', connected'[h]
      PROVE  video'[h]["peer_a_video"] = "remote"
  <2>1. Paired(p, h) /\ PairInv(p, h) /\ Listener(h)
    BY <1>0, <1>3, PairedBefore DEF Paired
  <2>2. connected[h] => video[h]["peer_a_video"] = "remote"
    BY <2>1 DEF ScreenInv
  <2>3. CASE CameraGranted(h)
    <3>1. connected' = connected
      BY <1>0, <2>3, CameraEffect
    <3> QED BY <1>0, <1>3, <2>1, <2>2, <2>3, <3>1, ListenerPanes DEF Pane
  <2>4. CASE Shows(h)
    <3>1. rtc[h].remote = rtc[p].local /\ rtc[p].local # None
      BY <2>1, <2>4 DEF Shows, PairInv, HostInv
    <3>2. rtc[h].remote.streams = 1
      BY <2>1, <3>1 DEF PairInv, OfferInv
    <3> QED BY <1>0, <2>1, <2>4, <3>2, ListenerPanes DEF Shows, Pane
  <2> QED BY <1>0, <1>3, <2>2, <2>3, <2>4, VideoCases
<1> QED BY <1>1, <1>2, <1>3 DEF ScreenInv

-------------------------------------------------------------------------------
(* All together. *)

NegotiationInv ==
  /\ Basis
  /\ \A p \in UserID : Initiator(p) => StageInv(p)
  /\ \A p, h \in UserID : Paired(p, h) => HostInv(p, h) /\ GuestInv(p, h) /\ AheadInv(p, h)
  /\ ScreenInv

LEMMA NegotiationInit == CallInit => NegotiationInv
<1> SUFFICES ASSUME CallInit PROVE NegotiationInv
  OBVIOUS
<1>1. Basis
  BY BasisInit
<1>2. ASSUME NEW u \in UserID
      PROVE  /\ sent[u] = << >> /\ ops[u] = << >> /\ camera[u] = << >> /\ out[u] = << >>
             /\ rtc[u].local = None /\ rtc[u].remote = None /\ rtc[u].signaling = "stable"
             /\ rtc[u].streams = 0 /\ refused[u] = 0 /\ connected[u] = FALSE /\ pc[u] = "new"
             /\ video[u] = [e \in Pane |-> "nothing"]
  BY DEF CallInit, ClientInit, Init
<1>d. DOMAIN << >> = {}
  OBVIOUS
<1>3. ASSUME NEW u \in UserID
      PROVE  /\ DOMAIN sent[u] = {} /\ DOMAIN ops[u] = {} /\ DOMAIN out[u] = {}
             /\ Range(sent[u]) = {} /\ Range(ops[u]) = {} /\ Range(out[u]) = {}
  <2>1. DOMAIN sent[u] = {} /\ DOMAIN ops[u] = {} /\ DOMAIN out[u] = {}
    BY <1>2, <1>d
  <2> QED BY <2>1 DEF Range
<1>4. ASSUME NEW p \in UserID PROVE StageInv(p)
  <2>1. ~Asked(p) /\ ~Accepting(p) /\ ~Accepted(p)
    BY <1>2, <1>3 DEF Asked, Accepting, Accepted
  <2>2. TokenInv(p)
    BY <1>2, <1>3, <2>1 DEF TokenInv, Once, Unbegun, Idle
  <2>3. OfferInv(p)
    <3>1. OnceAmong(ops[p], Offering) /\ Once(sent[p], "VideoOffer")
      BY <1>3 DEF Once, OnceAmong
    <3>2. rtc[p].signaling # "have-local-offer"
      BY <1>2
    <3>3. rtc[p].streams = 0
      BY <1>2
    <3>4. ~(0 > 0)
      OBVIOUS
    <3> QED BY <1>2, <1>3, <3>1, <3>2, <3>3, <3>4 DEF OfferInv
  <2> QED BY <2>2, <2>3 DEF StageInv
<1>5. ASSUME NEW p \in UserID, NEW h \in UserID PROVE HostInv(p, h) /\ GuestInv(p, h) /\ AheadInv(p, h)
  <2>1. HostInv(p, h)
    BY <1>2, <1>3 DEF HostInv, Untouched, Idle, OnceAmong
  <2>2. GuestInv(p, h)
    BY <1>2, <1>3 DEF GuestInv
  <2>3. AheadInv(p, h)
    BY <1>2, <1>3 DEF AheadInv, Ahead, Follows, Passed, Asks
  <2> QED BY <2>1, <2>2, <2>3
<1>6. ScreenInv
  BY <1>2 DEF ScreenInv, Pane
<1> QED BY <1>1, <1>4, <1>5, <1>6 DEF NegotiationInv

LEMMA NegotiationNext ==
  ASSUME WellBehaved, NegotiationInv, [CallNext]_callVars
  PROVE  NegotiationInv'
<1>0. Basis /\ CallInv /\ Basis' /\ HistoryGrows
  BY BasisNext DEF NegotiationInv, Basis
<1>1. ASSUME NEW p \in UserID, Initiator(p)' PROVE StageInv(p)'
  <2>1. TokenInv(p) /\ OfferInv(p)
    BY <1>0, <1>1, InitiatorBefore DEF NegotiationInv, StageInv
  <2> QED BY <1>0, <1>1, <2>1, TokenNext, OfferNext DEF StageInv
<1>2. \A p, h \in UserID : Paired(p, h) => PairInv(p, h) /\ AheadInv(p, h)
  BY DEF NegotiationInv, PairInv, StageInv, Paired
<1>3. ASSUME NEW p \in UserID, NEW h \in UserID, Paired(p, h)'
      PROVE  HostInv(p, h)' /\ GuestInv(p, h)' /\ AheadInv(p, h)'
  <2>1. Paired(p, h) /\ PairInv(p, h) /\ AheadInv(p, h)
    BY <1>0, <1>2, <1>3, PairedBefore
  <2>2. OfferInv(p) /\ HostInv(p, h) /\ GuestInv(p, h)
    BY <2>1 DEF PairInv
  <2>3. HostInv(p, h)'
    BY <1>0, <2>1, <2>2, HostNext
  <2>4. GuestInv(p, h)'
    BY <1>0, <2>1, <2>2, GuestNext
  <2>5. AheadInv(p, h)'
    BY <1>0, <2>1, AheadNext
  <2> QED BY <2>3, <2>4, <2>5
<1>4. ScreenInv'
  BY <1>0, <1>2, ScreenNext DEF NegotiationInv
<1> QED BY <1>0, <1>1, <1>3, <1>4 DEF NegotiationInv

\* The guest of a one-to-one call and its host are initiator and listener.
LEMMA SoleGuestPaired ==
  ASSUME NegotiationInv, NEW p \in UserID, SoleGuest(p), NEW h, h = Host(p)
  PROVE  /\ h \in UserID /\ Paired(p, h) /\ Linked(p, h) /\ Initiator(p) /\ Listener(h)
         /\ StageInv(p) /\ HostInv(p, h) /\ GuestInv(p, h) /\ AheadInv(p, h)
<1> DEFINE s == session_id[p]
<1>1. s \in SessionID
  BY DEF NegotiationInv, Basis, CallInv, ClientTypeOK, SoleGuest
<1>2. h \in UserID /\ h # p /\ Hosting(h, s)
  BY <1>1 DEF NegotiationInv, Basis, OrderInv, TypeOK, SoleGuest, Host, Hosting
<1>3. Hosting(p, s) \/ Joined(p, s)
  BY <1>1 DEF NegotiationInv, Basis, CallInv, PageInv, SoleGuest
<1>4. Joined(p, s)
  BY <1>2, <1>3 DEF Hosting
<1>5. Initiator(p) /\ Listener(h)
  BY DEF SoleGuest, Initiator, Listener
<1>6. Paired(p, h)
  BY <1>2, <1>5 DEF SoleGuest, Paired
<1>7. Linked(p, h)
  BY <1>1, <1>2, <1>4 DEF Linked
<1> QED BY <1>2, <1>5, <1>6, <1>7 DEF NegotiationInv

LEMMA NegotiationInvHolds == WellBehaved => (CallSpec => []NegotiationInv)
<1> SUFFICES ASSUME WellBehaved PROVE CallSpec => []NegotiationInv
  OBVIOUS
<1>1. CallInit => NegotiationInv
  BY NegotiationInit
<1>2. NegotiationInv /\ [CallNext]_callVars => NegotiationInv'
  BY NegotiationNext
<1> QED BY <1>1, <1>2, PTL DEF CallSpec

\* In a one-to-one call the answer that the guest applies is one to the very
\* offer it holds, and is the host's own description (sdp.rs:7-47), whatever else
\* the two pages do and however many others use the server.
THEOREM NegotiationsAgree == WellBehaved => (CallSpec => []AgreedNegotiation)
<1>1. NegotiationInv => AgreedNegotiation
  <2> SUFFICES ASSUME NegotiationInv, NEW p \in UserID, SoleGuest(p), rtc[p].remote # None
               PROVE  rtc[p].remote.re = ID(rtc[p].local) /\ rtc[p].remote = rtc[Host(p)].local
    BY DEF AgreedNegotiation
  <2>1. rtc[p].remote = rtc[Host(p)].local
    BY SoleGuestPaired DEF GuestInv
  <2>2. rtc[Host(p)].remote = rtc[p].local /\ AnswerTo(rtc[Host(p)].local, rtc[Host(p)].remote)
    BY <2>1, SoleGuestPaired DEF HostInv
  <2> QED BY <2>1, <2>2 DEF AnswerTo
<1> QED BY <1>1, NegotiationInvHolds, PTL

\* In a one-to-one call no candidate reaches a connection before the description
\* it needs, although the handlers' tasks apply both in an order of their own
\* (ice.rs:102-131).
THEOREM NoCandidateTooEarly == WellBehaved => (CallSpec => []NoCandidateRefused)
<1>1. NegotiationInv => NoCandidateRefused
  BY SoleGuestPaired DEF NoCandidateRefused, AheadInv
<1> QED BY <1>1, NegotiationInvHolds, PTL

\* In a one-to-one call the host sees the guest once they are connected, and no
\* picture takes the place of another on either page (common.rs:351-365, 507-551).
THEOREM HostSeesGuest == WellBehaved => (CallSpec => []GuestIsSeen)
<1>1. NegotiationInv => GuestIsSeen
  <2> SUFFICES ASSUME NegotiationInv, NEW p \in UserID, SoleGuest(p)
               PROVE  /\ connected[Host(p)] => video[Host(p)]["peer_a_video"] = "remote"
                      /\ video[Host(p)]["peer_b_video"] # "remote"
                      /\ connected[p] => video[p]["peer_a_video"] = "own"
    BY DEF GuestIsSeen
  <2>1. /\ Host(p) \in UserID /\ Paired(p, Host(p)) /\ Listener(Host(p)) /\ OfferInv(p)
    BY SoleGuestPaired DEF StageInv
  <2>2. /\ connected[Host(p)] => video[Host(p)]["peer_a_video"] = "remote"
        /\ video[Host(p)]["peer_b_video"] # "remote"
    BY <2>1 DEF NegotiationInv, ScreenInv
  <2>3. connected[p] => rtc[p].remote # None
    BY DEF NegotiationInv, Basis, PageFacts, Told
  <2>4. connected[p] => video[p]["peer_a_video"] = "own"
    BY <2>1, <2>3 DEF OfferInv
  <2> QED BY <2>2, <2>4
<1> QED BY <1>1, NegotiationInvHolds, PTL

-------------------------------------------------------------------------------
(* One session. *)

\* A candidate lies in a queue only across its session: one side is the host's.
Across(c, m, d) ==
  \/ Hosting(c, m.session) /\ Joined(d, m.session)
  \/ Joined(c, m.session) /\ Hosting(d, m.session)

QueuesShaped ==
  \A d \in UserID : \A m \in Range(out[d]) :
    m.kind = "IceCandidate" => m.by \in UserID /\ Across(m.by, m, d)

LEMMA QueueSources ==
  ASSUME WellBehaved, Basis, NEW d \in UserID, [CallNext]_callVars, NEW m \in Range(out'[d])
  PROVE  \/ m \in Range(out[d])
         \/ m = NewUser(d)
         \/ \E u \in UserID : Deliver(u) /\ d = Addressee(u) /\ m = envelope[u].msg
<1>0. CallInv /\ out \in [UserID -> Seq(SignalEnum)]
  BY DEF Basis, OrderInv, TypeOK
<1>1. Calm \/ UNCHANGED vars => out' = out
  BY DEF Calm, vars
<1>2. \A u \in UserID : ServerReads(u) => out' = out
  BY <1>0, ReadComposes
<1>3. ASSUME NEW u \in UserID, Handles(u) PROVE m \in Range(out[d])
  <2>1. out' = [out EXCEPT ![u] = Tail(out[u])] /\ out[u] # << >>
    BY <1>0, <1>3, Handed
  <2>2. out'[d] = out[d] \/ (d = u /\ out'[d] = Tail(out[d]))
    BY <1>0, <2>1
  <2> QED BY <1>0, <2>1, <2>2, TailRange
<1>4. ASSUME NEW u \in UserID, (Forward(u) /\ socket[u] # "open") \/ Deliver(u) \/ ReplyWithID(u) \/ End(u)
      PROVE  \/ m \in Range(out[d])
             \/ m = NewUser(d)
             \/ Deliver(u) /\ d = Addressee(u) /\ m = envelope[u].msg
  <2>0. /\ out[d] \in Seq(SignalEnum)
        /\ \/ out'[d] = out[d]
           \/ out[d] # << >> /\ out'[d] = Tail(out[d])
           \/ NewUser(d) \in SignalEnum /\ out'[d] = Append(out[d], NewUser(d))
           \/ out'[d] = << >>
           \/ /\ Deliver(u) /\ d = Addressee(u) /\ envelope[u].msg \in SignalEnum
              /\ out'[d] = Append(out[d], envelope[u].msg)
    BY <1>0, <1>4, QueueEffect
  <2>1. out'[d] # << >>
    <3>1. DOMAIN << >> = {}
      OBVIOUS
    <3> QED BY <3>1 DEF Range
  <2>2. out[d] # << >> /\ out'[d] = Tail(out[d]) => m \in Range(out[d])
    BY <2>0, TailRange
  <2>3. \A x \in SignalEnum : out'[d] = Append(out[d], x) => m \in Range(out[d]) \/ m = x
    BY <2>0, AppendRange
  <2> QED BY <2>0, <2>1, <2>2, <2>3
<1> QED BY <1>0, <1>1, <1>2, <1>3, <1>4, Steps

LEMMA QueuesShapedNext ==
  ASSUME WellBehaved, Basis, QueuesShaped, [CallNext]_callVars
  PROVE  QueuesShaped'
<1>1. HistoryGrows
  BY BasisNext
<1>2. ASSUME NEW c \in UserID, NEW d \in UserID, NEW m, Across(c, m, d) PROVE Across(c, m, d)'
  BY <1>1, <1>2, PagesStable DEF Across
<1>3. ASSUME NEW d \in UserID, NEW m \in Range(out'[d]), m.kind = "IceCandidate"
      PROVE  m.by \in UserID /\ Across(m.by, m, d)
  <2>1. m # NewUser(d)
    BY <1>3 DEF NewUser
  <2>2. CASE m \in Range(out[d])
    BY <1>3, <2>2 DEF QueuesShaped
  <2>3. ASSUME NEW u \in UserID, Deliver(u), d = Addressee(u), m = envelope[u].msg
        PROVE  m.by \in UserID /\ Across(m.by, m, d)
    <3>1. pc[u] = "sending" /\ Shaped(u, m, d)
      BY <2>3, EnvelopeIsShaped
    <3>2. m.by = u
      BY <1>3, <2>3, <3>1, Composed DEF Relayed
    <3> QED BY <1>3, <3>1, <3>2 DEF Shaped, Across
  <2> QED BY <2>1, <2>2, <2>3, QueueSources
<1>4. ASSUME NEW d \in UserID, NEW m \in Range(out'[d]), m.kind = "IceCandidate"
      PROVE  m.by \in UserID /\ Across(m.by, m, d)'
  BY <1>2, <1>3, <1>4
<1> QED BY <1>4 DEF QueuesShaped, Across, Hosting, Joined

\* What the guest's session is: the one it shows, whose host is h.
LEMMA SessionOfCall ==
  ASSUME NegotiationInv, NEW p \in UserID, SoleGuest(p), NEW h, h = Host(p), NEW s,
         Joined(p, s)
  PROVE  s = session_id[p]
<1>1. session_id[p] \in SessionID /\ Joined(p, session_id[p])
  <2>1. Paired(p, h) /\ h \in UserID
    BY SoleGuestPaired
  <2>2. session_id[p] \in SessionID /\ (Hosting(p, session_id[p]) \/ Joined(p, session_id[p]))
    BY DEF NegotiationInv, Basis, CallInv, PageInv, SoleGuest, ClientTypeOK
  <2> QED BY <2>1, <2>2, PairSpeaks DEF NegotiationInv
<1>2. s \in SessionID /\ clicks[p]["connect"] <= 1
  BY DEF Joined, SoleGuest
<1> QED BY <1>1, <1>2, OneSeat DEF NegotiationInv, Basis

\* What either side of the call has sent.
LEMMA SentInCall ==
  ASSUME NegotiationInv, NEW p \in UserID, SoleGuest(p), NEW h, h = Host(p),
         NEW q \in {p, h}, NEW i \in DOMAIN sent[q], sent[q][i].kind \in Relayed,
         q = p \/ sent[q][i].kind # "IceCandidate" \/ clicks[q]["start"] = 1
  PROVE  sent[q][i].session = session_id[p]
<1>0. Basis /\ CallInv /\ ClickInv
  BY DEF NegotiationInv, Basis
<1>1. h \in UserID /\ Paired(p, h) /\ HostInv(p, h) /\ Linked(p, h)
  BY SoleGuestPaired
<1>2. PICK s : s = sent[q][i].session
  OBVIOUS
<1>3. s \in SessionID /\ (Hosting(q, s) \/ Joined(q, s))
  BY <1>0, <1>1, <1>2, RelayedIsOwn
<1>4. CASE q = p
  <2>1. Joined(p, s)
    BY <1>0, <1>1, <1>3, <1>4, PairSpeaks
  <2> QED BY <1>2, <2>1, SessionOfCall
<1>5. CASE q = h
  <2>1. ~Joined(h, s) /\ Hosting(h, s)
    BY <1>0, <1>1, <1>3, <1>5, PairSpeaks
  <2>2. CASE sent[q][i].kind = "VideoOffer"
    BY <1>0, <1>1, <1>2, <1>5, <2>1, <2>2, PairSpeaks
  <2>3. CASE sent[q][i].kind = "VideoAnswer"
    <3>1. Joined(p, s)
      BY <1>1, <1>2, <1>5, <2>3 DEF HostInv, Range
    <3> QED BY <1>2, <3>1, SessionOfCall
  <2>4. CASE sent[q][i].kind = "IceCandidate"
    <3>1. clicks[h]["start"] <= 1
      BY <1>1, <1>5, <2>4 DEF Paired
    <3>2. PICK t \in SessionID : Hosting(h, t) /\ Joined(p, t)
      BY <1>1 DEF Linked
    <3>3. s = t
      BY <1>0, <1>1, <1>3, <2>1, <3>1, <3>2, OneSession
    <3> QED BY <1>2, <3>2, <3>3, SessionOfCall
  <2> QED BY <2>2, <2>3, <2>4 DEF Relayed
<1> QED BY <1>4, <1>5

\* What lies in the queue of either side of the call.
LEMMA QueuedInCall ==
  ASSUME NegotiationInv, QueuesShaped, NEW p \in UserID, SoleGuest(p), NEW h, h = Host(p),
         NEW q \in {p, h}, NEW i \in DOMAIN out[q], out[q][i].kind \in Relayed
  PROVE  out[q][i].session = session_id[p] /\ out[q][i].by \in {p, h} \ {q}
<1>0. Basis
  BY DEF NegotiationInv
<1>1. h \in UserID /\ Paired(p, h) /\ p # h
  BY SoleGuestPaired DEF Paired
<1>2. PICK m : m = out[q][i]
  OBVIOUS
<1>3. /\ For(q, m, host_of, guests_of) /\ IsSent(m) /\ m.by \in UserID /\ m.seq \in DOMAIN sent[m.by]
  BY <1>0, <1>1, <1>2, Queued DEF IsSent
<1>4. m.session \in SessionID
  BY <1>2, <1>3 DEF For, SessionKinds
<1> DEFINE u == m.by
           s == m.session
<1>5. \/ Joined(u, s) /\ Hosting(q, s) /\ q = h
      \/ Hosting(u, s) /\ Joined(q, s) /\ q = p
  <2>0. sent[u][m.seq].kind = m.kind /\ sent[u][m.seq].session = s
    BY <1>3 DEF IsSent
  <2>1. (Joined(u, s) /\ Hosting(q, s)) \/ (Hosting(u, s) /\ Joined(q, s))
    <3>1. CASE m.kind = "VideoOffer"
      <4>1. Hosting(q, s)
        BY <1>3, <1>4, <3>1 DEF For, Concerns, Hosting
      <4>2. Joined(u, s)
        BY <1>0, <1>1, <1>3, <2>0, <3>1, PairSpeaks
      <4> QED BY <4>1, <4>2
    <3>2. CASE m.kind = "VideoAnswer"
      <4>1. Joined(q, s)
        BY <1>3, <1>4, <3>2 DEF For, Concerns, Joined
      <4>2. Hosting(u, s)
        BY <1>0, <1>1, <1>3, <2>0, <3>2, PairSpeaks
      <4> QED BY <4>1, <4>2
    <3>3. CASE m.kind = "IceCandidate"
      <4>1. m \in Range(out[q])
        BY <1>2 DEF Range
      <4> QED BY <1>1, <3>3, <4>1 DEF QueuesShaped, Across
    <3> QED BY <1>2, <3>1, <3>2, <3>3 DEF Relayed
  <2> QED BY <1>0, <1>1, <2>1, PairSpeaks
<1>6. CASE q = h /\ Joined(u, s) /\ Hosting(q, s)
  <2>1. u = p
    BY <1>0, <1>1, <1>3, <1>6, PairSpeaks
  <2> QED BY <1>1, <1>2, <1>6, <2>1, SessionOfCall
<1>7. CASE q = p /\ Hosting(u, s) /\ Joined(q, s)
  <2>1. s = session_id[p]
    BY <1>7, SessionOfCall
  <2>2. u = h
    BY <1>7, <2>1 DEF Hosting, Host
  <2> QED BY <1>1, <1>2, <1>7, <2>1, <2>2
<1> QED BY <1>5, <1>6, <1>7

\* A one-to-one call keeps to its session, whatever sessions its host has opened
\* besides: the guest's messages, the host's answers and, if it started once, its
\* candidates are about it (ice.rs:71-87), and so is whatever reaches either side,
\* which is from the other.
THEOREM CallStaysInSession == WellBehaved => (CallSpec => []OneCallOneSession)
<1> SUFFICES ASSUME WellBehaved PROVE CallSpec => []OneCallOneSession
  OBVIOUS
<1>1. CallInit => QueuesShaped
  <2>1. DOMAIN << >> = {}
    OBVIOUS
  <2>2. CallInit => \A d \in UserID : out[d] = << >>
    BY DEF CallInit, Init
  <2> QED BY <2>1, <2>2 DEF QueuesShaped, Range
<1>2. NegotiationInv /\ QueuesShaped /\ [CallNext]_callVars => QueuesShaped'
  BY QueuesShapedNext DEF NegotiationInv
<1>3. NegotiationInv /\ QueuesShaped => OneCallOneSession
  BY SentInCall, QueuedInCall DEF OneCallOneSession
<1> QED BY <1>1, <1>2, <1>3, NegotiationInvHolds, PTL DEF CallSpec

===============================================================================
