------------------------------- MODULE VideoCall -------------------------------
(***************************************************************************)
(* Pages of WasmClient that talk to one SignallingServer.  What a page     *)
(* sends is read by the task of its connection in the order of sending,    *)
(* and what the task forwards is handled by the page: one WebSocket, over  *)
(* which nothing is lost or reordered while it is open.  The server gives  *)
(* every connection an identifier of its own; page and connection are      *)
(* named by it.                                                            *)
(***************************************************************************)
EXTENDS SignallingServer, WasmClient

CONSTANT
  Leaving   \* how the connection of a page may end

ASSUME CallAssumption ==
  /\ Leaving \subseteq {"closed", "lost"}
  /\ Requests \ {"ICEError"} \subseteq ClientKinds

callVars == <<clientVars, vars>>

CallTypeOK == ClientTypeOK /\ TypeOK

CallInit == ClientInit /\ Init

-------------------------------------------------------------------------------
\* The page opens its socket, and the server accepts the connection.
Connect(p) == \E a \in Addr : Accept(p, a) /\ OnOpen(p)

\* The page is closed, or its connection breaks, and the server's end notices.
Depart(p) == Close(p) /\ \E how \in Leaving : EndSocket(p, how)

\* The n-th message of page p as the server sees it.
Wire(p, n) == [kind |-> sent[p][n].kind, session |-> sent[p][n].session, by |-> p, seq |-> n]

\* The description in a message: the server passes the text on as it is.
Text(m) == IF m.kind \in Relayed THEN sent[m.by][m.seq].desc ELSE None

\* The task of p's connection reads the next message of the page.
ServerReads(p) ==
  /\ received[p] < Len(sent[p])
  /\ received[p] < MaxRequests
  /\ HandleMessage(p, Wire(p, received[p] + 1))
  /\ UNCHANGED clientVars

\* The task forwards the oldest message, and the page, unless cut off, handles it.
PageReads(p) ==
  /\ Forward(p)
  /\ IF socket[p] = "open"
     THEN OnMessage(p, Head(out[p]), Text(Head(out[p])))
     ELSE UNCHANGED clientVars

ServerStep(p) == TaskStep(p) /\ UNCHANGED clientVars

PageActs(p) == PageStep(p) /\ UNCHANGED vars

CallNext ==
  \E p \in UserID :
    \/ Connect(p)
    \/ Depart(p)
    \/ ServerReads(p)
    \/ PageReads(p)
    \/ ServerStep(p)
    \/ PageActs(p)

CallSpec == CallInit /\ [][CallNext]_callVars

(***************************************************************************)
(* The server polls its tasks and the browser runs what is ready.  A user  *)
(* who is asked for the camera answers some time; nobody has to click, to  *)
(* open a page or to close one.                                            *)
(***************************************************************************)
Browser(p) == (CameraGranted(p) \/ RunOperation(p) \/ OnCandidate(p) \/ RetryCandidate(p))
                /\ UNCHANGED vars

FairCallSpec ==
  /\ CallSpec
  /\ \A p \in UserID :
       /\ WF_callVars(ServerReads(p))
       /\ WF_callVars(PageReads(p))
       /\ WF_callVars(ServerStep(p))
       /\ WF_callVars(Browser(p))

-------------------------------------------------------------------------------
(* Properties. *)

Host(p) == host_of[session_id[p]]

\* The guest p of a one-to-one call: p has joined one session, nobody else has
\* joined a session of that host, and neither of the two also takes the other
\* part in some session.
SoleGuest(p) ==
  /\ session_id[p] # None
  /\ Host(p) \notin {None, p}
  /\ clicks[p]["connect"] = 1 /\ clicks[p]["start"] = 0
  /\ clicks[Host(p)]["connect"] = 0
  /\ \A s \in SessionID : host_of[s] = Host(p) => guests_of[s] \subseteq {p}

\* Seen from the server, the pages are the clients that SignallingServer assumes:
\* whatever they send about a session names one, though candidates are found and
\* cameras granted before and after a session is known, and no failure on a page
\* makes it send the ICEError at which the server's task panics
\* (signalling-server.rs:243-245, ice.rs:71-87).
PagesAreClients == Spec

\* The session a page shows is one it hosts or has joined: SessionReady and
\* SessionJoinSuccess reach the page that asked, though the server composes
\* and delivers them in separate steps (common.rs:165-187).
ShowsOwnSession ==
  \A p \in UserID : session_id[p] # None =>
    p = Host(p) \/ p \in guests_of[session_id[p]]

\* In a one-to-one call the answer that a guest applies is one to the very offer
\* it holds, and is the host's own description (sdp.rs:7-47).  Between the offer
\* and the answer lie five handlers and two relays.
AgreedNegotiation ==
  \A p \in UserID : SoleGuest(p) /\ rtc[p].remote # None =>
    /\ rtc[p].remote.re = ID(rtc[p].local)
    /\ rtc[p].remote = rtc[Host(p)].local

\* In a one-to-one call no candidate overtakes the description it belongs
\* to, although it is the handlers' tasks that apply them, in an order of
\* their own (ice.rs:102-131).
NoCandidateRefused ==
  \A p \in UserID : SoleGuest(p) => refused[p] = 0 /\ refused[Host(p)] = 0

\* A one-to-one call keeps to its session, though its host may have opened another
\* one since.  The guest's messages and the host's answers are about it: an answer
\* carries the session of its offer, not the one the host shows.  Candidates are
\* tagged with the session that the page shows when they are found
\* (ice.rs:71-87): the host's are about the call unless it started again, and what
\* reaches either side is about the call in any case, and from the other side.
OneCallOneSession ==
  \A p \in UserID : SoleGuest(p) =>
    \A q \in {p, Host(p)} :
      /\ \A i \in DOMAIN sent[q] :
           /\ sent[q][i].kind \in Relayed
           /\ q = p \/ sent[q][i].kind # "IceCandidate" \/ clicks[q]["start"] = 1
           => sent[q][i].session = session_id[p]
      /\ \A i \in DOMAIN out[q] :
           out[q][i].kind \in Relayed =>
             out[q][i].session = session_id[p] /\ out[q][i].by \in {p, Host(p)} \ {q}

\* A guest's offer carries its stream: send_video_offer waits for the camera
\* (common.rs:620-633), whatever else uses the connection meanwhile.
OfferHasStream ==
  \A p \in UserID : \A i \in DOMAIN sent[p] :
    sent[p][i].kind = "VideoOffer" => sent[p][i].desc.streams > 0

\* Offers come from those who joined the session, answers from its host, though
\* the server asks neither who they are, as it does of candidates
\* (signalling-server.rs:118-180): the page offers only what it has been told it
\* has joined.
OffersFromMembers ==
  \A p \in UserID : \A i \in DOMAIN out[p] :
    LET m == out[p][i]
    IN  /\ m.kind = "VideoOffer" => m.by \in guests_of[m.session]
        /\ m.kind = "VideoAnswer" => m.by = host_of[m.session]

\* In a one-to-one call, once the pages are connected, the host sees the guest,
\* as the only stream of the guest's offer, and on neither page does one picture
\* take the place of the other: cameras, descriptions and the connection come in
\* any order, and the callback that shows the picture is exchanged by a click
\* (common.rs:351-365, 507-551).
GuestIsSeen ==
  \A p \in UserID : SoleGuest(p) =>
    /\ connected[Host(p)] => video[Host(p)]["peer_a_video"] = "remote"
    /\ video[Host(p)]["peer_b_video"] # "remote"
    /\ connected[p] => video[p]["peer_a_video"] = "own"

\* "Need to setup Media Stream BEFORE sending SDP offer!!!" (common.rs:368, in
\* the handler of the Start button): so does the answer of a host.
AnswerHasStream ==
  \A p \in UserID : \A i \in DOMAIN sent[p] :
    sent[p][i].kind = "VideoAnswer" => sent[p][i].desc.streams > 0

\* Guest and host hold each other's latest description.
InCall(p) ==
  /\ rtc[p].signaling = "stable"
  /\ rtc[p].remote # None
  /\ ID(rtc[Host(p)].remote) = ID(rtc[p].local)

\* A guest whose join has succeeded ends up in a call with the host, unless a
\* page is closed or the call does not stay one-to-one.
JoinLeadsToCall ==
  \A p \in UserID :
    SoleGuest(p) ~>
      \/ ~SoleGuest(p)
      \/ InCall(p)
      \/ {socket[p], socket[Host(p)]} # {"open"}

\* A candidate that waits for a session identifier is sent in the end: the
\* page that has a local description learns its session (ice.rs:76-84).
SleepersWake ==
  \A p \in UserID : sleeping[p] > 0 ~> sleeping[p] = 0 \/ socket[p] # "open"
===============================================================================
