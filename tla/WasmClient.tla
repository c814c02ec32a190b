------------------------------ MODULE WasmClient ------------------------------
(***************************************************************************)
(* wasm_client/src: the page in the browser.  The page's user is named by  *)
(* the identifier that the server gives to its connection.                 *)
(*                                                                         *)
(* The page has one thread.  A click, a message or a candidate runs its    *)
(* callback; what a callback spawns runs up to its first await at once and *)
(* continues when the promise it waits for is settled.  Two kinds of       *)
(* promises matter: the camera's, which a user may leave open for as long  *)
(* as they like, and those of the RTCPeerConnection, whose operations wait *)
(* in one queue and are carried out in order.  A step of this module is    *)
(* one callback, or one promise with the code that it resumes.             *)
(***************************************************************************)
EXTENDS SignalProtocol, Sequences, SequencesExt

CONSTANTS
  Hosts,          \* users that click Start
  Guests,         \* users that click Connect
  Debuggers,      \* users that click the button that logs the server's state
  MaxClicks,      \* bound: clicks of one user on one button
  MaxCandidates,  \* bound: candidates found for one local description
  CameraDenied,   \* a user may deny access to the camera
  Guessing,       \* a user may type an identifier that no page has shown
  Reachable       \* the pages can reach each other over the network

ASSUME ClientAssumption ==
  /\ Hosts \subseteq UserID
  /\ Guests \subseteq UserID
  /\ Debuggers \subseteq UserID
  /\ MaxClicks \in Nat
  /\ MaxCandidates \in Nat
  /\ CameraDenied \in BOOLEAN
  /\ Guessing \in BOOLEAN
  /\ Reachable \in BOOLEAN

VARIABLES
  socket,      \* the page's WebSocket: "connecting", "open", "lost" with the page still
               \* there, or "closed" with the page
  session_id,  \* AppState.session_id
  user_id,     \* AppState.user_id
  clicks,      \* clicks on each button so far
  sent,        \* everything the page has sent, in order
  camera,      \* get_video calls whose promise is open, with who waits for them
  rtc,         \* the RTCPeerConnection
  ops,         \* its queue of operations, with the handler waiting for each
  gathering,   \* candidates found, whose events have not fired
  sleeping,    \* candidates that wait for a session identifier
  refused,     \* candidates of the other side that were refused
  connected,   \* the ICE connection has been established
  video        \* what the two video elements show

clientVars == <<socket, session_id, user_id, clicks, sent, camera, rtc, ops,
                gathering, sleeping, refused, connected, video>>

(***************************************************************************)
(* A description is an offer, or the answer "re" some offer.  It carries   *)
(* the streams that had been added to the connection when it was created,  *)
(* an answer no more of them than the offer has lines for.                 *)
(***************************************************************************)
OfferID     == UserID \X Nat
Description == [by : UserID, n : Nat, streams : Nat, lines : Nat, re : OfferID \cup {None}]
ID(d)       == <<d.by, d.n>>

ASSUME NoneIsNoDescription == None \notin Description

Signaling == {"stable", "have-local-offer", "have-remote-offer"}

PeerConnection ==
  [signaling : Signaling,
   local     : Description \cup {None},
   remote    : Description \cup {None},
   created   : Description \cup {None},   \* the latest offer or answer created, until
                                          \* a negotiation completes
   streams   : Nat,
   made      : Nat]

OpNames == {"create_offer", "set_local_offer", "set_remote_offer", "create_answer",
            "set_local_answer", "set_remote_answer", "add_ice_candidate"}
Operation == [op : OpNames, desc : Description \cup {None}, session : SessionID \cup {None}]
Message   == [kind : Requests, session : SessionID \cup {None}, desc : Description \cup {None}]
Waiting   == [for : {"start", "offer"}, session : SessionID \cup {None}]
Button    == {"start", "connect", "debug"}
Pane      == {"peer_a_video", "peer_b_video"}

ClientTypeOK ==
  /\ socket \in [UserID -> {"connecting", "open", "lost", "closed"}]
  /\ session_id \in [UserID -> SessionID \cup {None}]
  /\ user_id \in [UserID -> UserID \cup {None}]
  /\ clicks \in [UserID -> [Button -> Nat]]
  /\ sent \in [UserID -> Seq(Message)]
  /\ camera \in [UserID -> Seq(Waiting)]
  /\ rtc \in [UserID -> PeerConnection]
  /\ ops \in [UserID -> Seq(Operation)]
  /\ gathering \in [UserID -> Nat]
  /\ sleeping \in [UserID -> Nat]
  /\ refused \in [UserID -> Nat]
  /\ connected \in [UserID -> BOOLEAN]
  /\ video \in [UserID -> [Pane -> {"nothing", "own", "remote"}]]

\* start(): a fresh AppState and a plain peer connection; the socket connects.
ClientInit ==
  /\ socket = [p \in UserID |-> "connecting"]
  /\ session_id = [p \in UserID |-> None]
  /\ user_id = [p \in UserID |-> None]
  /\ clicks = [p \in UserID |-> [b \in Button |-> 0]]
  /\ sent = [p \in UserID |-> << >>]
  /\ camera = [p \in UserID |-> << >>]
  /\ rtc = [p \in UserID |-> [signaling |-> "stable", local |-> None, remote |-> None,
                              created |-> None, streams |-> 0, made |-> 0]]
  /\ ops = [p \in UserID |-> << >>]
  /\ gathering = [p \in UserID |-> 0]
  /\ sleeping = [p \in UserID |-> 0]
  /\ refused = [p \in UserID |-> 0]
  /\ connected = [p \in UserID |-> FALSE]
  /\ video = [p \in UserID |-> [e \in Pane |-> "nothing"]]

\* The connection to the other page, and what is seen of it.
screen == <<connected, video>>

-------------------------------------------------------------------------------
(* The socket. *)

\* send_with_str: a socket that is not open refuses, and the error is logged.
Send(p, kind, s, d) ==
  sent' = IF socket[p] = "open"
          THEN [sent EXCEPT ![p] = Append(@, [kind |-> kind, session |-> s, desc |-> d])]
          ELSE sent

OnOpen(p) ==
  /\ socket[p] = "connecting"
  /\ socket' = [socket EXCEPT ![p] = "open"]
  /\ UNCHANGED <<session_id, user_id, clicks, sent, camera, rtc, ops, gathering, sleeping, refused, screen>>

\* The page is closed, and everything on it stops, or only its socket is.
EndSocket(p, how) ==
  /\ socket[p] = "open"
  /\ socket' = [socket EXCEPT ![p] = how]
  /\ UNCHANGED <<session_id, user_id, clicks, sent, camera, rtc, ops, gathering, sleeping, refused, screen>>

Click(p, button) ==
  /\ socket[p] # "closed"
  /\ clicks[p][button] < MaxClicks
  /\ clicks' = [clicks EXCEPT ![p][button] = @ + 1]

\* setup_listener's callback asks for the camera and does not wait for it;
\* host_session asks for a session at once.
ClickStart(p) ==
  /\ p \in Hosts
  /\ Click(p, "start")
  /\ camera' = [camera EXCEPT ![p] = Append(@, [for |-> "start", session |-> None])]
  /\ Send(p, "SessionNew", None, None)
  /\ UNCHANGED <<socket, session_id, user_id, rtc, ops, gathering, sleeping, refused, screen>>

\* try_connect_to_session, with the identifier typed into the page.
Shown(s) == Guessing \/ \E q \in UserID : session_id[q] = s

\* A mutant: the camera is asked for, and the offer sent, whether or not the
\* session can be joined.
ConnectOffers(p) ==
  /\ p \in Guests
  /\ Click(p, "connect")
  /\ \E s \in SessionID :
       /\ Shown(s)
       /\ Send(p, "SessionJoin", s, None)
       /\ camera' = [camera EXCEPT ![p] = Append(@, [for |-> "offer", session |-> s])]
  /\ UNCHANGED <<socket, session_id, user_id, rtc, ops, gathering, sleeping, refused, screen>>

\* A mutant: the session is taken for joined before the server says so.
ConnectAssumes(p) ==
  /\ p \in Guests
  /\ Click(p, "connect")
  /\ \E s \in SessionID :
       Shown(s) /\ Send(p, "SessionJoin", s, None) /\ session_id' = [session_id EXCEPT ![p] = s]
  /\ UNCHANGED <<socket, user_id, camera, rtc, ops, gathering, sleeping, refused, screen>>

ClickConnect(p) ==
  /\ p \in Guests
  /\ Click(p, "connect")
  /\ \E s \in SessionID : Shown(s) /\ Send(p, "SessionJoin", s, None)
  /\ UNCHANGED <<socket, session_id, user_id, camera, rtc, ops, gathering, sleeping, refused, screen>>

\* setup_show_signalling_server_state's callback.
ClickDebug(p) ==
  /\ p \in Debuggers
  /\ Click(p, "debug")
  /\ Send(p, "Debug", None, None)
  /\ UNCHANGED <<socket, session_id, user_id, camera, rtc, ops, gathering, sleeping, refused, screen>>

-------------------------------------------------------------------------------
(* handle_message_reply, up to its first await.  d is the description in m. *)

\* An operation of the connection, which the handler awaits.
Await(p, op, d, s) ==
  ops' = [ops EXCEPT ![p] = Append(@, [op |-> op, desc |-> d, session |-> s])]

OnVideoOffer(p, m, d) ==
  /\ m.kind = "VideoOffer"
  /\ Await(p, "set_remote_offer", d, m.session)
  /\ UNCHANGED <<session_id, user_id, camera>>

OnVideoAnswer(p, m, d) ==
  /\ m.kind = "VideoAnswer"
  /\ Await(p, "set_remote_answer", d, m.session)
  /\ UNCHANGED <<session_id, user_id, camera>>

OnIceCandidate(p, m) ==
  /\ m.kind = "IceCandidate"
  /\ Await(p, "add_ice_candidate", None, m.session)
  /\ UNCHANGED <<session_id, user_id, camera>>

\* A mutant: the identifier is only shown.
ReadyOnlyShown(p, m) ==
  /\ m.kind = "SessionReady"
  /\ UNCHANGED <<session_id, user_id, camera, ops>>

OnSessionReady(p, m) ==
  /\ m.kind = "SessionReady"
  /\ session_id' = [session_id EXCEPT ![p] = m.session]
  /\ UNCHANGED <<user_id, camera, ops>>

\* A mutant: the offer does not wait for the camera.
OfferAtOnce(p, m) ==
  /\ m.kind = "SessionJoinSuccess"
  /\ session_id' = [session_id EXCEPT ![p] = m.session]
  /\ camera' = [camera EXCEPT ![p] = Append(@, [for |-> "start", session |-> None])]
  /\ Await(p, "create_offer", None, m.session)
  /\ UNCHANGED user_id

\* send_video_offer begins with the camera.
OnSessionJoinSuccess(p, m) ==
  /\ m.kind = "SessionJoinSuccess"
  /\ session_id' = [session_id EXCEPT ![p] = m.session]
  /\ camera' = [camera EXCEPT ![p] = Append(@, [for |-> "offer", session |-> m.session])]
  /\ UNCHANGED <<user_id, ops>>

OnNewUser(p, m) ==
  /\ m.kind = "NewUser"
  /\ user_id' = [user_id EXCEPT ![p] = m.by]
  /\ UNCHANGED <<session_id, camera, ops>>

\* A SessionJoinError is shown, and so is whatever the server should not send.
OnOther(p, m) ==
  /\ m.kind \in {"SessionJoinError", "SessionJoin", "SessionNew", "ICEError", "Debug"}
  /\ UNCHANGED <<session_id, user_id, camera, ops>>

OnMessage(p, m, d) ==
  /\ socket[p] = "open"
  /\ \/ OnVideoOffer(p, m, d)
     \/ OnVideoAnswer(p, m, d)
     \/ OnIceCandidate(p, m)
     \/ OnSessionReady(p, m)
     \/ OnSessionJoinSuccess(p, m)
     \/ OnNewUser(p, m)
     \/ OnOther(p, m)
  /\ UNCHANGED <<socket, clicks, sent, rtc, gathering, sleeping, refused, screen>>

-------------------------------------------------------------------------------
(* get_video, and what waits for it. *)

\* Where get_video shows the stream.
OwnPane(for) == IF for = "start" THEN "peer_b_video" ELSE "peer_a_video"

\* send_video_offer goes on to create_offer; setup_listener's task is done.
AfterVideo(p, w) ==
  IF w.for = "offer" THEN Await(p, "create_offer", None, w.session) ELSE UNCHANGED ops

\* get_video's promise is settled: the stream is shown and added.
CameraGranted(p) ==
  /\ socket[p] # "closed"
  /\ \E i \in DOMAIN camera[p] :
       /\ camera' = [camera EXCEPT ![p] = RemoveAt(@, i)]
       /\ AfterVideo(p, camera[p][i])
       /\ video' = [video EXCEPT ![p][OwnPane(camera[p][i].for)] = "own"]
  /\ rtc' = [rtc EXCEPT ![p].streams = @ + 1]
  /\ UNCHANGED <<socket, session_id, user_id, clicks, sent, gathering, sleeping, refused, connected>>

\* A mutant: the other side is told.
RefusalReported(p) ==
  /\ CameraDenied
  /\ socket[p] # "closed"
  /\ \E i \in DOMAIN camera[p] :
       /\ camera' = [camera EXCEPT ![p] = RemoveAt(@, i)]
       /\ Send(p, "ICEError", camera[p][i].session, None)
  /\ UNCHANGED <<socket, session_id, user_id, clicks, rtc, ops, gathering, sleeping, refused, screen>>

\* expect_throw ends whatever waited for the camera.
CameraRefused(p) ==
  /\ CameraDenied
  /\ socket[p] # "closed"
  /\ \E i \in DOMAIN camera[p] : camera' = [camera EXCEPT ![p] = RemoveAt(@, i)]
  /\ UNCHANGED <<socket, session_id, user_id, clicks, sent, rtc, ops, gathering, sleeping, refused, screen>>

-------------------------------------------------------------------------------
(***************************************************************************)
(* The operations of the RTCPeerConnection, each with the code that its    *)
(* promise resumes: the handler enqueues its next operation or sends its   *)
(* message, or, when the promise is rejected, ends.  The conditions and    *)
(* effects are those of the browsers: a description is only set in certain *)
(* signaling states, a local one only if it is the latest created, an      *)
(* answer only if it has the lines of the offer, a remote offer rolls a    *)
(* local one back, a candidate needs a remote description.                 *)
(***************************************************************************)
Current(p) == Head(ops[p])

\* The first operation is the last of its handler.
Finish(p) == ops' = [ops EXCEPT ![p] = Tail(@)]

\* Its handler goes on to another operation.
Continue(p, op, d) ==
  ops' = [ops EXCEPT ![p] =
            Append(Tail(@), [op |-> op, desc |-> d, session |-> Current(p).session])]

\* An offer has a line for each stream, and for each of the other side's lines;
\* an answer has the lines of its offer.
NewOffer(p) ==
  LET other == IF rtc[p].remote = None THEN 0 ELSE rtc[p].remote.lines
  IN  [by |-> p, n |-> rtc[p].made + 1, streams |-> rtc[p].streams,
       lines |-> Max({rtc[p].streams, other}), re |-> None]

NewAnswer(p) ==
  LET offer == rtc[p].remote
  IN  [by |-> p, n |-> rtc[p].made + 1, streams |-> Min({rtc[p].streams, offer.lines}),
       lines |-> offer.lines, re |-> ID(offer)]

Create(p, d) == rtc' = [rtc EXCEPT ![p].created = d, ![p].made = d.n]

\* Setting a local description starts the search for candidates.
Gather(p) == \E k \in 0..MaxCandidates : gathering' = [gathering EXCEPT ![p] = @ + k]

\* A mutant: candidates are looked for before the offer is sent.
CreateOfferGathers(p) ==
  /\ Current(p).op = "create_offer"
  /\ rtc[p].signaling \in {"stable", "have-local-offer"}
  /\ LET d == NewOffer(p)
     IN  Create(p, d) /\ Continue(p, "set_local_offer", d)
  /\ Gather(p)
  /\ UNCHANGED <<sent, refused>>

CreateOffer(p) ==
  /\ Current(p).op = "create_offer"
  /\ rtc[p].signaling \in {"stable", "have-local-offer"}
  /\ LET d == NewOffer(p)
     IN  Create(p, d) /\ Continue(p, "set_local_offer", d)
  /\ UNCHANGED <<sent, gathering, refused>>

SetLocalOffer(p) ==
  /\ Current(p).op = "set_local_offer"
  /\ rtc[p].signaling \in {"stable", "have-local-offer"}
  /\ Current(p).desc = rtc[p].created
  /\ rtc' = [rtc EXCEPT ![p].signaling = "have-local-offer", ![p].local = Current(p).desc]
  /\ Send(p, "VideoOffer", Current(p).session, Current(p).desc)
  /\ Gather(p)
  /\ Finish(p)
  /\ UNCHANGED refused

\* A mutant: a page that has no stream yet does not answer.
AnswerNeedsStream(p) ==
  /\ Current(p).op = "set_remote_offer"
  /\ rtc' = [rtc EXCEPT ![p].signaling = "have-remote-offer", ![p].remote = Current(p).desc]
  /\ IF rtc[p].streams = 0 THEN Finish(p) ELSE Continue(p, "create_answer", None)
  /\ UNCHANGED <<sent, gathering, refused>>

SetRemoteOffer(p) ==
  /\ Current(p).op = "set_remote_offer"
  /\ rtc' = [rtc EXCEPT ![p].signaling = "have-remote-offer", ![p].remote = Current(p).desc]
  /\ Continue(p, "create_answer", None)
  /\ UNCHANGED <<sent, gathering, refused>>

CreateAnswer(p) ==
  /\ Current(p).op = "create_answer"
  /\ rtc[p].signaling = "have-remote-offer"
  /\ LET d == NewAnswer(p)
     IN  Create(p, d) /\ Continue(p, "set_local_answer", d)
  /\ UNCHANGED <<sent, gathering, refused>>

\* A mutant: the answer carries the session that the page shows.
AnswerWhereShown(p) ==
  /\ Current(p).op = "set_local_answer"
  /\ rtc[p].signaling = "have-remote-offer"
  /\ Current(p).desc = rtc[p].created
  /\ rtc' = [rtc EXCEPT ![p].signaling = "stable", ![p].local = Current(p).desc,
                        ![p].created = None]
  /\ Send(p, "VideoAnswer", IF session_id[p] = None THEN Current(p).session ELSE session_id[p],
          Current(p).desc)
  /\ Gather(p)
  /\ Finish(p)
  /\ UNCHANGED refused

SetLocalAnswer(p) ==
  /\ Current(p).op = "set_local_answer"
  /\ rtc[p].signaling = "have-remote-offer"
  /\ Current(p).desc = rtc[p].created
  /\ rtc' = [rtc EXCEPT ![p].signaling = "stable", ![p].local = Current(p).desc,
                        ![p].created = None]
  /\ Send(p, "VideoAnswer", Current(p).session, Current(p).desc)
  /\ Gather(p)
  /\ Finish(p)
  /\ UNCHANGED refused

\* There is an offer with as many lines.
AnswerFits(p) ==
  rtc[p].signaling = "have-local-offer" /\ Current(p).desc.lines = rtc[p].local.lines

SetRemoteAnswer(p) ==
  /\ Current(p).op = "set_remote_answer"
  /\ AnswerFits(p)
  /\ rtc' = [rtc EXCEPT ![p].signaling = "stable", ![p].remote = Current(p).desc,
                        ![p].created = None]
  /\ Finish(p)
  /\ UNCHANGED <<sent, gathering, refused>>

AddIceCandidate(p) ==
  /\ Current(p).op = "add_ice_candidate"
  /\ refused' = IF rtc[p].remote = None THEN [refused EXCEPT ![p] = @ + 1] ELSE refused
  /\ Finish(p)
  /\ UNCHANGED <<rtc, sent, gathering>>

\* The signaling state, or a description that is not the latest, does not allow
\* the operation: the handler returns an error, or throws.
Rejected(p) ==
  /\ \/ /\ Current(p).op \in {"create_offer", "set_local_offer"}
        /\ rtc[p].signaling = "have-remote-offer"
     \/ /\ Current(p).op \in {"create_answer", "set_local_answer"}
        /\ rtc[p].signaling # "have-remote-offer"
     \/ /\ Current(p).op = "set_remote_answer"
        /\ ~AnswerFits(p)
     \/ /\ Current(p).op \in {"set_local_offer", "set_local_answer"}
        /\ Current(p).desc # rtc[p].created
  /\ Finish(p)
  /\ UNCHANGED <<rtc, sent, gathering, refused>>

RunOperation(p) ==
  /\ socket[p] # "closed"
  /\ ops[p] # << >>
  /\ \/ CreateOffer(p)
     \/ SetLocalOffer(p)
     \/ SetRemoteOffer(p)
     \/ CreateAnswer(p)
     \/ SetLocalAnswer(p)
     \/ SetRemoteAnswer(p)
     \/ AddIceCandidate(p)
     \/ Rejected(p)
  /\ UNCHANGED <<socket, session_id, user_id, clicks, camera, sleeping, screen>>

-------------------------------------------------------------------------------
(* Candidates found by this side. *)

\* A mutant: the event that ends the search is taken for a candidate.
OnEndOfCandidates(p) ==
  /\ socket[p] # "closed"
  /\ rtc[p].local # None
  /\ gathering' = [gathering EXCEPT ![p] = @ - 1]
  /\ IF session_id[p] = None
     THEN sleeping' = [sleeping EXCEPT ![p] = @ + 1] /\ UNCHANGED sent
     ELSE Send(p, "IceCandidate", session_id[p], None) /\ UNCHANGED sleeping
  /\ UNCHANGED <<socket, session_id, user_id, clicks, camera, rtc, ops, refused, screen>>

\* send_ice_candidate, from onicecandidate: without a session it sleeps.
OnCandidate(p) ==
  /\ socket[p] # "closed"
  /\ gathering[p] > 0
  /\ gathering' = [gathering EXCEPT ![p] = @ - 1]
  /\ IF session_id[p] = None
     THEN sleeping' = [sleeping EXCEPT ![p] = @ + 1] /\ UNCHANGED sent
     ELSE Send(p, "IceCandidate", session_id[p], None) /\ UNCHANGED sleeping
  /\ UNCHANGED <<socket, session_id, user_id, clicks, camera, rtc, ops, refused, screen>>

\* send_ice_candidate again, three seconds later; without a session it sleeps on.
RetryCandidate(p) ==
  /\ socket[p] # "closed"
  /\ sleeping[p] > 0
  /\ session_id[p] # None
  /\ sleeping' = [sleeping EXCEPT ![p] = @ - 1]
  /\ Send(p, "IceCandidate", session_id[p], None)
  /\ UNCHANGED <<socket, session_id, user_id, clicks, camera, rtc, ops, gathering, refused, screen>>

-------------------------------------------------------------------------------
(* The connection to the other page. *)

\* setup_initiator's callback shows the other side in peer_b_video, and a click
\* on Start puts setup_listener's in its place.
RemotePane(p) == IF clicks[p]["start"] = 0 THEN "peer_b_video" ELSE "peer_a_video"

\* A mutant: the callback of setup_initiator stays.
ConnectedToInitiator(p) ==
  /\ Reachable
  /\ socket[p] # "closed"
  /\ rtc[p].remote # None
  /\ rtc[p].signaling # "have-remote-offer" \/ connected[p]
  /\ connected' = [connected EXCEPT ![p] = TRUE]
  /\ video' = IF rtc[p].remote.streams = 1
              THEN [video EXCEPT ![p]["peer_b_video"] = "remote"]
              ELSE video
  /\ UNCHANGED <<socket, session_id, user_id, clicks, sent, camera, rtc, ops, gathering, sleeping, refused>>

\* The ICE connection is established, or established again after a break: the
\* other side is shown if it has exactly one stream.
OnConnected(p) ==
  /\ Reachable
  /\ socket[p] # "closed"
  /\ rtc[p].remote # None
  /\ rtc[p].signaling # "have-remote-offer" \/ connected[p]
  /\ connected' = [connected EXCEPT ![p] = TRUE]
  /\ video' = IF rtc[p].remote.streams = 1
              THEN [video EXCEPT ![p][RemotePane(p)] = "remote"]
              ELSE video
  /\ UNCHANGED <<socket, session_id, user_id, clicks, sent, camera, rtc, ops, gathering, sleeping, refused>>

\* What the page does without hearing from the server.
PageStep(p) ==
  \/ ClickStart(p)
  \/ ClickConnect(p)
  \/ ClickDebug(p)
  \/ CameraGranted(p)
  \/ CameraRefused(p)
  \/ RunOperation(p)
  \/ OnCandidate(p)
  \/ RetryCandidate(p)
  \/ OnConnected(p)
===============================================================================
