# WebRTC in Rust: specifications and proofs

The repository is a tutorial for browser-to-browser video. A page compiled from
`wasm_client` asks a WebSocket server (`signalling-server`) to open or join a
*session*; through the server the two pages exchange an offer, an answer and
network candidates, and then talk to each other directly, or through the
`turn-server`. This directory holds TLA+ modules for the signalling server, its
protocol, the client, the composition of both, the server's mutexes and the
credentials of the TURN server; configurations for TLC; and proofs for TLAPS. Paths
below are relative to the repository's root.

## Inventory

| component | state | operations | speaks to |
|---|---|---|---|
| shared protocol, `shared-protocol/src/lib.rs` | none | the messages `SignalEnum` | server and client |
| server, connections, `signalling-server.rs:416-536` | `peer_map` (address to queue), `user_list` (user to address), `session_list` (session to host and guest), one mutex each; per task: its queue, its user, its progress | accept, register, reply with the identifier, read and forward under `select`, five-part clean-up | all tasks through the maps, pages through sockets |
| server, messages, `signalling-server.rs:98-407` | the same maps | one handler for each kind of message, then delivery | the queue of the sender, or of the other member |
| client, state and messages, `common.rs:28-208`, `websockets.rs` | `AppState` (session, user), the socket | one handler for each kind of message, spawned as a task | server; peer connection |
| client, descriptions, `sdp.rs`, `common.rs:620-650` | the `RTCPeerConnection` | offer, answer, apply an answer | server |
| client, candidates, `ice.rs` | candidates found and not sent | send, sleep and retry, add a received one | server; peer connection |
| client, buttons, camera and display, `common.rs:210-551` | the pending camera requests, the two video elements, the installed callbacks | Start, Connect, the debug buttons, show the local and the remote stream | server; peer connection |
| client, start-up, `lib.rs` | none of its own | create state, socket, callbacks | all of the client |
| choice of peer connection, `common.rs:62-124` | none | plain, STUN, TURN; only the plain one is called | TURN server |
| TURN server, `turn-server/src/main.rs` | table of credentials | look up a credential; the `turn` crate relays | peer connections |

What is hard, and what would be correct:

* **Server tasks run in parallel** and take each mutex for a moment only. Between
  looking up a session and looking up the addressee, between collecting the
  sessions of a lost host and removing them, and between the removals from the
  three maps, any other task may act. Correct means: nothing of an ended task
  stays behind; the clean-up of one connection hurts no other; a message reaches
  a member of its session or nobody; the order of one sender's messages is kept.
* **Mutexes are nested**: the sender is looked up while the user's address is
  locked, a log line about a stranger locks the users inside the sessions, and
  every log line takes the logger's own mutex. Correct means: no tasks wait for
  each other, and what was read under one mutex is still right under the next.
* **Errors by unwinding.** A panic in a handler skips the clean-up.
* **Client tasks interleave at every `await`**: the camera takes as long as the
  user likes, descriptions and candidates are applied by separate tasks, and the
  session identifier may arrive after the messages that need it. Correct means:
  the ends of a call agree on offer and answer, no candidate is refused, a join
  ends in a call, and each user sees the other.
* **Server and client rely on each other.** The server does not ask who sends an
  offer or an answer, and panics on one kind of message; the client tags what it
  sends with the session it has been told. Neither is right without the other.
* **Two tables that must agree**: page and TURN server count their users apart.

`PROJECT.json` lists every hazard at its line.

## Modules

| module | content |
|---|---|
| `SignalProtocol` | messages of the shared crate; `Concerns`, whom a message is for |
| `SignallingServer` | the server, one step for each critical section of a task |
| `Rendezvous` | the abstract server: users arrive, open and join sessions, post, read and depart |
| `WasmClient` | the page, one step for each callback or settled promise |
| `VideoCall` | pages of `WasmClient` connected to `SignallingServer`; extends both |
| `ServerLocks` | `SignallingServer` with the mutexes taken one by one |
| `TurnAuth` | the page's TURN credentials and the TURN server's table |
| `MCSignallingServer`, `MCVideoCall`, `MCServerLocks`, `MCTurnAuth` | symmetry and constraints for TLC |
| `SignallingServerProofs`, `RoutingProofs`, `RefinementProofs` | proofs about the server |
| `LocksProofs` | proofs about the mutexes |
| `CallProofs`, `CandidateProofs`, `NegotiationProofs` | proofs about pages and server together; each extends the one before |
| `TurnProofs` | proofs about the credentials |

### SignallingServer

A connection, its user and its task have one name, an element of `UserID`: the
code draws a ten-letter identifier for every connection. `pc[c]` is the position
of `c`'s task in `handle_connection`; the module's header lists the values.

| action | code |
|---|---|
| `Accept`, `ListUser`, `ReplyWithID` | 423-432, 435-439, 443 with 388-407 |
| `Receive`: `Handle...` for each kind | 450-480, 118-328: look up, compose, return early |
| `Deliver` | 336-383: find the queue and append |
| `Forward` | 482: the oldest message of the queue goes to the socket |
| `Leave` | 485: either direction has ended |
| `UnmapPeer`, `UnlistUser`, `CollectSessions`, `CloseSession`, `End` | 489, 492, 495-508, 510-512 |
| `Close` | external: the client or the network ends the connection |

`HandleICEError` is the panic of `unimplemented!`: the task is over, its queue and
socket are dropped, the maps keep what they hold. No mutex is held there, so no
mutex is poisoned. The executor's threads outlive such a panic where the task runs on
one of its workers. A panic on the thread that runs `block_on(run())` could end the
whole process, and then there is no server whose tables could be wrong: that is not
modelled.

In the delivery to another peer the mutex of `user_list` is held until the end, so
the look-ups of user and queue are one step. `Deliver` to a queue whose task is
gone changes nothing, as `unbounded_send` then fails.

Constants that say what the environment may do: `ClientKinds`, the messages that
clients send; `UniqueIDs`, whether `generate_id(5)` can repeat itself (it can, once
in 62^5 draws); `EarlyReuse`, whether an address is used again while the old task
still holds its socket. `host_of` and `guests_of` are history variables that no
action reads, but for `UniqueIDs`.

### Rendezvous and the refinement

`Rendezvous` has no maps, locks or counters. A user is absent, present or
departed; a message is put into the mailbox of a present user whom it concerns
(`Concerns`), or is lost; only a departed host's session closes. The mapping in
`SignallingServer`: a user is present while its task serves it; its mailbox is its
queue during that time; the sessions are the keys of `session_list`. Registration
and most of the clean-up are stuttering steps.

### WasmClient

The page has one thread. A spawned task runs to its first `await` in the same turn
as the callback that spawned it, and goes on when its promise is settled. The
`RTCPeerConnection` is external: `ops` is the chain of operations that the browser
carries out in order, each with the handler that waits for it. The model has the
browsers' conditions for an operation (signalling states, the last created
description, implicit rollback by a remote offer, a remote description before a
candidate). Descriptions are records that name their creator, the offer they
answer, the number of streams that had been added and the number of lines for
streams, by which the browser tells an answer that does not fit.

| action | code |
|---|---|
| `ClickStart`, `ClickConnect` | `common.rs:344-407` with 420-437; 474-498 with 601-618 |
| `OnMessage` and its handlers | `common.rs:126-208` up to the first `await` |
| `CameraGranted`, `CameraRefused` | `common.rs:239-262`, and the code after `get_video` in 361-366 and 624-633 |
| `CreateOffer`, `SetLocalOffer` | `sdp.rs:49-68`, `common.rs:633-649` |
| `SetRemoteOffer`, `CreateAnswer`, `SetLocalAnswer` | `sdp.rs:21-47`, `common.rs:143-156` |
| `SetRemoteAnswer`, `AddIceCandidate` | `sdp.rs:7-19`, `ice.rs:102-131` |
| `OnCandidate`, `RetryCandidate` | `ice.rs:56-99`; the three seconds are "some time" |
| `ClickDebug` | `common.rs:308-319`: the server is asked to log its state |
| `OnConnected` | `common.rs:522-550`: the event Connected, which may come again after a break; the pane is that of the callback installed last (`RemotePane`, 351-356 and 508-511) |
| `EndSocket` | external: the page is closed, or its connection breaks with the page still there |

`Reachable` says whether the pages can reach each other over the network; the
event Connected is possible once there are descriptions of both sides, and never
promised.

### VideoCall

A page's socket and the server task of its connection are joined: `Connect` is
`Accept` with `OnOpen`, `ServerReads` hands the next message of `sent[p]` to
`HandleMessage`, `PageReads` is `Forward` with the page's `OnMessage`. The server
passes texts on as they are, so a message is named by sender and position, and its
description is looked up in what that page sent. `Leaving` says how a connection may
end: with the page, or under a page that stays, sends into nothing and keeps its
call.

The module extends both, so a behaviour of `VideoCall` is also one of the server's
variables; `PagesAreClients` says that it is a behaviour of `SignallingServer`, in
which clients may send anything of `ClientKinds` about any session, but no
candidate without one and no `ICEError`.

### ServerLocks

`SignallingServer` has one step for each critical section. `ServerLocks` takes
`handle_message` apart where it nests them: `holder` is who holds each of the three
mutexes and the logger's (`simplelog` keeps its own while it formats and writes a
line), `wants[c]` the mutex that `c`'s task needs for its next step, `socket[c]` and
`sender[c]` the local variables that it read under one mutex and uses under the
next.

| action | code |
|---|---|
| `ReadMessage` | 450-480: the message, up to the first mutex |
| `Look` | 118-316: under `session_list`, what the handler decides |
| `Stranger` | 215-222: `user_list` inside `session_list` |
| `Note` | a log line with `session_list` held, then the guards are dropped |
| `FindUser`, `FindSender`, `Post` | 336-383: `user_list`, `peer_map` inside it, the line and the queue |
| `DumpUsers`, `FormatUsers`, `DumpSessions`, `FormatSessions` | 320-321: `Debug` formats two mutexes inside a log line, with `try_lock` |
| `ConnectionStep`, `ForwardIdle`, `LockedAccept` | the rest of `handle_connection`; each section takes one mutex and is one step |

`ImplementsServer` is the refinement: erasing the mutexes leaves a behaviour of
`SignallingServer`, with `Look` as its handler and `Post` as its `Deliver`. So the
properties of that module hold of the finer one; `locks` checks `Registered` of it
directly, with panics.

### TurnAuth

`start()` can call `create_turn_peer_connection` in place of the plain one. The page
draws `ceil(random() * 10)`, and names and passwords are made of the number on both
sides. `net` holds every datagram sent; receiving takes none away, so datagrams are
reordered and doubled, and nothing says that one is received. Page and server start
in any order. The answers of the `turn` crate are modelled as the protocol has them:
a challenge, then success or an error.

## Runs

| run | what it asks | bounds |
|---|---|---|
| `server` | all safety properties and the refinement | 3 connections, 2 addresses, 1 session, 2 requests each and 4 in all |
| `server_rough` | does clean-up still forget ended tasks if identifiers collide and addresses are reused early? | 3 connections, 1 address, 1 session, 1 request each |
| `server_live` | do the sessions of a lost host disappear? | 2 connections, 2 sessions, 2 requests each |
| `locks` | with mutexes one by one and every kind of message, `ICEError` and `Debug` too: is there a deadlock, and is it still the same server? | 3 connections, 2 addresses, 1 session, 1 message each |
| `locks_live` | is every message that was read handled to the end? | 2 connections, 1 session, 2 messages each and 3 in all |
| `call` | do the ends of a call agree, with leaving, broken connections, denial and guessing? are the pages the clients that the server's properties assume? | 1 host, 1 guest, 1 session, 1 candidate for each description |
| `call_clicks` | the same where users click at will | 2 pages with both roles, 2 sessions, 3 clicks, the first after set-up, 1 candidate for each page |
| `call_live` | does a join lead to a call? do sleeping candidates wake? | as `call`, cameras granted |
| `turn` | is a page ever refused? | 2 pages, `random()` a multiple of 1/20 |
| `abandoned`, `seat`, `call_answer` | violations, see below | the smallest that show them |

Why the bounds are enough for the cases at stake. In the server, three connections
allow a host, a guest and either an outsider, a replacing guest or a successor at
the address of one of them, which needs fewer addresses than connections; two
requests let a user open or join and then send; four in all let an offer follow a
join that follows an opening, with one to spare. One session is enough where
identifiers must collide to interact; the clean-up of several needs two, in
`server_live`. In the client, three clicks allow a session opened twice and joined
once, or opened once and joined twice, and both pages in both roles. Nothing in the
properties counts beyond that. With mutexes, a cycle of waiting needs as many tasks
as mutexes that are taken inside another, which are three (`user_list`, `peer_map`,
the logger); one message each is enough, as a handler gives every mutex back. For
the credentials, multiples of 1/20 contain 0, every boundary between two numbers and
a value between any two boundaries; the theorem is for every resolution.

The properties:

* `NoSessionWithoutHost`, `TablesNameTheLiving`, `Registered`: maps against tasks.
* `RoutedToMember`, `NewUserFirst`, `InOrder`: what the queues hold, and in which order.
* `SessionEndsWithHost`: a session goes only in its host's clean-up.
* `ImplementsRendezvous`: the refinement.
* `LostHostEndsSession`: liveness of the clean-up.
* `ShowsOwnSession`, `AgreedNegotiation`, `NoCandidateRefused`,
  `OfferHasStream`: the client's side of a call.
* `OneCallOneSession`: whose session the messages of a call carry, when its host has
  more than one.
* `PagesAreClients`, `OffersFromMembers`: what client and server owe each other.
* `GuestIsSeen`: the display, from the callbacks to the panes.
* `NoDeadlock`, `ImplementsServer`, `RequestsEnd`: the mutexes.
* `NeverRefused`: the credentials.
* `JoinLeadsToCall`, `SleepersWake`: liveness of a call.

`AgreedNegotiation`, `NoCandidateRefused`, `OneCallOneSession`, `GuestIsSeen` and
`JoinLeadsToCall` are about a
*one-to-one call* (`SoleGuest`): the guest clicked Connect once, nobody else joined
a session of its host, and neither takes the other role. Without that they are
false of this code: the one peer connection of a page is used for every offer, so
a second Connect, or a second guest, crosses the negotiations. The host may click Start
as often as it likes, and in `call_clicks` it does so twice over two sessions: what it
answers must then stay in the session of the offer, which need not be the one it shows,
and the candidates that it tags with its newer session must not reach the guest
(`OneCallOneSession`). `GuestIsSeen` says nothing of what the
guest sees of the host: that fails, as the run `call_answer` shows.

Symmetry is used in safety runs only. Deadlock is not checked: tasks end, users
stop clicking.

### Fairness

`FairSpec` assumes of each task that it takes the steps that wait for nobody
(`TaskStep`, `Forward`): the executor polls every task that can run, and mutexes are
held for moments. Nobody has to send or to close. `FairCallSpec` adds that the
server reads what a page sent, that a page handles what arrives, that the browser
settles its promises and fires its timers, and that a user who is asked for the
camera answers. No click is promised. `FairLockSpec` assumes that a thread gets a
mutex that is free for ever from some time on; `std::sync::Mutex` promises no order
among those who wait. That is weak fairness, and it is enough because the number of
messages is bounded: a task is overtaken finitely often.

`LostHostEndsSession` begins when the server's end of a connection has noticed the
loss (`Close`). The code has no keepalive: a peer that vanishes without a word is
noticed when the operating system gives up, if ever, and until then its session stays.

### Addresses that are used again

`Registered` and `NewUserFirst` are checked and proved for `EarlyReuse = FALSE`: an
address is used again when the task that held it has ended, or has panicked and left
its entries behind, and dropped its socket. If the operating system hands it out
earlier, as soon as the client's side is gone, the old task's
`peer_map.remove(&addr)` (`signalling-server.rs:489`) takes away its successor's queue.
The two properties leave that case out; `server_rough` allows it, and shows that
nothing of an ended task remains even so.

### Violations

* `abandoned`: `handle_connection` is to "Close any sessions associated with the
  address IF user hosted the session" (`signalling-server.rs:494`); the panic of
  `ICEError` (244) skips it, and the session can be joined for ever. The
  repository's own client never sends `ICEError`; the protocol has it, and the
  client handles its receipt.
* `seat`: a session is "between two users" (`shared-protocol/src/lib.rs:42`); a
  third user's join replaces the guest (`signalling-server.rs:300`).
* `call_answer`: "Need to setup Media Stream BEFORE sending SDP offer"
  (`common.rs:368`), in the handler of Start, which does not wait for the camera:
  an offer can be answered without the host's stream. The guest then never sees
  the host. The guest's own offer does wait (`OfferHasStream`).

## Proofs

TLAPS checks, for any number of connections, sessions, addresses and requests, and
for the composition also of clicks and candidates:

| theorem | property | assumption on the environment |
|---|---|---|
| `TypeCorrect` | `TypeOK` | none |
| `EndedTasksForgotten` | `TablesNameTheLiving` | none |
| `SessionsHaveHosts` | `NoSessionWithoutHost` | no client sends `ICEError` |
| `ConnectionsRegistered` | `Registered` | no early reuse of addresses |
| `SessionsEndWithHosts` | `SessionEndsWithHost` | unique session identifiers |
| `MessagesReachMembers` | `RoutedToMember` | `WellBehaved`: all three |
| `IdentifierFirst` | `NewUserFirst` | `WellBehaved` |
| `ServerImplementsRendezvous` | `ImplementsRendezvous` | `WellBehaved` |
| `RelayedInOrder` | `InOrder` | none |
| `LocksTypeCorrect`, `LocksNeverDeadlock` | `LocksTypeOK`, `NoDeadlock` | none |
| `LocksImplementServer` | `ImplementsServer` | none |
| `LocksKeepRegistration` | `Registered`, of `LockSpec` | no early reuse of addresses |
| `LocksImplementRendezvous` | `ImplementsRendezvous`, of `LockSpec` | `WellBehaved` |
| `CallTypeCorrect` | `CallTypeOK` | `WellBehaved` |
| `PagesKeepToProtocol` | `PagesAreClients` | `WellBehaved` |
| `PagesAreServed` | the server's properties, of `CallSpec` | `WellBehaved` |
| `SessionsShownAreOwn` | `ShowsOwnSession` | `WellBehaved` |
| `OffersHaveStreams` | `OfferHasStream` | `WellBehaved` |
| `NegotiationAmongMembers` | `OffersFromMembers` | `WellBehaved` |
| `NegotiationsAgree` | `AgreedNegotiation` | `WellBehaved` |
| `NoCandidateTooEarly` | `NoCandidateRefused` | `WellBehaved` |
| `CallStaysInSession` | `OneCallOneSession` | `WellBehaved` |
| `HostSeesGuest` | `GuestIsSeen` | `WellBehaved` |
| `CredentialsAgree` | `NeverRefused` | none |

The arguments:

* `NoSessionWithoutHost` says nothing about a host that is half-way through its
  clean-up. `HostPresent` does: until the sessions are collected the host is on
  its way there, and after that the session is in the collected set.
* `TableEntries` ties every entry of the maps to a task that has not yet come to
  its own removal of it.
* `Registered` rests on `OwnAddress`: no two tasks that hold their sockets share an
  address, so that a removal by address removes one's own entry.
* `RoutedToMember` rests on `RoutingInv`: what `session_list`, the composed
  envelopes and the queues hold agrees with the history variables, which only
  grow; so what was right at the look-up of the session is right at delivery,
  however long that takes and whoever leaves.
* `SessionsEndWithHosts` rests on `DoomedOwned`: a session that has been collected
  is still its collector's.
* The refinement uses all of these: each action maps to one action of `Rendezvous`
  or to a stutter.

* `InOrder` rests on `OrderInv`: a message in a queue bears a number that its sender
  has used, and one that is being composed bears the last.
* `NoDeadlock` rests on an order of nesting: `session_list`, `user_list`, `peer_map`,
  log. `LockInv` says of each place in the handler which mutexes are held there, and
  that the one wanted comes later in that order than all of them (`NestingOrder`); in
  any group, the task that wants the last waits for nobody in it.
* `ImplementsServer` rests on the same invariant: while `user_list` and `peer_map`
  are held, `socket[c]` and `sender[c]` are what the maps hold, so that `Post` does
  what `Deliver` would. `LocksImplementRendezvous` puts the two refinements together.
* `CallInv` is `RoutingInv`, types, `Traced` (what is in transit was sent by the page
  it names) and, for every page, `PageInv`: what it has sent, what its pending
  operations and cameras will still send, and the session it shows, all agree with the
  server's record of who hosts and who joined. Neither half is inductive alone: the
  server's routing needs what the pages send, and a page sends what it was told. In
  `WellBehaved`, "no client sends `ICEError`" limits the constant `ClientKinds`;
  `PagesKeepToProtocol` is the proof that the pages stay within it, and with it
  `PagesAreServed` carries the server's theorems over to the composition.
* `ClickInv` counts: a page asks for a session, or for a seat, once for each click; each
  session it hosts, or has joined, was asked for by a message of its own, a different
  one for a different session; and a candidate carries one of those. One click of the
  guest then leaves one session that it can speak about.
* `AgreedNegotiation`, `NoCandidateRefused` and `GuestIsSeen` rest on one invariant,
  `NegotiationInv`, described below.
* `NeverRefused` rests on the range of a ceiling: `0 <= r < 1` gives
  `0 <= ceil(10 r) <= 10`, which is the domain of the table; and on datagrams carrying
  what some page has made of its own number.

Each strengthening was first checked as an invariant with TLC.

### One negotiation, from click to picture

`NegotiationInv` follows a call through both pages, both sockets and the server. It
does not speak of a `SoleGuest`, because a guest becomes one, and ceases to be one,
as others act; it speaks of pages whose past allows it: an *initiator* has clicked
Connect at most once and Start never, a *listener* has never clicked Connect, and
they are *paired* as long as nobody but the initiator joined a session of the
listener. Each of the three can only be lost, so what holds of a pair in a state held
of it in all states before. Its parts:

* `Basis`: the invariants of the earlier modules and, for every page, `PageFacts`. The
  server has read no more than was sent (`Wired`); a remote description and every
  pending candidate came from another member of a session (`Told`); candidates are
  looked for only after a description has been sent (`Searching`). At the server, a
  candidate crosses its session, and a host that has left leaves no session behind.
* `TokenInv`, `OfferInv`: an initiator begins one offer. The right to do so passes
  from its request to join over the composed success and the queue to the page, and
  is in one place at a time, so that there is one camera request, then one chain of
  offering operations, then one offer, which is the local description ever after.
* `HostInv`: as long as the offer has not arrived (`Awaited`), the listener's
  connection is untouched; then there is one chain of answering operations, its remote
  description is the initiator's local one, and its answer is to that one and is the
  local description ever after. Without "untouched" a second answer could follow.
* `GuestInv`: what the initiator applies, or is about to, is the listener's local
  description. `AgreedNegotiation` is `HostInv` and `GuestInv` together.
* `AheadInv`: for both directions, a description of the call that the server is done
  with has been set, waits in the operations, waits in the queue, or the receiver is
  cut off; and in the queue and in the operations a candidate has a description before
  it. As a page sends its description before any candidate, and the server handles one
  sender's messages one after the other, a candidate is delivered after it. `Deaf` and
  `Off`, the ends of socket and task, are what makes this hold of connections that
  break while messages are in transit. The initiator's half asks that it has joined a
  session of the listener (`Linked`), as before that it may be in a call with another.
* `QueuesShaped`, an invariant beside `NegotiationInv`: a candidate lies in a queue only
  across its session, from its host to one who joined or back. `OneCallOneSession`
  follows: what reaches the guest is about a session it has joined, of which `ClickInv`
  leaves one; what reaches the host comes from one who joined a session of its own, so
  from the guest; and an answer of the host is about a session the guest joined
  (`HostInv`), whatever it hosts besides.
* `ScreenInv`: which pane can hold which picture, given the callbacks that the clicks
  installed. That the remote picture appears at all needs the offer's one stream
  (`OfferInv`), as the code shows nothing if there are none or two.

Beyond the assumptions on the environment this uses `NoneIsNoDescription`: the
absence of a description is not a description, as in JavaScript `null` is no
`RTCSessionDescription`.

### What is only model-checked

Every invariant and every safety property of the passing runs is stated by a
theorem. What TLC alone checks is liveness (`LostHostEndsSession`, `RequestsEnd`,
`JoinLeadsToCall`, `SleepersWake`), which is out of the prover's reach, as is
`ENABLED`. No module uses recursion.

## Not modelled

Texts of messages, (de)serialisation and its errors, which return early and change
nothing; logging, but for the logger's mutex; failures of the handshake and of
`accept`; the data channel's ping and pong, the labels and the button that logs the
page's state, which change no state of the program; the STUN variant of the peer
connection, which is not called; the choice of a relay's port and the relaying, which
are the `turn` crate's; ICE and media after the exchange of candidates, but for the
event that reports a connection; negotiations begun by the browser, of which the code
makes nothing. A page whose connection breaks does not connect again: the code opens
one socket in `start()` and has no other.

## Plan

1. `SignalProtocol`, `SignallingServer`, its runs, type correctness: done.
2. `Rendezvous`, the refinement, the routing and clean-up theorems: done.
3. `WasmClient`, `VideoCall`, agreement, display and liveness of a call: done for two
   pages.
4. `ServerLocks` and its refinement of `SignallingServer`: done.
5. `TurnAuth`: done.
6. Proofs of `InOrder`, of the mutexes, of the credentials and of the composition's
   `PagesAreClients`, `ShowsOwnSession`, `OfferHasStream`, `OffersFromMembers`,
   and of the counting of clicks: done.
7. Proofs of `AgreedNegotiation`, `NoCandidateRefused`, `GuestIsSeen` and
   `OneCallOneSession`: done.
8. Open: `VideoCall` with a host and two guests (what a replaced guest and its host
   end up with, and which guarantees survive).
