----------------------------- MODULE ServerLocks -----------------------------
(***************************************************************************)
(* The mutexes of signalling-server.rs.                                    *)
(*                                                                         *)
(* SignallingServer takes a critical section for one step.  This module    *)
(* takes handle_message apart at the mutexes it nests, and adds the one    *)
(* that is easily overlooked: the logger's, which every log line takes     *)
(* while it formats its arguments.  In the order of nesting:               *)
(*   session_list   held while the session is looked up                    *)
(*   user_list      held while the addressee is looked up, and, inside     *)
(*                  session_list, for the message about a stranger         *)
(*   peer_map       held while the sender is looked up and used            *)
(*   log            held inside any of them                                *)
(*                                                                         *)
(* A section that takes no further mutex stays one step, with a free mutex *)
(* as its guard: it is over before anybody could tell.  Log lines written  *)
(* without a mutex are left out, as they delay nobody but the logger.      *)
(*                                                                         *)
(* at[c] is what the task of c does next in handle_message:                *)
(*   "idle"            it is not in handle_message                         *)
(*   "look"            look the session up, and act on it                  *)
(*   "stranger"        look up the socket of a user not in the session     *)
(*   "note"            write the log line of that look-up                  *)
(*   "find user"       look the addressee up in user_list                  *)
(*   "find sender"     look the sender up in peer_map                      *)
(*   "post"            write the log line, and use the sender              *)
(*   "dump ...", "format ..."   log a map for the Debug message            *)
(***************************************************************************)
EXTENDS SignallingServer

VARIABLES
  holder,    \* who holds each mutex
  at,        \* position in handle_message
  wants,     \* the mutex the next step has to take
  request,   \* the message that has been read and not yet acted upon
  socket,    \* handle_message's socketaddr, read under user_list
  sender     \* handle_message's sender, read under peer_map: whose queue it feeds

lockVars  == <<holder, at, wants, request, socket, sender>>
allVars   == <<vars, lockVars>>

Mutex  == {"session_list", "user_list", "peer_map", "log"}
Places == {"idle", "look", "stranger", "note", "find user", "find sender", "post",
           "dump users", "format users", "dump sessions", "format sessions"}

ASSUME NoneIsNoMutex == None \notin Mutex

LocksTypeOK ==
  /\ TypeOK
  /\ holder \in [Mutex -> UserID \cup {None}]
  /\ at \in [UserID -> Places]
  /\ wants \in [UserID -> Mutex \cup {None}]
  /\ request \in [UserID -> SignalEnum]
  /\ socket \in [UserID -> Addr \cup {None}]
  /\ sender \in [UserID -> UserID \cup {None}]

LockInit ==
  /\ Init
  /\ holder = [l \in Mutex |-> None]
  /\ at = [c \in UserID |-> "idle"]
  /\ wants = [c \in UserID |-> None]
  /\ request = [c \in UserID |-> SessionJoinError]
  /\ socket = [c \in UserID |-> None]
  /\ sender = [c \in UserID |-> None]

-------------------------------------------------------------------------------
Unlocked(l) == holder[l] = None

\* lock() returns as soon as nobody holds the mutex.
CanGo(c) == wants[c] # None => Unlocked(wants[c])

Take(c) == holder' = [holder EXCEPT ![wants[c]] = c]

\* All guards of c go out of scope.
DropGuards(c) == holder' = [l \in Mutex |-> IF holder[l] = c THEN None ELSE holder[l]]

Goto(c, place, l) ==
  /\ at' = [at EXCEPT ![c] = place]
  /\ wants' = [wants EXCEPT ![c] = l]

\* From the match on the message to the match on the destination.
AfterMatch(c, sending, dest) ==
  IF ~sending                   THEN Goto(c, "idle", None)
  ELSE IF dest.type = "OtherPeer" THEN Goto(c, "find user", "user_list")
  ELSE Goto(c, "find sender", "peer_map")

-------------------------------------------------------------------------------
\* The kinds whose handler begins by locking session_list.
LookedUp == Relayed \cup {"SessionNew", "SessionJoin"}

\* A message is read.  The kinds that need no session are dealt with at once,
\* Debug but for its log lines.
ReadMessage(c) ==
  /\ pc[c] = "serving" /\ at[c] = "idle"
  /\ received[c] < MaxRequests
  /\ \E m \in ClientMessages(c) :
       IF m.kind \in LookedUp
       THEN /\ Goto(c, "look", "session_list")
            /\ request' = [request EXCEPT ![c] = m]
            /\ UNCHANGED vars
       ELSE /\ HandleMessage(c, m)
            /\ IF m.kind = "Debug" THEN Goto(c, "dump users", "log") ELSE UNCHANGED <<at, wants>>
            /\ UNCHANGED request
  /\ UNCHANGED <<holder, socket, sender>>

\* A candidate of a user who is not in the session.
Misaligned(c, m) ==
  /\ m.kind = "IceCandidate"
  /\ Exists(m.session)
  /\ session_list[m.session].guest # None
  /\ c \notin {session_list[m.session].guest, session_list[m.session].host}

\* Handlers that write a log line while they hold session_list.
Noted(m) ==
  \/ m.kind = "SessionJoin"
  \/ m.kind \in Relayed /\ ~Exists(m.session)

\* A mutant: the log line of a join prints the map, by locking it a second time.
LookRelocks(c) ==
  /\ at[c] = "look" /\ CanGo(c)
  /\ HandleMessage(c, request[c])
  /\ IF request[c].kind = "SessionJoin"
     THEN Take(c) /\ Goto(c, "note", "session_list")
     ELSE AfterMatch(c, pc'[c] = "sending", envelope'[c].dest) /\ UNCHANGED holder
  /\ UNCHANGED <<request, socket, sender>>

\* The session is looked up, and what the handler does with it is done.
Look(c) ==
  /\ at[c] = "look" /\ CanGo(c)
  /\ HandleMessage(c, request[c])
  /\ IF Misaligned(c, request[c])
     THEN Take(c) /\ Goto(c, "stranger", "user_list")
     ELSE IF Noted(request[c])
     THEN Take(c) /\ Goto(c, "note", "log")
     ELSE AfterMatch(c, pc'[c] = "sending", envelope'[c].dest) /\ UNCHANGED holder
  /\ UNCHANGED <<request, socket, sender>>

\* user_list is taken while session_list is held, for a log line.
Stranger(c) ==
  /\ at[c] = "stranger" /\ CanGo(c)
  /\ Take(c)
  /\ Goto(c, "note", "log")
  /\ UNCHANGED <<vars, request, socket, sender>>

Note(c) ==
  /\ at[c] = "note" /\ CanGo(c)
  /\ DropGuards(c)
  /\ AfterMatch(c, pc[c] = "sending", envelope[c].dest)
  /\ UNCHANGED <<vars, request, socket, sender>>

-------------------------------------------------------------------------------
FindUser(c) ==
  /\ at[c] = "find user" /\ CanGo(c)
  /\ Take(c)
  /\ LET a == user_list[envelope[c].dest.peer]
     IN  /\ socket' = [socket EXCEPT ![c] = a]
         /\ IF a = None THEN Goto(c, "post", "log") ELSE Goto(c, "find sender", "peer_map")
  /\ UNCHANGED <<vars, request, sender>>

\* A mutant: the sender is cloned, and used after the mutexes are released.
CloneSender(c) ==
  /\ at[c] = "find sender" /\ CanGo(c)
  /\ DropGuards(c)
  /\ sender' = [sender EXCEPT ![c] =
       peer_map[IF envelope[c].dest.type = "SourcePeer" THEN addr[c] ELSE socket[c]]]
  /\ Goto(c, "post", "log")
  /\ UNCHANGED <<vars, request, socket>>

FindSender(c) ==
  /\ at[c] = "find sender" /\ CanGo(c)
  /\ Take(c)
  /\ sender' = [sender EXCEPT ![c] =
       peer_map[IF envelope[c].dest.type = "SourcePeer" THEN addr[c] ELSE socket[c]]]
  /\ Goto(c, "post", "log")
  /\ UNCHANGED <<vars, request, socket>>

\* The line is written, the message put into the queue of the sender that was
\* found, if one was, and handle_message returns.
Post(c) ==
  /\ at[c] = "post" /\ CanGo(c)
  /\ Enqueue(sender[c], envelope[c].msg)
  /\ pc' = [pc EXCEPT ![c] = "serving"]
  /\ envelope' = [envelope EXCEPT ![c] = NoEnvelope]
  /\ DropGuards(c)
  /\ Goto(c, "idle", None)
  /\ socket' = [socket EXCEPT ![c] = None]
  /\ sender' = [sender EXCEPT ![c] = None]
  /\ UNCHANGED <<tables, addr, open, received, doomed, history, request>>

-------------------------------------------------------------------------------
(***************************************************************************)
(* Debug logs two of the maps, by the Debug formatting of a Mutex, which   *)
(* tries to lock it and prints a placeholder if it cannot: nothing is      *)
(* awaited while the logger is held.                                       *)
(***************************************************************************)
Dumping(c, place, next) ==
  /\ at[c] = place /\ CanGo(c)
  /\ Take(c)
  /\ Goto(c, next, None)
  /\ UNCHANGED <<vars, request, socket, sender>>

\* A mutant: the line is made with user_list.lock().unwrap().
DumpLocked(c) ==
  /\ at[c] = "dump users" /\ CanGo(c)
  /\ Take(c)
  /\ Goto(c, "format users", "user_list")
  /\ UNCHANGED <<vars, request, socket, sender>>

DumpUsers(c)    == Dumping(c, "dump users", "format users")
DumpSessions(c) == Dumping(c, "dump sessions", "format sessions")

Formatted(c, place) ==
  /\ at[c] = place /\ CanGo(c)
  /\ DropGuards(c)
  /\ UNCHANGED <<vars, request, socket, sender>>

FormatUsers(c)    == Formatted(c, "format users") /\ Goto(c, "dump sessions", "log")
FormatSessions(c) == Formatted(c, "format sessions") /\ Goto(c, "idle", None)

-------------------------------------------------------------------------------
\* handle_message, once a message has been read.
HandlerStep(c) ==
  \/ Look(c) \/ Stranger(c) \/ Note(c)
  \/ FindUser(c) \/ FindSender(c) \/ Post(c)
  \/ DumpUsers(c) \/ FormatUsers(c) \/ DumpSessions(c) \/ FormatSessions(c)

\* The rest of handle_connection, with the mutex that each section takes.
LockedAccept(c) == Unlocked("peer_map") /\ \E a \in Addr : Accept(c, a)

ConnectionStep(c) ==
  \/ Unlocked("user_list")    /\ ListUser(c)
  \/ ReplyWithID(c)
  \/ at[c] = "idle"           /\ Leave(c)
  \/ Unlocked("peer_map")     /\ UnmapPeer(c)
  \/ Unlocked("user_list")    /\ UnlistUser(c)
  \/ Unlocked("session_list") /\ (CollectSessions(c) \/ CloseSession(c))
  \/ End(c)

ForwardIdle(c) == at[c] = "idle" /\ Forward(c)

LockNext ==
  \E c \in UserID :
    \/ ReadMessage(c)
    \/ HandlerStep(c)
    \/ /\ LockedAccept(c) \/ Close(c) \/ ForwardIdle(c) \/ ConnectionStep(c)
       /\ UNCHANGED lockVars

LockSpec == LockInit /\ [][LockNext]_allVars

(***************************************************************************)
(* A thread that waits for a mutex gets it unless others get it for ever:  *)
(* std::sync::Mutex promises no order.  Weak fairness is enough as the     *)
(* number of messages is bounded.                                          *)
(***************************************************************************)
FairLockSpec ==
  /\ LockSpec
  /\ \A c \in UserID :
       /\ WF_allVars(HandlerStep(c))
       /\ WF_allVars(ConnectionStep(c) /\ UNCHANGED lockVars)
       /\ WF_allVars(ForwardIdle(c) /\ UNCHANGED lockVars)

-------------------------------------------------------------------------------
(* Properties. *)

\* No tasks wait for each other: in every group of tasks there is one that
\* waits for no mutex held within the group.  Delivery takes peer_map inside
\* user_list, the message about a stranger takes user_list inside session_list,
\* and all of them log (lines 208-222, 336-383).
NoDeadlock ==
  \A T \in SUBSET UserID :
    T # {} => \E c \in T : wants[c] # None => holder[wants[c]] \notin T

\* What a task does with data that it read under a mutex is as if it had read
\* it in the step in which it uses it, and no mutex is needed that is not held:
\* the critical sections are the steps of SignallingServer.
ImplementsServer == Spec

\* A message that has been read is handled to the end: every mutex is given
\* back, also on the early returns.
RequestsEnd == \A c \in UserID : at[c] # "idle" ~> at[c] = "idle"
===============================================================================
