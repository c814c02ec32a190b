---------------------------- MODULE SignalProtocol ----------------------------
(***************************************************************************)
(* The messages of shared-protocol/src/lib.rs, the crate that the          *)
(* signalling server and the browser client share.                         *)
(*                                                                         *)
(* A UserID is drawn anew for every connection, so it also names the       *)
(* connection and the server task that serves it.  The SDP or candidate    *)
(* text of a message is opaque to the server; all that the properties tell *)
(* apart is whose text it is and which of that user's texts, in the order  *)
(* of sending: the fields "by" and "seq".                                  *)
(***************************************************************************)
EXTENDS Naturals

CONSTANTS
  UserID,      \* identifiers of users, one for each connection
  SessionID,   \* identifiers of sessions
  None         \* the absence of an identifier or of an address

ASSUME NoneIsNoIdentifier == None \notin UserID \cup SessionID

(***************************************************************************)
(* Kinds of messages a client is meant to send, and kinds that only the    *)
(* server is meant to send.  The three kinds in Relayed go both ways.      *)
(***************************************************************************)
Relayed  == {"VideoOffer", "VideoAnswer", "IceCandidate"}
Requests == Relayed \cup {"SessionNew", "SessionJoin", "ICEError", "Debug"}
Replies  == {"NewUser", "SessionReady", "SessionJoinSuccess", "SessionJoinError"}

SignalEnum ==
  [kind    : Requests \cup Replies,
   session : SessionID \cup {None},
   by      : UserID \cup {None},
   seq     : Nat]

(***************************************************************************)
(* The messages the server composes.  They carry no text.  The session of  *)
(* a SessionJoinError holds an explanation in place of an identifier.      *)
(***************************************************************************)
NewUser(u)            == [kind |-> "NewUser", session |-> None, by |-> u, seq |-> 0]
SessionReady(s)       == [kind |-> "SessionReady", session |-> s, by |-> None, seq |-> 0]
SessionJoinSuccess(s) == [kind |-> "SessionJoinSuccess", session |-> s, by |-> None, seq |-> 0]
SessionJoinError      == [kind |-> "SessionJoinError", session |-> None, by |-> None, seq |-> 0]

(***************************************************************************)
(* Whom a message concerns, given the user that created each session and   *)
(* the users that ever joined it: an offer concerns the host, an answer a  *)
(* guest, a candidate two members, a reply the user it is about.           *)
(***************************************************************************)
Concerns(d, m, host, guests) ==
  /\ m.kind \in {"VideoOffer", "SessionReady"}        => d = host[m.session]
  /\ m.kind \in {"VideoAnswer", "SessionJoinSuccess"} => d \in guests[m.session]
  /\ m.kind = "IceCandidate" => {d, m.by} \subseteq {host[m.session]} \cup guests[m.session]
  /\ m.kind = "NewUser"      => d = m.by
===============================================================================
