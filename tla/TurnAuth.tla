------------------------------- MODULE TurnAuth -------------------------------
(***************************************************************************)
(* turn-server/src/main.rs, and create_turn_peer_connection of the page    *)
(* (wasm_client/src/common.rs), which start() may call in place of         *)
(* create_plain_peer_connection.                                           *)
(*                                                                         *)
(* Page and server share no file: the page draws one of eleven names and   *)
(* passwords, the server has made a key of each.  With the transport       *)
(* policy Relay a page that is refused reaches nobody.                     *)
(*                                                                         *)
(* The exchange is that of the browser and of the turn crate: a request    *)
(* without a name is answered with the realm, from which, with name and    *)
(* password, the browser makes the key that protects its next request.     *)
(* They travel in datagrams, which may be lost, doubled and reordered: net *)
(* holds all that were sent, and nobody is obliged to receive one.         *)
(***************************************************************************)
EXTENDS Integers, FiniteSets

CONSTANTS
  Page,        \* the pages that use the server
  Resolution   \* Math.random() draws from the multiples of 1/Resolution below 1

ASSUME TurnAssumption == Resolution \in Nat \ {0}

VARIABLES
  cred_map,   \* MyAuthHandler.cred_map: name -> key
  listening,  \* the server has bound its socket, and is not closed
  r_num2,     \* the number that a page has drawn, or -1
  relay,      \* what a page knows of its relay: "unknown", "granted" or "refused"
  net         \* datagrams sent so far

turnVars == <<cred_map, listening, r_num2, relay, net>>

User(n) == <<"user", n>>
Pass(n) == <<"pass", n>>

\* generate_auth_key: a digest, taken to be free of collisions.
Key(user, realm, pass) == <<user, realm, pass>>
Realm == "realm"

TurnInit ==
  /\ cred_map = << >>
  /\ listening = FALSE
  /\ r_num2 = [p \in Page |-> -1]
  /\ relay = [p \in Page |-> "unknown"]
  /\ net = {}

-------------------------------------------------------------------------------
(* The server. *)

\* A mutant: the users are counted from one.
TableFromOne == [u \in {User(n) : n \in 1..10} |-> Key(u, Realm, Pass(u[2]))]

\* The table of main: user_id in 0..11, the end excluded.
Table == [u \in {User(n) : n \in 0..10} |-> Key(u, Realm, Pass(u[2]))]

\* The table is complete before the socket is bound.
Start ==
  /\ cred_map = << >>
  /\ cred_map' = Table
  /\ listening' = TRUE
  /\ UNCHANGED <<r_num2, relay, net>>

\* ctrl_c.
Stop ==
  /\ listening
  /\ listening' = FALSE
  /\ UNCHANGED <<cred_map, r_num2, relay, net>>

\* auth_handle, and what the crate makes of it: without a name it asks for one,
\* an unknown name or another key is an error.
Reply(m) ==
  IF m.user = << >> THEN "challenge"
  ELSE IF m.user \in DOMAIN cred_map /\ cred_map[m.user] = m.key THEN "success"
  ELSE "error"

AuthHandle(m) ==
  /\ listening
  /\ m.kind = "allocate"
  /\ net' = net \cup {[kind |-> Reply(m), page |-> m.page, user |-> m.user, key |-> << >>]}
  /\ UNCHANGED <<cred_map, listening, r_num2, relay>>

-------------------------------------------------------------------------------
(* The page. *)

\* n is the least number that is not below a / b.
IsCeil(n, a, b) == b * n >= a /\ b * (n - 1) < a

\* create_turn_peer_connection: ceil(random() * 10.0) as u8.
Draw(p) ==
  /\ r_num2[p] = -1
  /\ \E r \in 0..(Resolution - 1) : \E n \in 0..(10 * r) :
       /\ IsCeil(n, 10 * r, Resolution)
       /\ r_num2' = [r_num2 EXCEPT ![p] = n]
  /\ UNCHANGED <<cred_map, listening, relay, net>>

Allocate(p, user, key) ==
  /\ net' = net \cup {[kind |-> "allocate", page |-> p, user |-> user, key |-> key]}
  /\ UNCHANGED <<cred_map, listening, r_num2, relay>>

\* The search for candidates begins.
Ask(p) == r_num2[p] # -1 /\ Allocate(p, << >>, << >>)

\* The answer names the realm.
Authenticate(p) ==
  /\ \E m \in net : m.kind = "challenge" /\ m.page = p
  /\ LET n == r_num2[p]
     IN  Allocate(p, User(n), Key(User(n), Realm, Pass(n)))

Conclude(p) ==
  /\ relay[p] = "unknown"
  /\ \E m \in net :
       /\ m.page = p
       /\ m.kind \in {"success", "error"}
       /\ relay' = [relay EXCEPT ![p] = IF m.kind = "success" THEN "granted" ELSE "refused"]
  /\ UNCHANGED <<cred_map, listening, r_num2, net>>

-------------------------------------------------------------------------------
PageTurn(p) == Draw(p) \/ Ask(p) \/ Authenticate(p) \/ Conclude(p)

TurnNext ==
  \/ Start
  \/ Stop
  \/ \E m \in net : AuthHandle(m)
  \/ \E p \in Page : PageTurn(p)

TurnSpec == TurnInit /\ [][TurnNext]_turnVars

-------------------------------------------------------------------------------
(* Properties. *)

\* Whatever a page draws, from random() = 0 up, is in the server's table, with
\* the key that the page makes of it (common.rs:77-87, main.rs:60-66); several
\* pages may draw the same number ("Both users can have the same username +
\* password").
NeverRefused == \A p \in Page : relay[p] # "refused"
===============================================================================
