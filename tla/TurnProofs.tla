------------------------------- MODULE TurnProofs -------------------------------
(***************************************************************************)
(* Theorems about TurnAuth, for every number of pages and every resolution *)
(* of Math.random().                                                       *)
(***************************************************************************)
EXTENDS TurnAuth, TLAPS

Numbers == 0..10

\* The table is there before the first answer, and every name in a request is one
\* of its names, with the key that it has there.
TurnInv ==
  /\ r_num2 \in [Page -> Numbers \cup {-1}]
  /\ relay \in [Page -> {"unknown", "granted"}]
  /\ listening => cred_map = Table
  /\ \A m \in net :
       /\ m.kind # "error"
       /\ m.page \in Page
       /\ r_num2[m.page] # -1
       /\ m.kind = "allocate" /\ m.user # << >> =>
            \E n \in Numbers : m.user = User(n) /\ m.key = Key(User(n), Realm, Pass(n))

\* The eleven values of ceil(random() * 10): zero is one of them.
LEMMA DrawRange ==
  ASSUME NEW r \in 0..(Resolution - 1), NEW n \in Nat, IsCeil(n, 10 * r, Resolution)
  PROVE  n \in Numbers
<1>1. Resolution \in Nat /\ Resolution > 0 /\ r \in Nat /\ r <= Resolution - 1
  BY TurnAssumption
<1>2. SUFFICES ASSUME n > 10 PROVE FALSE
  BY DEF Numbers
<1>3. Resolution * (n - 1) >= Resolution * 10
  BY <1>1, <1>2
<1>4. 10 * r < Resolution * 10
  BY <1>1
<1>5. Resolution * (n - 1) < 10 * r
  BY DEF IsCeil
<1> QED BY <1>1, <1>3, <1>4, <1>5

LEMMA TableHasKeys ==
  ASSUME NEW n \in Numbers
  PROVE  User(n) \in DOMAIN Table /\ Table[User(n)] = Key(User(n), Realm, Pass(n))
BY DEF Table, User, Numbers

LEMMA TurnInvInit == TurnInit => TurnInv
BY DEF TurnInit, TurnInv

LEMMA AllocateKeeps ==
  ASSUME TurnInv, NEW p \in Page, r_num2[p] # -1, NEW user, NEW key, Allocate(p, user, key),
         \/ user = << >>
         \/ \E n \in Numbers : user = User(n) /\ key = Key(User(n), Realm, Pass(n))
  PROVE  TurnInv'
BY DEF TurnInv, Allocate

LEMMA TurnInvNext == TurnInv /\ [TurnNext]_turnVars => TurnInv'
<1> SUFFICES ASSUME TurnInv, [TurnNext]_turnVars PROVE TurnInv'
  OBVIOUS
<1>1. CASE Start \/ Stop
  BY <1>1 DEF Start, Stop, TurnInv
<1>2. ASSUME NEW m \in net, AuthHandle(m) PROVE TurnInv'
  <2>1. Reply(m) \in {"challenge", "success"}
    <3>1. CASE m.user = << >>
      BY <3>1 DEF Reply
    <3>2. CASE m.user # << >>
      <4>1. PICK n \in Numbers : m.user = User(n) /\ m.key = Key(User(n), Realm, Pass(n))
        BY <1>2, <3>2 DEF AuthHandle, TurnInv
      <4>2. cred_map = Table
        BY <1>2 DEF AuthHandle, TurnInv
      <4> QED BY <3>2, <4>1, <4>2, TableHasKeys DEF Reply
    <3> QED BY <3>1, <3>2
  <2> QED BY <1>2, <2>1 DEF AuthHandle, TurnInv
<1>3. ASSUME NEW p \in Page, Draw(p) PROVE TurnInv'
  <2>0. PICK r \in 0..(Resolution - 1) :
          \E n \in 0..(10 * r) : IsCeil(n, 10 * r, Resolution) /\ r_num2' = [r_num2 EXCEPT ![p] = n]
    BY <1>3 DEF Draw
  <2>1. PICK n \in 0..(10 * r) :
          IsCeil(n, 10 * r, Resolution) /\ r_num2' = [r_num2 EXCEPT ![p] = n]
    BY <2>0
  <2>2. r \in Nat /\ n \in Nat
    BY <2>1, TurnAssumption
  <2>3. n \in Numbers
    BY <2>1, <2>2, DrawRange
  <2>4. n # -1
    BY <2>3 DEF Numbers
  <2> QED BY <1>3, <2>1, <2>3, <2>4 DEF Draw, TurnInv
<1>4. ASSUME NEW p \in Page, Ask(p) PROVE TurnInv'
  BY <1>4, AllocateKeeps DEF Ask
<1>5. ASSUME NEW p \in Page, Authenticate(p) PROVE TurnInv'
  <2>1. r_num2[p] \in Numbers
    BY <1>5 DEF Authenticate, TurnInv
  <2>2. r_num2[p] # -1
    BY <2>1 DEF Numbers
  <2> QED BY <1>5, <2>1, <2>2, AllocateKeeps DEF Authenticate
<1>6. ASSUME NEW p \in Page, Conclude(p) PROVE TurnInv'
  BY <1>6 DEF Conclude, TurnInv
<1>7. CASE UNCHANGED turnVars
  BY <1>7 DEF turnVars, TurnInv
<1> QED BY <1>1, <1>2, <1>3, <1>4, <1>5, <1>6, <1>7 DEF TurnNext, PageTurn

\* No page is refused by the TURN server, however finely random() draws.
THEOREM CredentialsAgree == TurnSpec => []NeverRefused
<1>1. TurnInv => NeverRefused
  BY DEF TurnInv, NeverRefused
<1> QED BY <1>1, TurnInvInit, TurnInvNext, PTL DEF TurnSpec
===============================================================================
