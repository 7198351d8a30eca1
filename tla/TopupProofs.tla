---------------------------- MODULE TopupProofs -----------------------------
(***************************************************************************)
(* What holds of Topup for any number of concurrent requests, payments,    *)
(* users and gas prices: a payment is credited at most once, only when its *)
(* money was moved, and only if it was signed.                             *)
(*                                                                         *)
(* CreditedOnce is not inductive.  It rests on who may still credit a      *)
(* payment: a request that holds a transaction which moved the money       *)
(* (Claims).  No two requests hold the same transaction (OneHolder), since *)
(* the node never takes one twice (HeldIsSent); no two transactions of a   *)
(* payment succeed (OneSuccess); and a payment that is credited has no     *)
(* claim left (CreditedHasNoClaim).                                        *)
(*                                                                         *)
(* That the pending transactions have no gap rests on the nonces made: the *)
(* next one never falls, so a request that took its nonce long ago still   *)
(* replaces a pending transaction or comes right after the last (Gapless). *)
(***************************************************************************)
EXTENDS Topup, FiniteSetTheorems, TLAPS

\* The request has had its transaction taken by the node.
Holds(r) == pc[r] \in {"wait", "credit"}

\* It has, or will find, the receipt that lets it credit its payment.
Claims(r) == Holds(r) /\ tx[r] \in succeeded

Typed ==
    /\ serverKey \in BOOLEAN
    /\ registered \subseteq Users /\ credited \in [Auths -> Nat]
    /\ expired \subseteq Auths /\ used \subseteq Auths
    /\ height \in Nat
    /\ IsFiniteSet(pool)
    /\ pool \subseteq Txs /\ succeeded \subseteq Txs /\ reverted \subseteq Txs
    /\ pc \in [Requests -> Places]
    /\ auth \in [Requests -> Auths \cup {NoAuth}]
    /\ tx \in [Requests -> Txs \cup {NoTx}]
    /\ \A r \in Requests :
          /\ pc[r] # "idle" => auth[r] \in Auths
          /\ pc[r] = "send" => tx[r] \in Txs

\* Past the verification a payment is signed.
Verified ==
    \A r \in Requests : pc[r] \in Settling \cup {"credit"} => auth[r] \in Valid

\* A transaction pays what its request brought.
OwnTx ==
    \A r \in Requests :
        pc[r] = "send" \/ Holds(r) => tx[r] \in Txs /\ tx[r].auth = auth[r]

HeldIsSent == \A r \in Requests : Holds(r) => ~Accepts(tx[r])

OneHolder == \A r, s \in Requests : Holds(r) /\ Holds(s) /\ tx[r] = tx[s] => r = s

OneSuccess ==
    /\ \A t \in succeeded : t.auth \in used
    /\ \A s, t \in succeeded : s.auth = t.auth => s = t

CreditOnReceipt == \A r \in Requests : pc[r] = "credit" => tx[r] \in succeeded

CreditedHasNoClaim ==
    \A a \in Auths :
        /\ credited[a] <= 1
        /\ credited[a] = 1 =>
              a \in used /\ \A r \in Requests : Claims(r) => auth[r] # a

\* What holds with or without a server key.
BaseInv == Typed /\ Verified /\ CreditedIsSigned

\* What holds as long as payments are settled.
SettledInv ==
    /\ OwnTx /\ HeldIsSent /\ OneHolder /\ OneSuccess
    /\ CreditOnReceipt /\ CreditedHasNoClaim

\* What PendingNonceAt answers.
NextNonce == height + Cardinality(pool)

Nonces(P) == {t.nonce : t \in P}

\* The pending transactions have the nonces from the chain's next one on, one
\* each, and a nonce that was handed out does not lie beyond the next.
Gapless ==
    /\ Nonces(pool) = height .. NextNonce - 1
    /\ \A p, q \in pool : p.nonce = q.nonce => p = q
    /\ \A r \in Requests : pc[r] = "send" => tx[r].nonce <= NextNonce

IInv == BaseInv /\ Gapless /\ (serverKey => SettledInv)

-----------------------------------------------------------------------------
LEMMA InitIInv == Init => IInv
<1> SUFFICES ASSUME Init
             PROVE  IInv
  OBVIOUS
<1>1. BaseInv
  BY FS_EmptySet
     DEF Init, BaseInv, Typed, Verified, CreditedIsSigned, Places, Settling
<1>2. SettledInv
  BY DEF Init, SettledInv, OwnTx, HeldIsSent, OneHolder, OneSuccess,
         CreditOnReceipt, CreditedHasNoClaim, Holds, Claims
<1>3. Gapless
  BY FS_EmptySet DEF Init, Gapless, NextNonce, Nonces
<1>4. QED
  BY <1>1, <1>2, <1>3 DEF IInv

-----------------------------------------------------------------------------
(* Types and signatures.                                                   *)

LEMMA StepBase == BaseInv /\ [Next]_vars => BaseInv'
<1> SUFFICES ASSUME BaseInv, [Next]_vars
             PROVE  BaseInv'
  OBVIOUS
<1> USE TopupAssumption DEF BaseInv, Typed, Verified, CreditedIsSigned,
        Places, Settling, chain, Goto, Over
<1>1. CASE UNCHANGED vars
  BY <1>1 DEF vars, requests
<1>2. ASSUME NEW r \in Requests, NEW a \in Auths, Submit(r, a)
      PROVE  BaseInv'
  BY <1>2 DEF Submit
<1>3. ASSUME NEW r \in Requests, Register(r)
      PROVE  BaseInv'
  BY <1>3 DEF Register
<1>4. ASSUME NEW r \in Requests, Verify(r)
      PROVE  BaseInv'
  BY <1>4 DEF Verify
<1>5. ASSUME NEW r \in Requests, NEW g \in GasPrices, MakeTx(r, g)
      PROVE  BaseInv'
  <2>1. height + Cardinality(pool) \in Nat
    BY FS_CardinalityType
  <2>2. tx'[r] \in Txs /\ tx' \in [Requests -> Txs \cup {NoTx}]
    BY <1>5, <2>1 DEF MakeTx, Txs
  <2>3. QED
    BY <1>5, <2>2 DEF MakeTx
<1>6. ASSUME NEW r \in Requests, Send(r)
      PROVE  BaseInv'
  <2>1. CASE Accepts(tx[r]) /\ pool' = Pooled(tx[r])
    <3>1. IsFiniteSet(pool')
      <4> DEFINE kept == {p \in pool : p.nonce # tx[r].nonce}
      <4>1. IsFiniteSet(kept)
        BY FS_Subset
      <4>2. IsFiniteSet(kept \cup {tx[r]})
        BY <4>1, FS_AddElement
      <4>3. QED
        BY <2>1, <4>2 DEF Pooled
    <3>2. pool' \subseteq Txs
      BY <1>6, <2>1 DEF Pooled, Send
    <3>3. QED
      BY <1>6, <2>1, <3>1, <3>2 DEF Send
  <2>2. CASE UNCHANGED pool
    BY <1>6, <2>2 DEF Send
  <2>3. QED
    BY <1>6, <2>1, <2>2 DEF Send
<1>7. ASSUME NEW r \in Requests, Receipt(r)
      PROVE  BaseInv'
  BY <1>7 DEF Receipt
<1>8. ASSUME NEW r \in Requests, GiveUp(r)
      PROVE  BaseInv'
  BY <1>8 DEF GiveUp
<1>9. ASSUME NEW r \in Requests, Credit(r)
      PROVE  BaseInv'
  BY <1>9 DEF Credit
<1>10. ASSUME NEW t \in pool, Mine(t)
       PROVE  BaseInv'
  <2>1. IsFiniteSet(pool')
    BY <1>10, FS_RemoveElement DEF Mine
  <2>2. t \in Txs /\ t.auth \in Auths
    BY DEF Txs
  <2>3. QED
    BY <1>10, <2>1, <2>2 DEF Mine, requests
<1>11. ASSUME NEW a \in Auths, Expire(a)
       PROVE  BaseInv'
  BY <1>11 DEF Expire, requests
<1>12. CASE Restart
  BY <1>12 DEF Restart
<1>13. QED
  BY <1>1, <1>2, <1>3, <1>4, <1>5, <1>6, <1>7, <1>8, <1>9, <1>10, <1>11,
     <1>12 DEF Next, Handle

-----------------------------------------------------------------------------
(* The nonces.                                                             *)

\* A step that leaves height and pool alone and hands out no nonce but the next.
LEMMA GaplessStays ==
    ASSUME BaseInv, Gapless, UNCHANGED <<height, pool>>,
           \A r \in Requests : pc'[r] = "send" =>
               \/ pc[r] = "send" /\ tx'[r] = tx[r]
               \/ tx'[r].nonce = NextNonce
    PROVE  Gapless'
<1>1. NextNonce \in Nat
  BY FS_CardinalityType DEF NextNonce, BaseInv, Typed
<1>2. NextNonce' = NextNonce
  BY DEF NextNonce
<1>3. ASSUME NEW r \in Requests, pc'[r] = "send"
      PROVE  tx'[r].nonce <= NextNonce
  BY <1>1, <1>3 DEF Gapless
<1>4. QED
  BY <1>2, <1>3 DEF Gapless

\* A transaction the node takes replaces the one of its nonce or is the next.
LEMMA SendGapless ==
    ASSUME BaseInv, Gapless, NEW r \in Requests, Send(r)
    PROVE  Gapless'
<1> USE DEF Typed, BaseInv
<1>1. /\ pc[r] = "send" /\ tx[r] \in Txs /\ pool \subseteq Txs /\ height' = height
      /\ \A q \in Requests : pc'[q] = "send" => pc[q] = "send" /\ tx'[q] = tx[q]
  BY DEF Send, Over, Goto
<1>2. CASE UNCHANGED pool
  BY <1>1, <1>2, GaplessStays
<1>3. CASE Accepts(tx[r]) /\ pool' = Pooled(tx[r])
  <2> DEFINE t == tx[r]
             kept == {p \in pool : p.nonce # t.nonce}
             n == Cardinality(pool)
  <2>1. IsFiniteSet(pool) /\ n \in Nat /\ height \in Nat
    BY FS_CardinalityType
  <2>2. \A p \in Txs : p.nonce \in Nat
    BY DEF Txs
  <2>3. /\ t \in Txs /\ t \notin pool /\ t.nonce \in height .. height + n
        /\ pool' = kept \cup {t}
    BY <1>1, <1>3, <2>1, <2>2 DEF Accepts, Known, Pooled, Gapless, NextNonce
  <2>4. /\ Nonces(pool) = height .. (height + n) - 1
        /\ \A p, q \in pool : p.nonce = q.nonce => p = q
        /\ \A q \in Requests : pc[q] = "send" => tx[q].nonce <= height + n
    BY DEF Gapless, NextNonce
  <2>5. \A p, q \in pool' : p.nonce = q.nonce => p = q
    BY <2>3, <2>4
  <2>6. CASE t.nonce = height + n
    <3>1. kept = pool
      <4>1. \A p \in pool : p.nonce \in height .. (height + n) - 1
        BY <2>4 DEF Nonces
      <4>2. QED
        BY <2>1, <2>6, <4>1
    <3>2. Cardinality(pool') = n + 1
      BY <2>1, <2>3, <3>1, FS_AddElement
    <3>3. Nonces(pool') = height .. (height + (n + 1)) - 1
      <4>1. Nonces(pool') = Nonces(pool) \cup {t.nonce}
        BY <2>3, <3>1 DEF Nonces
      <4> HIDE DEF n, t
      <4>2. height .. (height + (n + 1)) - 1
              = (height .. (height + n) - 1) \cup {height + n}
        BY <2>1
      <4>3. QED
        BY <2>4, <2>6, <4>1, <4>2
    <3>4. \A q \in Requests : pc'[q] = "send" => tx'[q].nonce <= height + (n + 1)
      <4>1. \A q \in Requests : pc[q] = "send" => tx[q].nonce \in Nat
        BY <2>2
      <4>2. QED
        BY <1>1, <2>1, <2>4, <4>1
    <3>5. QED
      BY <1>1, <2>5, <3>2, <3>3, <3>4 DEF Gapless, NextNonce
  <2>7. CASE t.nonce \in height .. (height + n) - 1
    <3>1. PICK p \in pool : p.nonce = t.nonce
      BY <2>4, <2>7 DEF Nonces
    <3>2. kept = pool \ {p}
      BY <2>4, <3>1
    <3>3. /\ IsFiniteSet(kept) /\ Cardinality(kept) = n - 1 /\ t \notin kept
      BY <2>1, <2>3, <3>2, FS_RemoveElement
    <3>4. Cardinality(pool') = n
      <4> HIDE DEF n, t, kept
      <4>1. Cardinality(kept \cup {t}) = (n - 1) + 1
        BY <3>3, FS_AddElement
      <4>2. QED
        BY <2>1, <2>3, <4>1
    <3>5. Nonces(pool') = Nonces(pool)
      BY <2>3, <3>1, <3>2 DEF Nonces
    <3>6. QED
      BY <1>1, <2>4, <2>5, <3>4, <3>5 DEF Gapless, NextNonce
  <2>8. QED
    BY <2>1, <2>3, <2>6, <2>7
<1>4. QED
  BY <1>1, <1>2, <1>3 DEF Send

\* The chain's next nonce rises as the transaction that had it leaves.
LEMMA MineGapless ==
    ASSUME BaseInv, Gapless, NEW t \in pool, Mine(t)
    PROVE  Gapless'
<1> DEFINE n == Cardinality(pool)
<1>1. /\ IsFiniteSet(pool) /\ n \in Nat /\ height \in Nat
  BY FS_CardinalityType DEF BaseInv, Typed
<1>2. /\ pool' = pool \ {t} /\ height' = height + 1 /\ t.nonce = height
      /\ UNCHANGED <<pc, tx>>
  BY DEF Mine, requests
<1>3. Cardinality(pool') = n - 1
  BY <1>1, <1>2, FS_RemoveElement
<1>4. /\ Nonces(pool) = height .. (height + n) - 1
      /\ \A p, q \in pool : p.nonce = q.nonce => p = q
      /\ \A q \in Requests : pc[q] = "send" => tx[q].nonce <= height + n
  BY DEF Gapless, NextNonce
<1>5. (height + 1) + (n - 1) = height + n
  BY <1>1
<1>6. Nonces(pool') = height + 1 .. (height + n) - 1
  <2>1. Nonces(pool') = Nonces(pool) \ {height}
    BY <1>2, <1>4 DEF Nonces
  <2>2. QED
    BY <1>1, <1>4, <2>1
<1>7. QED
  BY <1>2, <1>3, <1>4, <1>5, <1>6 DEF Gapless, NextNonce

LEMMA StepGapless == BaseInv /\ Gapless /\ [Next]_vars => Gapless'
<1> SUFFICES ASSUME BaseInv, Gapless, [Next]_vars
             PROVE  Gapless'
  OBVIOUS
<1> USE DEF BaseInv, Typed, Goto, Over, chain
<1>1. CASE UNCHANGED vars
  BY <1>1, GaplessStays DEF vars, requests
<1>2. ASSUME NEW r \in Requests, NEW a \in Auths, Submit(r, a)
      PROVE  Gapless'
  BY <1>2, GaplessStays DEF Submit
<1>3. ASSUME NEW r \in Requests, Register(r)
      PROVE  Gapless'
  BY <1>3, GaplessStays DEF Register
<1>4. ASSUME NEW r \in Requests, Verify(r)
      PROVE  Gapless'
  BY <1>4, GaplessStays DEF Verify
<1>5. ASSUME NEW r \in Requests, NEW g \in GasPrices, MakeTx(r, g)
      PROVE  Gapless'
  BY <1>5, GaplessStays DEF MakeTx, NextNonce
<1>6. ASSUME NEW r \in Requests, Receipt(r) \/ GiveUp(r) \/ Credit(r)
      PROVE  Gapless'
  BY <1>6, GaplessStays DEF Receipt, GiveUp, Credit
<1>7. ASSUME NEW a \in Auths, Expire(a)
      PROVE  Gapless'
  BY <1>7, GaplessStays DEF Expire, requests
<1>8. CASE Restart
  BY <1>8, GaplessStays DEF Restart
<1>9. QED
  BY <1>1, <1>2, <1>3, <1>4, <1>5, <1>6, <1>7, <1>8, SendGapless, MineGapless
  DEF Next, Handle

-----------------------------------------------------------------------------
(* Who may still credit what.                                              *)

\* A step that leaves chain and credits alone and gives nobody a transaction
\* or a receipt they should not have.
Calm ==
    /\ UNCHANGED <<credited, chain>>
    /\ \A q \in Requests :
          /\ Holds(q)' => Holds(q) /\ tx'[q] = tx[q] /\ auth'[q] = auth[q]
          /\ pc'[q] = "send" => tx'[q] \in Txs /\ tx'[q].auth = auth'[q]
          /\ pc'[q] = "credit" => tx'[q] \in succeeded

LEMMA CalmSettled == SettledInv /\ Calm => SettledInv'
<1> SUFFICES ASSUME SettledInv, Calm
             PROVE  SettledInv'
  OBVIOUS
<1> USE DEF SettledInv, Calm, chain
<1>1. OwnTx'
  BY DEF OwnTx
<1>2. HeldIsSent'
  BY DEF HeldIsSent, Accepts, Known
<1>3. OneHolder'
  BY DEF OneHolder
<1>4. OneSuccess'
  BY DEF OneSuccess
<1>5. CreditOnReceipt'
  BY DEF CreditOnReceipt
<1>6. CreditedHasNoClaim'
  BY DEF CreditedHasNoClaim, Claims
<1>7. QED
  BY <1>1, <1>2, <1>3, <1>4, <1>5, <1>6

\* The node takes r's transaction: it is new, so nobody else holds it, and
\* it has not succeeded.
LEMMA SendSettled ==
    ASSUME BaseInv, SettledInv, NEW r \in Requests, Send(r)
    PROVE  SettledInv'
<1> USE DEF Typed, Places, Over, Goto
<1>0. PICK t \in Txs : t = tx[r]
  BY DEF Send, SettledInv, OwnTx
<1>1. BaseInv /\ pc[r] = "send" /\ t = tx[r] /\ t.auth = auth[r]
  BY <1>0 DEF Send, SettledInv, OwnTx
<1>2. CASE Over(r) /\ UNCHANGED pool
  BY <1>1, <1>2, CalmSettled
     DEF Send, Calm, chain, BaseInv, SettledInv, OwnTx, Holds, CreditOnReceipt
<1>3. CASE Accepts(t) /\ pool' = Pooled(t)
  <2>1. /\ UNCHANGED <<credited, used, height, succeeded, reverted>>
        /\ \A q \in Requests \ {r} :
              pc'[q] = pc[q] /\ tx'[q] = tx[q] /\ auth'[q] = auth[q]
        /\ pc'[r] # "credit" /\ pc'[r] # "send"
        /\ Holds(r)' => tx'[r] = t /\ auth'[r] = auth[r]
    BY <1>1, <1>3 DEF Send, BaseInv, Holds
  <2>2. \A q \in Requests : Holds(q) => tx[q] # t
    BY <1>3 DEF SettledInv, HeldIsSent
  <2>3. t \notin succeeded
    BY <1>3 DEF Accepts, Known
  <2>4. \A u \in Txs : ~Accepts(u) => ~Accepts(u)'
    <3> SUFFICES ASSUME NEW u \in Txs, ~Accepts(u), Accepts(u)'
                 PROVE  FALSE
      OBVIOUS
    <3>1. u \notin pool' /\ u \notin succeeded /\ u \notin reverted
      BY <2>1 DEF Accepts, Known
    <3>2. u.nonce >= height /\ \A p \in pool' : p.nonce = u.nonce => u.gas > p.gas
      BY <2>1 DEF Accepts
    <3>3. t \in pool' /\ \A p \in pool : p.nonce # t.nonce => p \in pool'
      BY <1>3 DEF Pooled
    <3>4. \A p \in pool : p.nonce = t.nonce => t.gas > p.gas
      BY <1>3 DEF Accepts
    <3>5. /\ pool \subseteq Txs
          /\ \A p \in Txs : p.gas \in Nat
      <4>1. \A p \in Txs : p.gas \in GasPrices
        BY DEF Txs
      <4>2. QED
        BY <1>1, <4>1, TopupAssumption DEF BaseInv
    <3>6. \A p \in pool : p.nonce = u.nonce => u.gas > p.gas
      BY <1>1, <3>2, <3>3, <3>4, <3>5
    <3>7. u \notin pool
      BY <3>5, <3>6
    <3>8. QED
      BY <3>1, <3>2, <3>6, <3>7 DEF Accepts, Known
  <2>5. ~Accepts(t)'
    BY <1>3 DEF Pooled, Accepts, Known
  <2>6. OwnTx'
    BY <1>1, <2>1 DEF SettledInv, OwnTx, Holds
  <2>7. HeldIsSent'
    <3> SUFFICES ASSUME NEW q \in Requests, Holds(q)'
                 PROVE  ~Accepts(tx[q])'
      BY DEF HeldIsSent
    <3>1. CASE q = r
      <4>1. tx'[q] = t
        BY <2>1, <3>1
      <4>2. QED
        BY <2>5, <4>1 DEF Accepts, Known
    <3>2. CASE q # r
      <4>1. Holds(q) /\ tx'[q] = tx[q]
        BY <2>1, <3>2 DEF Holds
      <4>2. tx[q] \in Txs /\ ~Accepts(tx[q])
        BY <4>1 DEF SettledInv, OwnTx, HeldIsSent
      <4>3. QED
        BY <2>4, <4>1, <4>2 DEF Accepts, Known
    <3>3. QED
      BY <3>1, <3>2
  <2>8. OneHolder'
    BY <2>1, <2>2 DEF SettledInv, OneHolder, Holds
  <2>9. OneSuccess'
    BY <2>1 DEF SettledInv, OneSuccess
  <2>10. CreditOnReceipt'
    BY <2>1 DEF SettledInv, CreditOnReceipt
  <2>11. CreditedHasNoClaim'
    BY <2>1, <2>3 DEF SettledInv, CreditedHasNoClaim, Claims, Holds
  <2>12. QED
    BY <2>6, <2>7, <2>8, <2>9, <2>10, <2>11 DEF SettledInv
<1>4. QED
  BY <1>1, <1>2, <1>3 DEF Send

\* A transaction is mined: what was taken before stays taken, and it only
\* succeeds when its payment was neither moved nor credited.
LEMMA MineSettled ==
    ASSUME BaseInv, SettledInv, NEW t \in pool, Mine(t)
    PROVE  SettledInv'
<1> USE DEF Mine, requests
<1>1. t \in Txs /\ t.auth \in Auths /\ height \in Nat /\ pool \subseteq Txs
  BY DEF BaseInv, Typed, Txs
<1>2. /\ UNCHANGED <<credited, pc, auth, tx>> /\ t.nonce = height
      /\ \A q \in Requests : Holds(q)' <=> Holds(q)
  BY DEF Holds
<1>3. \/ t.auth \notin used /\ used' = used \cup {t.auth}
           /\ succeeded' = succeeded \cup {t}
      \/ UNCHANGED <<used, succeeded>>
  OBVIOUS
<1>4. \A u \in Txs : ~Accepts(u) => ~Accepts(u)'
  <2> SUFFICES ASSUME NEW u \in Txs, ~Accepts(u), Accepts(u)'
               PROVE  FALSE
    OBVIOUS
  <2>1. u.nonce \in Nat
    BY DEF Txs
  <2>2. u.nonce >= height + 1
    BY DEF Accepts
  <2>3. u # t
    BY <1>1, <1>2, <2>2
  <2>4. u \notin pool /\ u \notin succeeded /\ u \notin reverted
    BY <2>3 DEF Accepts, Known
  <2>5. \A p \in pool : p.nonce = u.nonce => u.gas > p.gas
    BY <1>1, <1>2, <2>2 DEF Accepts
  <2>6. QED
    BY <1>1, <2>1, <2>2, <2>4, <2>5 DEF Accepts, Known
<1>5. OwnTx'
  BY <1>2 DEF SettledInv, OwnTx
<1>6. HeldIsSent'
  <2> SUFFICES ASSUME NEW q \in Requests, Holds(q)'
               PROVE  ~Accepts(tx[q])'
    BY DEF HeldIsSent
  <2>1. tx[q] \in Txs /\ ~Accepts(tx[q]) /\ tx'[q] = tx[q]
    BY <1>2 DEF SettledInv, OwnTx, HeldIsSent
  <2>2. QED
    BY <1>4, <2>1 DEF Accepts, Known
<1>7. OneHolder'
  BY <1>2 DEF SettledInv, OneHolder
<1>8. OneSuccess'
  BY <1>3 DEF SettledInv, OneSuccess
<1>9. CreditOnReceipt'
  BY <1>2, <1>3 DEF SettledInv, CreditOnReceipt
<1>10. CreditedHasNoClaim'
  <2> SUFFICES ASSUME NEW a \in Auths
               PROVE  /\ credited[a] <= 1
                      /\ credited[a] = 1 =>
                            /\ a \in used'
                            /\ \A q \in Requests : Claims(q)' => auth[q] # a
    BY <1>2 DEF CreditedHasNoClaim
  <2>1. /\ credited[a] <= 1
        /\ credited[a] = 1 =>
              a \in used /\ \A q \in Requests : Claims(q) => auth[q] # a
    BY DEF SettledInv, CreditedHasNoClaim
  <2>2. ASSUME credited[a] = 1, NEW q \in Requests, Claims(q)', auth[q] = a
        PROVE  FALSE
    <3>1. Holds(q) /\ tx[q].auth = a /\ a \in used /\ ~Claims(q)
      BY <1>2, <2>1, <2>2 DEF Claims, SettledInv, OwnTx
    <3>2. tx[q] \in succeeded' /\ tx[q] \notin succeeded
      BY <1>2, <2>2, <3>1 DEF Claims
    <3>3. QED
      BY <1>3, <3>1, <3>2
  <2>3. QED
    BY <1>3, <2>1, <2>2
<1>11. QED
  BY <1>5, <1>6, <1>7, <1>8, <1>9, <1>10 DEF SettledInv

\* A credit uses up the only claim on its payment.
LEMMA CreditSettled ==
    ASSUME BaseInv, SettledInv, NEW r \in Requests, Credit(r)
    PROVE  SettledInv'
<1> USE DEF Over
<1> DEFINE b == auth[r]
<1>1. /\ pc[r] = "credit" /\ UNCHANGED chain
      /\ b \in Auths /\ credited \in [Auths -> Nat]
  BY DEF Credit, BaseInv, Typed
<1>2. /\ pc'[r] = "idle"
      /\ \A q \in Requests \ {r} :
            pc'[q] = pc[q] /\ tx'[q] = tx[q] /\ auth'[q] = auth[q]
  BY DEF Credit, BaseInv, Typed
<1>3. \A q \in Requests : Holds(q)' => q # r /\ Holds(q)
  BY <1>2 DEF Holds
<1>4. Claims(r) /\ tx[r].auth = b
  BY <1>1 DEF Claims, Holds, SettledInv, OwnTx, CreditOnReceipt
<1>5. OwnTx' /\ OneHolder' /\ CreditOnReceipt'
  BY <1>1, <1>2, <1>3
     DEF SettledInv, OwnTx, OneHolder, CreditOnReceipt, Holds, chain
<1>6. HeldIsSent'
  BY <1>1, <1>2, <1>3 DEF SettledInv, HeldIsSent, Accepts, Known, chain
<1>7. OneSuccess'
  BY <1>1 DEF SettledInv, OneSuccess, chain
<1>8. CreditedHasNoClaim'
  <2> SUFFICES ASSUME NEW a \in Auths
               PROVE  /\ credited'[a] <= 1
                      /\ credited'[a] = 1 =>
                            /\ a \in used'
                            /\ \A q \in Requests : Claims(q)' => auth'[q] # a
    BY DEF CreditedHasNoClaim
  <2>1. \A q \in Requests :
            Claims(q)' => q # r /\ Claims(q) /\ auth'[q] = auth[q]
    BY <1>1, <1>2, <1>3 DEF Claims, chain
  <2>2. /\ credited[a] <= 1
        /\ credited[a] = 1 =>
              a \in used /\ \A q \in Requests : Claims(q) => auth[q] # a
    BY DEF SettledInv, CreditedHasNoClaim
  <2>3. CASE credited'[a] = credited[a]
    BY <1>1, <2>1, <2>2, <2>3 DEF chain
  <2>4. CASE a = b /\ credited'[b] = credited[b] + 1
    <3>1. credited[b] = 0
      BY <1>1, <1>4, <2>2, <2>4
    <3>2. tx[r] \in succeeded /\ b \in used'
      BY <1>1, <1>4 DEF Claims, SettledInv, OneSuccess, chain
    <3>3. ASSUME NEW q \in Requests, Claims(q)', auth'[q] = b
          PROVE  FALSE
      <4>1. q # r /\ Claims(q) /\ tx[q].auth = b
        BY <2>1, <3>3 DEF Claims, SettledInv, OwnTx
      <4>2. tx[q] = tx[r]
        BY <1>4, <4>1 DEF Claims, SettledInv, OneSuccess
      <4>3. QED
        BY <1>4, <4>1, <4>2 DEF Claims, SettledInv, OneHolder
    <3>4. QED
      BY <2>4, <3>1, <3>2, <3>3
  <2>5. QED
    BY <1>1, <2>3, <2>4 DEF Credit
<1>9. QED
  BY <1>5, <1>6, <1>7, <1>8 DEF SettledInv

LEMMA StepKey == [Next]_vars => serverKey' = serverKey
BY DEF Next, Handle, Submit, Register, Verify, MakeTx, Send, Receipt, GiveUp,
       Credit, Restart, Mine, Expire, chain, vars

LEMMA StepSettled ==
    ASSUME serverKey, BaseInv, SettledInv, [Next]_vars
    PROVE  SettledInv'
<1> USE DEF Calm, chain, Holds, Goto, Over
<1>0. /\ BaseInv /\ Typed
      /\ \A q \in Requests :
            /\ pc[q] = "send" => tx[q] \in Txs /\ tx[q].auth = auth[q]
            /\ pc[q] = "credit" => tx[q] \in succeeded
  BY DEF BaseInv, SettledInv, OwnTx, CreditOnReceipt
<1> USE DEF Typed
<1>1. CASE UNCHANGED vars
  <2>1. Calm
    BY <1>0, <1>1 DEF vars, requests
  <2>2. QED
    BY <2>1, CalmSettled
<1>2. ASSUME NEW r \in Requests, NEW a \in Auths, Submit(r, a)
      PROVE  Calm
  BY <1>0, <1>2 DEF Submit
<1>3. ASSUME NEW r \in Requests, Register(r)
      PROVE  Calm
  BY <1>0, <1>3 DEF Register
<1>4. ASSUME NEW r \in Requests, Verify(r)
      PROVE  Calm
  BY <1>0, <1>4 DEF Verify
<1>5. ASSUME NEW r \in Requests, NEW g \in GasPrices, MakeTx(r, g)
      PROVE  Calm
  <2>1. auth[r] \in Auths /\ height + Cardinality(pool) \in Nat
    BY <1>0, <1>5, FS_CardinalityType DEF MakeTx
  <2>2. tx'[r] \in Txs /\ tx'[r].auth = auth'[r]
    BY <1>0, <1>5, <2>1 DEF MakeTx, Txs
  <2>3. QED
    BY <1>0, <1>5, <2>2 DEF MakeTx
<1>6. ASSUME NEW r \in Requests, Receipt(r)
      PROVE  Calm
  BY <1>0, <1>6 DEF Receipt
<1>7. ASSUME NEW r \in Requests, GiveUp(r)
      PROVE  Calm
  BY <1>0, <1>7 DEF GiveUp
<1>8. ASSUME NEW a \in Auths, Expire(a)
      PROVE  Calm
  BY <1>0, <1>8 DEF Expire, requests
<1>9. CASE Restart
  <2>1. Calm
    BY <1>0, <1>9 DEF Restart
  <2>2. QED
    BY <2>1, CalmSettled
<1>10. QED
  BY <1>1, <1>2, <1>3, <1>4, <1>5, <1>6, <1>7, <1>8, <1>9, CalmSettled,
     SendSettled, MineSettled, CreditSettled DEF Next, Handle

-----------------------------------------------------------------------------
(* IInv is an invariant for any number of requests, payments and users, on *)
(* chain or offline (serveTopup, VerifyPaymentAuth, SettlePaymentAuth).    *)
THEOREM TopupInvariant == Spec => []IInv
<1>1. IInv /\ [Next]_vars => IInv'
  BY StepBase, StepGapless, StepKey, StepSettled DEF IInv
<1>2. QED
  BY InitIInv, <1>1, PTL DEF Spec

(* The types, and with them the pool: whatever requests race for a nonce,  *)
(* give up or come back late, and whatever prices they bid, no pending     *)
(* transaction waits behind a nonce nobody sent (SettlePaymentAuth).       *)
THEOREM TopupTypeOK == Spec => []TypeOK
<1>1. IInv => TypeOK
  <2> SUFFICES ASSUME IInv
               PROVE  TypeOK
    OBVIOUS
  <2>1. height \in Nat /\ Cardinality(pool) \in Nat
    BY FS_CardinalityType DEF IInv, BaseInv, Typed
  <2>2. NextNonce - 1 = height + Cardinality(pool) - 1
    BY <2>1 DEF NextNonce
  <2>3. {t.nonce : t \in pool} = height .. height + Cardinality(pool) - 1
    BY <2>2 DEF IInv, Gapless, Nonces
  <2>4. QED
    BY <2>3 DEF IInv, BaseInv, Typed, TypeOK
<1>2. QED
  BY <1>1, TopupInvariant, PTL

(* A payment is credited at most once, and only after its money was moved, *)
(* whoever submits it how often and whatever fails or restarts between the *)
(* settlement and Credit.                                                  *)
THEOREM TopupCreditedOnce == Spec => []CreditedOnce
<1>1. IInv => CreditedOnce
  BY DEF IInv, BaseInv, Typed, SettledInv, CreditedHasNoClaim, CreditedOnce
<1>2. QED
  BY <1>1, TopupInvariant, PTL

(* No payment is credited that its payer did not sign.                     *)
THEOREM TopupCreditedIsSigned == Spec => []CreditedIsSigned
<1>1. IInv => CreditedIsSigned
  BY DEF IInv, BaseInv
<1>2. QED
  BY <1>1, TopupInvariant, PTL
=============================================================================
