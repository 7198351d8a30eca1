-------------------------------- MODULE Topup -------------------------------
(***************************************************************************)
(* POST /v1/topup (topup.go): a signed payment is registered, verified,    *)
(* settled on chain (usdc.go) and credited (wallet.go), as separate steps  *)
(* of concurrent requests.                                                 *)
(*                                                                         *)
(* The chain is external and modelled by what SettlePaymentAuth relies on: *)
(* a transaction is its account nonce, gas price and payload, so two equal *)
(* ones are the same transaction; the node refuses one it knows, one whose *)
(* nonce is spent, and one that does not outbid the pending transaction of *)
(* its nonce; transactions are mined in the order of their nonces; and the *)
(* USDC contract executes an authorization (EIP-3009) once, inside its     *)
(* window.                                                                 *)
(*                                                                         *)
(* A payment may be submitted again and again, by a client that never saw  *)
(* the answer or by a duplicated request: the gateway keeps no record of   *)
(* the ones it has seen.  A request that fails one of the checks up to the *)
(* payment's value, sender and recipient changes nothing and is no step.   *)
(***************************************************************************)
EXTENDS Integers, FiniteSets

CONSTANTS Requests,   \* slots for concurrent requests
          Auths,      \* payment authorizations clients may submit
          Users,      \* payers
          From,       \* From[a]: who pays
          Valid,      \* the authorizations their payer really signed
          NoAuth,     \* what an idle slot holds
          NoTx,       \* no transaction was made
          GasPrices,  \* what SuggestGasPrice may answer
          MaxTxs,     \* bound: transactions the server's account sends
          MaxCredits  \* bound: credits of one authorization, when offline

ASSUME TopupAssumption ==
    /\ From \in [Auths -> Users]
    /\ Valid \subseteq Auths
    /\ NoAuth \notin Auths
    /\ GasPrices \subseteq Nat
    /\ MaxTxs \in Nat /\ MaxCredits \in Nat

VARIABLES serverKey,   \* whether the gateway has a key to settle with
          registered,  \* users with an account
          credited,    \* credited[a]: how often a was credited
          expired,     \* authorizations past their validBefore
          used,        \* authorizations the contract has executed
          height,      \* next account nonce the chain will mine
          pool,        \* pending transactions of the server's account
          succeeded,   \* mined transactions that moved the money
          reverted,    \* mined transactions that did not
          pc,          \* pc[r]: where request r is
          auth,        \* auth[r]: the payment it carries
          tx           \* tx[r]: the transaction it made

chain == <<serverKey, used, height, pool, succeeded, reverted>>
requests == <<pc, auth, tx>>
vars == <<registered, credited, expired, chain, requests>>

Places == {"idle", "register", "verify", "nonce", "send", "wait", "credit"}

\* SettlePaymentAuth is under way: its context is watched all the time.
Settling == {"nonce", "send", "wait"}

Txs == [nonce : Nat, gas : GasPrices, auth : Auths]

Known(t) == t \in pool \cup succeeded \cup reverted

-----------------------------------------------------------------------------
Init == /\ serverKey \in BOOLEAN
        /\ registered = {}
        /\ credited = [a \in Auths |-> 0]
        /\ expired = {} /\ used = {}
        /\ height = 0 /\ pool = {} /\ succeeded = {} /\ reverted = {}
        /\ pc = [r \in Requests |-> "idle"]
        /\ auth = [r \in Requests |-> NoAuth]
        /\ tx = [r \in Requests |-> NoTx]

Goto(r, from, to) == pc[r] = from /\ pc' = [pc EXCEPT ![r] = to]

\* The request is answered, whatever the answer.
Over(r) == /\ pc' = [pc EXCEPT ![r] = "idle"]
           /\ auth' = [auth EXCEPT ![r] = NoAuth]
           /\ tx' = [tx EXCEPT ![r] = NoTx]

\* A signed request brings a payment that names its sender, the amount asked
\* for and the promised recipient.
Submit(r, a) ==
    /\ Goto(r, "idle", "register")
    /\ credited[a] < MaxCredits
    /\ auth' = [auth EXCEPT ![r] = a]
    /\ UNCHANGED <<registered, credited, expired, chain, tx>>

\* RegisterUser, before the payment's signature is looked at; an account the
\* wallet cannot write down ends the request.
Register(r) ==
    /\ pc[r] = "register"
    /\ \/ /\ registered' = registered \cup {From[auth[r]]}
          /\ Goto(r, "register", "verify")
          /\ UNCHANGED <<auth, tx>>
       \/ /\ From[auth[r]] \notin registered
          /\ Over(r)
          /\ UNCHANGED registered
    /\ UNCHANGED <<credited, expired, chain>>

\* (mutant) The window is checked, the signature is not.
VerifyWindowOnly(r) ==
    /\ auth[r] \notin expired
    /\ Goto(r, "verify", IF serverKey THEN "nonce" ELSE "credit")
    /\ UNCHANGED <<registered, credited, expired, chain, auth, tx>>

\* VerifyPaymentAuth: signature and window.  Without a key nothing settles.
Verify(r) ==
    /\ \/ /\ auth[r] \in Valid \ expired
          /\ Goto(r, "verify", IF serverKey THEN "nonce" ELSE "credit")
          /\ UNCHANGED <<auth, tx>>
       \/ /\ pc[r] = "verify"
          /\ auth[r] \notin Valid \ expired
          /\ Over(r)
    /\ UNCHANGED <<registered, credited, expired, chain>>

\* (mutant) The nonce after the next one.
MakeTxAhead(r, g) ==
    /\ Goto(r, "nonce", "send")
    /\ height + Cardinality(pool) < MaxTxs
    /\ tx' = [tx EXCEPT ![r] = [nonce |-> height + Cardinality(pool) + 1,
                                gas |-> g, auth |-> auth[r]]]
    /\ UNCHANGED <<registered, credited, expired, chain, auth>>

\* PendingNonceAt, SuggestGasPrice and SignTx.
MakeTx(r, g) ==
    /\ Goto(r, "nonce", "send")
    /\ height + Cardinality(pool) < MaxTxs
    /\ tx' = [tx EXCEPT ![r] = [nonce |-> height + Cardinality(pool),
                                gas |-> g, auth |-> auth[r]]]
    /\ UNCHANGED <<registered, credited, expired, chain, auth>>

\* (external) What makes a node take a transaction.
Accepts(t) ==
    /\ ~Known(t)
    /\ t.nonce >= height
    /\ \A p \in pool : p.nonce = t.nonce => t.gas > p.gas

\* (external) It takes the place of the pending one of its nonce.
Pooled(t) == {p \in pool : p.nonce # t.nonce} \cup {t}

\* SendTransaction: taken, refused, or taken while the answer got lost.
Send(r) ==
    /\ pc[r] = "send"
    /\ \/ /\ Accepts(tx[r])
          /\ pool' = Pooled(tx[r])
          /\ \/ Goto(r, "send", "wait") /\ UNCHANGED <<auth, tx>>
             \/ Over(r)
       \/ /\ ~Accepts(tx[r])
          /\ Over(r)
          /\ UNCHANGED pool
    /\ UNCHANGED <<serverKey, registered, credited, expired,
                   used, height, succeeded, reverted>>

\* (mutant) A receipt is enough, whatever its status.
ReceiptOfAnyStatus(r) ==
    /\ tx[r] \in succeeded \cup reverted
    /\ Goto(r, "wait", "credit")
    /\ UNCHANGED <<registered, credited, expired, chain, auth, tx>>

\* WaitMined returned the receipt.
Receipt(r) ==
    /\ \/ /\ tx[r] \in succeeded
          /\ Goto(r, "wait", "credit")
          /\ UNCHANGED <<auth, tx>>
       \/ /\ pc[r] = "wait"
          /\ tx[r] \in reverted
          /\ Over(r)
    /\ UNCHANGED <<registered, credited, expired, chain>>

\* (mutant) Nothing bounds the wait for the receipt.
GiveUpBeforeSending(r) ==
    /\ pc[r] \in Settling \ {"wait"}
    /\ Over(r)
    /\ UNCHANGED <<registered, credited, expired, chain>>

\* A call to the node failed, 60 or 90 seconds are over, or the client left
\* (the context derives from the request's): 502, wherever it was.
GiveUp(r) ==
    /\ pc[r] \in Settling
    /\ Over(r)
    /\ UNCHANGED <<registered, credited, expired, chain>>

\* Credit opens an account if need be, and adds the amount unless the wallet
\* cannot write it down.
Credit(r) ==
    /\ pc[r] = "credit"
    /\ registered' = registered \cup {From[auth[r]]}
    /\ \/ credited' = [credited EXCEPT ![auth[r]] = @ + 1]
       \/ UNCHANGED credited
    /\ Over(r)
    /\ UNCHANGED <<expired, chain>>

\* The gateway stops: requests are gone, wallet.jsonl and the chain are not.
Restart ==
    /\ pc' = [r \in Requests |-> "idle"]
    /\ auth' = [r \in Requests |-> NoAuth]
    /\ tx' = [r \in Requests |-> NoTx]
    /\ UNCHANGED <<registered, credited, expired, chain>>

\* (external) The next transaction is mined; it moves the money unless the
\* authorization is used up, expired or not covered by the payer's funds.
Mine(t) ==
    /\ t \in pool /\ t.nonce = height
    /\ pool' = pool \ {t}
    /\ height' = height + 1
    /\ \/ /\ t.auth \in Valid \ (used \cup expired)
          /\ used' = used \cup {t.auth}
          /\ succeeded' = succeeded \cup {t}
          /\ UNCHANGED reverted
       \/ /\ reverted' = reverted \cup {t}
          /\ UNCHANGED <<used, succeeded>>
    /\ UNCHANGED <<serverKey, registered, credited, expired, requests>>

\* (external) Time passes validBefore.
Expire(a) ==
    /\ a \notin expired
    /\ expired' = expired \cup {a}
    /\ UNCHANGED <<registered, credited, chain, requests>>

\* What the gateway does about a request, once it runs.
Handle(r) ==
    \/ Register(r) \/ Verify(r)
    \/ \E g \in GasPrices : MakeTx(r, g)
    \/ Send(r) \/ Receipt(r) \/ GiveUp(r) \/ Credit(r)

Next ==
    \/ \E r \in Requests : Handle(r) \/ \E a \in Auths : Submit(r, a)
    \/ \E t \in pool : Mine(t)
    \/ \E a \in Auths : Expire(a)
    \/ Restart

Spec == Init /\ [][Next]_vars

\* Every step of a request is the gateway's own: what it waits for outside is
\* bounded by the two deadlines, which GiveUp stands for.
FairSpec == Spec /\ \A r \in Requests : WF_vars(Handle(r))

-----------------------------------------------------------------------------
(* Every variable stays within its type, and the pending transactions have *)
(* consecutive account nonces: behind a gap none would ever be mined.      *)
TypeOK ==
    /\ serverKey \in BOOLEAN
    /\ registered \subseteq Users /\ credited \in [Auths -> Nat]
    /\ expired \subseteq Auths /\ used \subseteq Auths
    /\ height \in Nat
    /\ pool \subseteq Txs /\ succeeded \subseteq Txs /\ reverted \subseteq Txs
    /\ {t.nonce : t \in pool} = height .. height + Cardinality(pool) - 1
    /\ pc \in [Requests -> Places]
    /\ auth \in [Requests -> Auths \cup {NoAuth}]
    /\ tx \in [Requests -> Txs \cup {NoTx}]

(* A payment is credited at most once, and only after the contract moved   *)
(* the money, however often and however concurrently it is submitted, and  *)
(* whatever restarts lie between (topup.go:163-180): the gateway relies on *)
(* the receipt of its own transaction alone.                               *)
CreditedOnce ==
    serverKey => \A a \in Auths : credited[a] <= (IF a \in used THEN 1 ELSE 0)

(* Nothing is credited that its payer did not sign, with or without a      *)
(* chain to settle on (topup.go:156-161).                                  *)
CreditedIsSigned == \A a \in Auths : credited[a] > 0 => a \in Valid

(* A topup ends, though the chain may never mine its transaction and the   *)
(* client may wait for ever (usdc.go:393, topup.go:166).                   *)
TopupsEnd == \A r \in Requests : pc[r] # "idle" ~> pc[r] = "idle"

-----------------------------------------------------------------------------
(* What the comments say and the code does not keep.                       *)

Pending(a) == \E r \in Requests : auth[r] = a

(* The server "verifies the EIP-3009 signature, optionally settles         *)
(* on-chain, and credits the user's balance" (topup.go:12-13): money that  *)
(* was moved is credited, once nobody works on the payment any more.       *)
SettledIsCredited ==
    \A a \in Auths : a \in used /\ ~Pending(a) => credited[a] > 0
=============================================================================
