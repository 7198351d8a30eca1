------------------------------- MODULE Wallet -------------------------------
(***************************************************************************)
(* wallet.go: the multi-tenant prepaid ledger and its API keys.            *)
(*                                                                         *)
(* The process keeps the accounts and the keys in memory (`mem`) and       *)
(* writes one line to wallet.jsonl for every change; NewWallet rebuilds    *)
(* the memory by replaying the file.  Replay is a left fold over an        *)
(* append-only file, so the file is represented by what replaying it now   *)
(* would yield (`disk`): appending a line applies that line's replay step  *)
(* to `disk`, and a restart copies `disk` over `mem`.  Memory and replay   *)
(* follow different rules (RegisterUser against ReplayRegister, Debit      *)
(* against ReplayDebit), which is where the two can part.                  *)
(*                                                                         *)
(* Every method runs under Wallet.mu, so each is one step; a write to the  *)
(* file may fail (`Outcomes`), and the code reacts differently from call   *)
(* to call: it rolls back, or it ignores the error.  A crash in the middle *)
(* of a method leaves the file as if its remaining writes had failed, then *)
(* restarts.                                                               *)
(***************************************************************************)
EXTENDS Integers, FiniteSets

CONSTANTS Addrs,       \* normalised account addresses
          Keys,        \* hashes of the API keys that can be drawn
          NoOwner,     \* the owner of a hash no key was issued for
          Prefix,      \* Prefix[k]: first 8 characters of the key's plaintext
          Amounts,     \* amounts a call may credit or debit, in micro-USDC
          MaxBalance,  \* bound: |balance| never exceeds this in the model
          MaxLag,      \* bound: how stale issuedAt may be, it is read before
                       \* the lock is taken, in issued keys
          Outcomes     \* what a write to wallet.jsonl may do: TRUE it is on
                       \* disk, FALSE it failed and left nothing

ASSUME WalletAssumption ==
    /\ NoOwner \notin Addrs
    /\ Amounts \subseteq Nat \ {0}
    /\ MaxBalance \in Nat
    /\ MaxLag \in Nat
    /\ TRUE \in Outcomes /\ Outcomes \subseteq BOOLEAN

VARIABLES mem,    \* the maps users and keys of the running process
          disk,   \* the maps replaying wallet.jsonl would build
          clock   \* how many key_issue lines were written: the time axis

vars == <<mem, disk, clock>>

(***************************************************************************)
(* The two maps.  An address outside `users` has balance 0 and pays to     *)
(* itself, a key that was never issued belongs to NoOwner.                 *)
(***************************************************************************)
Books == [users   : SUBSET Addrs,
          payTo   : [Addrs -> Addrs],
          balance : [Addrs -> Int],
          owner   : [Keys -> Addrs \cup {NoOwner}],
          active  : SUBSET Keys,
          rank    : [Keys -> Int]]

EmptyBooks == [users   |-> {},
               payTo   |-> [a \in Addrs |-> a],
               balance |-> [a \in Addrs |-> 0],
               owner   |-> [k \in Keys |-> NoOwner],
               active  |-> {},
               rank    |-> [k \in Keys |-> 0]]

KeysOf(b, a) == {k \in Keys : b.owner[k] = a}

-----------------------------------------------------------------------------
(* What each line of wallet.jsonl does when it is replayed.                *)

\* (mutant) A second user_register opens the account anew.
ReplayRegisterAnew(d, a, p) ==
    [d EXCEPT !.users = @ \cup {a}, !.payTo[a] = p, !.balance[a] = 0]

\* A second user_register of the same address is skipped.
ReplayRegister(d, a, p) ==
    IF a \in d.users THEN d
    ELSE [d EXCEPT !.users = @ \cup {a}, !.payTo[a] = p]

\* (mutant) Replay credits only addresses it has met.
ReplayCreditKnown(d, a, n) ==
    IF a \in d.users THEN [d EXCEPT !.balance[a] = @ + n] ELSE d

ReplayCredit(d, a, n) ==
    [d EXCEPT !.users = @ \cup {a}, !.balance[a] = @ + n]

ReplayDebit(d, a, n) ==
    [d EXCEPT !.users = @ \cup {a}, !.balance[a] = @ - n]

\* (mutant) Replay takes a key without opening its owner's account.
ReplayIssueNoUser(d, a, k, t) ==
    [d EXCEPT !.owner[k] = a, !.active = @ \cup {k}, !.rank[k] = t]

ReplayIssue(d, a, k, t) ==
    [d EXCEPT !.users = @ \cup {a}, !.owner[k] = a,
              !.active = @ \cup {k}, !.rank[k] = t]

\* One key_revoke line for each key of K, in whatever order.
ReplayRevokes(d, K) == [d EXCEPT !.active = @ \ K]

-----------------------------------------------------------------------------
(* What the methods do to the maps in memory.                              *)

\* Credit, GenerateKey and RotateKey register an unknown address, paying
\* to itself, and ignore whether the line reached the file.
AutoRegistered(m, a) == [m EXCEPT !.users = @ \cup {a}]

AutoRegisterLogged(d, a, logged) ==
    IF a \notin mem.users /\ logged THEN ReplayRegister(d, a, a) ELSE d

WithKey(m, a, k, t) ==
    [m EXCEPT !.owner[k] = a, !.active = @ \cup {k}, !.rank[k] = t]

\* RevokeByPrefix compares issuedAt with Before: the oldest active key of
\* the owner with that prefix, any of them when several are equally old.
OldestMatches(m, a, p) ==
    LET match == {k \in m.active : m.owner[k] = a /\ Prefix[k] = p}
    IN  {k \in match : \A j \in match : m.rank[k] <= m.rank[j]}

\* The revocations among K whose lines reach the file.
LoggedOf(K) == IF FALSE \in Outcomes THEN SUBSET K ELSE {K}

-----------------------------------------------------------------------------
Init == /\ mem = EmptyBooks
        /\ disk = EmptyBooks
        /\ clock = 0

\* A new user whose line cannot be written is forgotten again.
RegisterNew(a, p) ==
    /\ a \notin mem.users
    /\ mem' = [mem EXCEPT !.users = @ \cup {a}, !.payTo[a] = p]
    /\ disk' = ReplayRegister(disk, a, p)
    /\ UNCHANGED clock

\* A known user's payTo changes whether or not the line is written.
UpdatePayTo(a, p) ==
    /\ a \in mem.users
    /\ mem.payTo[a] # p
    /\ mem' = [mem EXCEPT !.payTo[a] = p]
    /\ \E logged \in Outcomes :
          disk' = IF logged THEN ReplayRegister(disk, a, p) ELSE disk
    /\ UNCHANGED clock

RegisterUser(a, p) == RegisterNew(a, p) \/ UpdatePayTo(a, p)

\* The credit is rolled back when its line fails, the registration is not.
Credit(a, n) ==
    /\ mem.balance[a] + n <= MaxBalance
    /\ \E regLogged, logged \in Outcomes :
          LET m == AutoRegistered(mem, a)
              d == AutoRegisterLogged(disk, a, regLogged)
          IN  /\ mem' = IF logged THEN [m EXCEPT !.balance[a] = @ + n] ELSE m
              /\ disk' = IF logged THEN ReplayCredit(d, a, n) ELSE d
    /\ UNCHANGED clock

\* An overdraft is allowed.  A failed line undoes the debit: no step.
DebitKnown(a, n) ==
    /\ a \in mem.users
    /\ mem.balance[a] - n >= -MaxBalance
    /\ mem' = [mem EXCEPT !.balance[a] = @ - n]
    /\ disk' = ReplayDebit(disk, a, n)
    /\ UNCHANGED clock

\* Nobody to charge: the line is written with the amount all the same.
DebitOrphan(a, n) ==
    /\ a \notin mem.users
    /\ disk.balance[a] - n >= -MaxBalance
    /\ disk' = ReplayDebit(disk, a, n)
    /\ UNCHANGED <<mem, clock>>

Debit(a, n) == DebitKnown(a, n) \/ DebitOrphan(a, n)

\* GenerateKey and RotateKey end alike: the new key is dropped again when its
\* line fails, what was done before (m, d) is not.  issuedAt was read earlier.
IssueKey(m, d, a, k) ==
    \/ \E lag \in 0..MaxLag :
          /\ mem' = WithKey(m, a, k, clock + 1 - lag)
          /\ disk' = ReplayIssue(d, a, k, clock + 1)
          /\ clock' = clock + 1
    \/ /\ FALSE \in Outcomes
       /\ mem' = m
       /\ disk' = d
       /\ UNCHANGED clock

GenerateKey(a, k) ==
    /\ mem.owner[k] = NoOwner
    /\ \E regLogged \in Outcomes :
          IssueKey(AutoRegistered(mem, a),
                   AutoRegisterLogged(disk, a, regLogged), a, k)

\* The old keys are revoked before the new one is written; each of their
\* lines may fail unnoticed.
RotateKey(a, k) ==
    /\ mem.owner[k] = NoOwner
    /\ \E regLogged \in Outcomes,
          gone \in LoggedOf(KeysOf(mem, a) \cap mem.active) :
          IssueKey([AutoRegistered(mem, a) EXCEPT !.active = @ \ KeysOf(mem, a)],
                   ReplayRevokes(AutoRegisterLogged(disk, a, regLogged), gone),
                   a, k)

\* (mutant) A failed line is ignored, as RotateKey ignores it.
RevokeByPrefixUnchecked(a, p) ==
    \E k \in OldestMatches(mem, a, p), logged \in Outcomes :
       /\ mem' = [mem EXCEPT !.active = @ \ {k}]
       /\ disk' = IF logged THEN ReplayRevokes(disk, {k}) ELSE disk
       /\ UNCHANGED clock

\* A failed line re-activates the key before anyone can look: no step.
RevokeByPrefix(a, p) ==
    \E k \in OldestMatches(mem, a, p) :
       /\ mem' = [mem EXCEPT !.active = @ \ {k}]
       /\ disk' = ReplayRevokes(disk, {k})
       /\ UNCHANGED clock

\* The process stops, or is killed, and NewWallet replays the file.
Restart == /\ mem' = disk
           /\ UNCHANGED <<disk, clock>>

-----------------------------------------------------------------------------
(* The gateway's callers: a topup registers and credits, a signed caller   *)
(* manages their own keys, and a request is charged to the owner of the    *)
(* key it came with, revoked meanwhile or not (charge.go).                 *)

Next ==
    \/ \E a, p \in Addrs : RegisterUser(a, p)
    \/ \E a \in Addrs, n \in Amounts : Credit(a, n)
    \/ \E k \in Keys, n \in Amounts :
          mem.owner[k] # NoOwner /\ Debit(mem.owner[k], n)
    \/ \E a \in Addrs, k \in Keys : GenerateKey(a, k) \/ RotateKey(a, k)
    \/ \E a \in Addrs, k \in Keys : RevokeByPrefix(a, Prefix[k])
    \/ Restart

Spec == Init /\ [][Next]_vars

-----------------------------------------------------------------------------
(* Properties.                                                             *)

\* Both maps are well formed: an address nobody registered owes nothing and
\* pays to itself, an active key was issued.
WellFormed(b) ==
    /\ b \in Books
    /\ \A a \in Addrs \ b.users : b.balance[a] = 0 /\ b.payTo[a] = a
    /\ \A k \in b.active : b.owner[k] # NoOwner

TypeOK == WellFormed(mem) /\ WellFormed(disk) /\ clock \in Nat

\* A restart never changes what anybody has left to spend, whichever writes
\* failed before it: every rollback in Credit and Debit matches the file.
BalancesDurable == mem.balance = disk.balance

\* No key is lost or changes hands over a restart, and none that the process
\* accepts is revoked in the file.
KeysDurable == mem.owner = disk.owner /\ mem.active \subseteq disk.active

\* Whoever owns a key has an account, in memory and after a replay, so that
\* a charge to a key's owner (charge.go) always finds somebody to debit.
KeyOwnersRegistered ==
    \A k \in Keys : mem.owner[k] # NoOwner =>
        mem.owner[k] \in mem.users /\ mem.owner[k] \in disk.users

\* Money moves one account at a time, by one credit or debit, and through
\* nothing else: the wallet implements Ledger.
Balances == INSTANCE Ledger WITH balance <- mem.balance
ImplementsLedger == Balances!Spec

\* A key belongs to one owner for good, a rotation retires all keys of its
\* owner and nobody else's, and a key once refused is refused for ever, also
\* after a restart - unless a rotation could not write that it retired it:
\* the wallet implements KeyRing, whichever writes fail.
Ring == INSTANCE KeyRing WITH owner <- mem.owner, active <- mem.active,
                              unsure <- disk.active \ mem.active,
                              Failing <- FALSE \in Outcomes
ImplementsKeyRing == Ring!Spec
=============================================================================
