---------------------------- MODULE WalletProofs ----------------------------
(***************************************************************************)
(* What holds of Wallet for all addresses, keys, amounts, bounds and       *)
(* whatever writes fail.  Every lemma below says what one replay step or   *)
(* one memory update does to a well-formed pair of maps; the invariance    *)
(* proofs only combine them, one action at a time.                         *)
(***************************************************************************)
EXTENDS Wallet, TLAPS

-----------------------------------------------------------------------------
(* The updates of the maps.                                                *)

\* Replaying a registration moves no money and touches no key.
LEMMA ReplayRegisterLemma ==
    ASSUME NEW d, WellFormed(d), NEW a \in Addrs, NEW p \in Addrs
    PROVE  LET r == ReplayRegister(d, a, p)
           IN  /\ WellFormed(r)
               /\ r.users = d.users \cup {a}
               /\ r.balance = d.balance
               /\ r.owner = d.owner
               /\ r.active = d.active
  BY DEF ReplayRegister, WellFormed, Books

\* Replaying a credit adds the amount to one balance and touches no key.
LEMMA ReplayCreditLemma ==
    ASSUME NEW d, WellFormed(d), NEW a \in Addrs, NEW n \in Int
    PROVE  LET r == ReplayCredit(d, a, n)
           IN  /\ WellFormed(r)
               /\ r.users = d.users \cup {a}
               /\ r.balance = [d.balance EXCEPT ![a] = @ + n]
               /\ r.owner = d.owner
               /\ r.active = d.active
<1> DEFINE r == ReplayCredit(d, a, n)
           new == [d.balance EXCEPT ![a] = @ + n]
<1>1. d \in Books /\ new \in [Addrs -> Int]
  BY DEF WellFormed, Books
<1>2. r = [d EXCEPT !.users = @ \cup {a}, !.balance = new]
  BY DEF ReplayCredit, WellFormed, Books
<1>3. \A b \in Addrs \ {a} : new[b] = d.balance[b]
  BY DEF WellFormed, Books
<1> HIDE DEF new, r
<1>4. r \in Books
  BY <1>1, <1>2 DEF Books
<1>5. /\ r.users = d.users \cup {a} /\ r.payTo = d.payTo /\ r.balance = new
      /\ r.owner = d.owner /\ r.active = d.active
  BY <1>1, <1>2 DEF Books
<1>6. WellFormed(r)
  BY <1>3, <1>4, <1>5 DEF WellFormed
<1>7. QED
  BY <1>5, <1>6 DEF new, r

\* Replaying a debit takes the amount from one balance and touches no key.
LEMMA ReplayDebitLemma ==
    ASSUME NEW d, WellFormed(d), NEW a \in Addrs, NEW n \in Int
    PROVE  LET r == ReplayDebit(d, a, n)
           IN  /\ WellFormed(r)
               /\ r.users = d.users \cup {a}
               /\ r.balance = [d.balance EXCEPT ![a] = @ - n]
               /\ r.owner = d.owner
               /\ r.active = d.active
<1> DEFINE r == ReplayDebit(d, a, n)
           new == [d.balance EXCEPT ![a] = @ - n]
<1>1. d \in Books /\ new \in [Addrs -> Int]
  BY DEF WellFormed, Books
<1>2. r = [d EXCEPT !.users = @ \cup {a}, !.balance = new]
  BY DEF ReplayDebit, WellFormed, Books
<1>3. \A b \in Addrs \ {a} : new[b] = d.balance[b]
  BY DEF WellFormed, Books
<1> HIDE DEF new, r
<1>4. r \in Books
  BY <1>1, <1>2 DEF Books
<1>5. /\ r.users = d.users \cup {a} /\ r.payTo = d.payTo /\ r.balance = new
      /\ r.owner = d.owner /\ r.active = d.active
  BY <1>1, <1>2 DEF Books
<1>6. WellFormed(r)
  BY <1>3, <1>4, <1>5 DEF WellFormed
<1>7. QED
  BY <1>5, <1>6 DEF new, r

\* Replaying the issue of a key opens the owner's account and moves no money.
LEMMA ReplayIssueLemma ==
    ASSUME NEW d, WellFormed(d), NEW a \in Addrs, NEW k \in Keys, NEW t \in Int
    PROVE  LET r == ReplayIssue(d, a, k, t)
           IN  /\ WellFormed(r)
               /\ r.users = d.users \cup {a}
               /\ r.balance = d.balance
               /\ r.owner = [d.owner EXCEPT ![k] = a]
               /\ r.active = d.active \cup {k}
<1> DEFINE r == ReplayIssue(d, a, k, t)
           own == [d.owner EXCEPT ![k] = a]
           rnk == [d.rank EXCEPT ![k] = t]
<1>1. /\ d \in Books
      /\ own \in [Keys -> Addrs \cup {NoOwner}]
      /\ rnk \in [Keys -> Int]
  BY DEF WellFormed, Books
<1>2. r = [d EXCEPT !.users = @ \cup {a}, !.owner = own,
                    !.active = @ \cup {k}, !.rank = rnk]
  BY DEF ReplayIssue, WellFormed, Books
<1>3. own[k] # NoOwner /\ \A j \in Keys \ {k} : own[j] = d.owner[j]
  BY WalletAssumption DEF WellFormed, Books
<1> HIDE DEF own, rnk, r
<1>4. r \in Books
  BY <1>1, <1>2 DEF Books
<1>5. /\ r.users = d.users \cup {a} /\ r.payTo = d.payTo /\ r.balance = d.balance
      /\ r.owner = own /\ r.active = d.active \cup {k}
  BY <1>1, <1>2 DEF Books
<1>6. d.active \subseteq Keys
  BY <1>1 DEF Books
<1>7. WellFormed(r)
  BY <1>3, <1>4, <1>5, <1>6 DEF WellFormed
<1>8. QED
  BY <1>5, <1>7 DEF own, r

\* Replaying revocations only shrinks the set of active keys.
LEMMA ReplayRevokesLemma ==
    ASSUME NEW d, WellFormed(d), NEW K
    PROVE  LET r == ReplayRevokes(d, K)
           IN  /\ WellFormed(r)
               /\ r.users = d.users
               /\ r.balance = d.balance
               /\ r.owner = d.owner
               /\ r.active = d.active \ K
  BY DEF ReplayRevokes, WellFormed, Books

\* Registering in passing changes who is known, and nothing else.
LEMMA AutoRegisteredLemma ==
    ASSUME NEW m, WellFormed(m), NEW a \in Addrs
    PROVE  LET r == AutoRegistered(m, a)
           IN  /\ WellFormed(r)
               /\ r.users = m.users \cup {a}
               /\ r.balance = m.balance
               /\ r.owner = m.owner
               /\ r.active = m.active
  BY DEF AutoRegistered, WellFormed, Books

\* The same for the line that may or may not have been written.
LEMMA AutoRegisterLoggedLemma ==
    ASSUME NEW d, WellFormed(d), NEW a \in Addrs, NEW logged \in BOOLEAN
    PROVE  LET r == AutoRegisterLogged(d, a, logged)
           IN  /\ WellFormed(r)
               /\ d.users \subseteq r.users
               /\ r.balance = d.balance
               /\ r.owner = d.owner
               /\ r.active = d.active
  BY ReplayRegisterLemma DEF AutoRegisterLogged

\* A new key in memory belongs to a known address.
LEMMA WithKeyLemma ==
    ASSUME NEW m, WellFormed(m), NEW a \in m.users, NEW k \in Keys, NEW t \in Int
    PROVE  LET r == WithKey(m, a, k, t)
           IN  /\ WellFormed(r)
               /\ r.users = m.users
               /\ r.balance = m.balance
               /\ r.owner = [m.owner EXCEPT ![k] = a]
               /\ r.active = m.active \cup {k}
<1> DEFINE r == WithKey(m, a, k, t)
           own == [m.owner EXCEPT ![k] = a]
           rnk == [m.rank EXCEPT ![k] = t]
<1>1. /\ m \in Books
      /\ own \in [Keys -> Addrs \cup {NoOwner}]
      /\ rnk \in [Keys -> Int]
  BY DEF WellFormed, Books
<1>2. r = [m EXCEPT !.owner = own,
                    !.active = @ \cup {k}, !.rank = rnk]
  BY DEF WithKey, WellFormed, Books
<1>3. own[k] # NoOwner /\ \A j \in Keys \ {k} : own[j] = m.owner[j]
  BY WalletAssumption DEF WellFormed, Books
<1> HIDE DEF own, rnk, r
<1>4. r \in Books
  BY <1>1, <1>2 DEF Books
<1>5. /\ r.users = m.users /\ r.payTo = m.payTo /\ r.balance = m.balance
      /\ r.owner = own /\ r.active = m.active \cup {k}
  BY <1>1, <1>2 DEF Books
<1>6. m.active \subseteq Keys
  BY <1>1 DEF Books
<1>7. WellFormed(r)
  BY <1>3, <1>4, <1>5, <1>6 DEF WellFormed
<1>8. QED
  BY <1>5, <1>7 DEF own, r

-----------------------------------------------------------------------------
(* The inductive invariant: memory and file agree on money and on who owns *)
(* which key, the file accepts every key the memory accepts, and owners    *)
(* have accounts.  The durability of balances alone is not inductive: a    *)
(* debit preserves it only because its account exists.                     *)

Agree(m, d) ==
    /\ WellFormed(m) /\ WellFormed(d)
    /\ m.balance = d.balance
    /\ m.owner = d.owner
    /\ m.active \subseteq d.active
    /\ \A k \in Keys : m.owner[k] # NoOwner =>
          m.owner[k] \in m.users /\ m.owner[k] \in d.users

IInv == Agree(mem, disk) /\ clock \in Nat

\* The inductive invariant says what the checked invariants say, together.
LEMMA IInvMeaning ==
    IInv <=> TypeOK /\ BalancesDurable /\ KeysDurable /\ KeyOwnersRegistered
  BY DEF IInv, Agree, TypeOK, BalancesDurable, KeysDurable, KeyOwnersRegistered

\* The maps agree after an ignored registration, written or not.
LEMMA AutoRegisterAgrees ==
    ASSUME IInv, NEW a \in Addrs, NEW logged \in Outcomes
    PROVE  /\ Agree(AutoRegistered(mem, a), AutoRegisterLogged(disk, a, logged))
           /\ a \in AutoRegistered(mem, a).users
<1>1. logged \in BOOLEAN
  BY WalletAssumption
<1>2. WellFormed(mem) /\ WellFormed(disk)
  BY DEF IInv, Agree
<1>3. QED
  BY <1>1, <1>2, AutoRegisteredLemma, AutoRegisterLoggedLemma DEF IInv, Agree

\* Recording a key, or failing to, keeps agreeing maps in agreement.
LEMMA IssueKeyAgrees ==
    ASSUME NEW m, NEW d, Agree(m, d), NEW a \in m.users, a \in Addrs,
           NEW k \in Keys, clock \in Nat, IssueKey(m, d, a, k)
    PROVE  IInv'
<1>1. CASE IssueKey(m, d, a, k)!1
  <2>1. PICK lag \in 0..MaxLag :
           /\ mem' = WithKey(m, a, k, clock + 1 - lag)
           /\ disk' = ReplayIssue(d, a, k, clock + 1)
           /\ clock' = clock + 1
    BY <1>1
  <2>2. lag \in Int /\ clock + 1 - lag \in Int /\ clock + 1 \in Int
    BY <2>1, WalletAssumption
  <2>3. WellFormed(m) /\ WellFormed(d)
    BY DEF Agree
  <2>4. /\ WellFormed(mem')
        /\ mem'.users = m.users
        /\ mem'.balance = m.balance
        /\ mem'.owner = [m.owner EXCEPT ![k] = a]
        /\ mem'.active = m.active \cup {k}
    <3>1. \A t \in Int : LET r == WithKey(m, a, k, t)
                         IN  /\ WellFormed(r)
                             /\ r.users = m.users
                             /\ r.balance = m.balance
                             /\ r.owner = [m.owner EXCEPT ![k] = a]
                             /\ r.active = m.active \cup {k}
      BY <2>3, WithKeyLemma
    <3>2. QED
      BY <2>1, <2>2, <3>1
  <2>5. /\ WellFormed(disk')
        /\ disk'.users = d.users \cup {a}
        /\ disk'.balance = d.balance
        /\ disk'.owner = [d.owner EXCEPT ![k] = a]
        /\ disk'.active = d.active \cup {k}
    BY <2>1, <2>2, <2>3, ReplayIssueLemma
  <2>6. \A j \in Keys : mem'.owner[j] # NoOwner =>
           mem'.owner[j] \in mem'.users /\ mem'.owner[j] \in disk'.users
    BY <2>4, <2>5 DEF Agree, WellFormed, Books
  <2>7. Agree(mem', disk')
    BY <2>4, <2>5, <2>6 DEF Agree
  <2>8. QED
    BY <2>1, <2>7 DEF IInv
<1>2. CASE IssueKey(m, d, a, k)!2
  BY <1>2 DEF IInv
<1>3. QED
  BY <1>1, <1>2 DEF IssueKey

-----------------------------------------------------------------------------
(* One lemma per action: the invariant is preserved.                       *)

LEMMA RegisterUserInv ==
    ASSUME IInv, NEW a \in Addrs, NEW p \in Addrs, RegisterUser(a, p)
    PROVE  IInv'
<1>1. WellFormed(mem) /\ WellFormed(disk)
  BY DEF IInv, Agree
<1>2. ASSUME NEW m, m = [mem EXCEPT !.payTo[a] = p],  a \in mem.users
      PROVE  /\ WellFormed(m)
             /\ m.users = mem.users /\ m.balance = mem.balance
             /\ m.owner = mem.owner /\ m.active = mem.active
  BY <1>1, <1>2 DEF WellFormed, Books
<1>3. CASE RegisterNew(a, p)
  <2>1. mem' = ReplayRegister(mem, a, p)
    BY <1>3 DEF RegisterNew, ReplayRegister
  <2>2. QED
    BY <1>1, <1>3, <2>1, ReplayRegisterLemma DEF RegisterNew, IInv, Agree
<1>4. CASE UpdatePayTo(a, p)
  <2>1. /\ WellFormed(mem')
        /\ mem'.users = mem.users /\ mem'.balance = mem.balance
        /\ mem'.owner = mem.owner /\ mem'.active = mem.active
    BY <1>2, <1>4 DEF UpdatePayTo
  <2>2. disk' = ReplayRegister(disk, a, p) \/ disk' = disk
    BY <1>4 DEF UpdatePayTo
  <2>3. /\ WellFormed(disk') /\ disk.users \subseteq disk'.users
        /\ disk'.balance = disk.balance
        /\ disk'.owner = disk.owner /\ disk'.active = disk.active
    BY <1>1, <2>2, ReplayRegisterLemma
  <2>4. clock' = clock
    BY <1>4 DEF UpdatePayTo
  <2>5. QED
    BY <2>1, <2>3, <2>4 DEF IInv, Agree
<1>5. QED
  BY <1>3, <1>4 DEF RegisterUser

LEMMA CreditInv ==
    ASSUME IInv, NEW a \in Addrs, NEW n \in Amounts, Credit(a, n)
    PROVE  IInv'
<1>1. PICK regLogged \in Outcomes, logged \in Outcomes :
         LET m == AutoRegistered(mem, a)
             d == AutoRegisterLogged(disk, a, regLogged)
         IN  /\ mem' = IF logged THEN [m EXCEPT !.balance[a] = @ + n] ELSE m
             /\ disk' = IF logged THEN ReplayCredit(d, a, n) ELSE d
  BY DEF Credit
<1> DEFINE m == AutoRegistered(mem, a)
           d == AutoRegisterLogged(disk, a, regLogged)
<1>2. Agree(m, d) /\ a \in m.users /\ n \in Int
  BY AutoRegisterAgrees, WalletAssumption
<1>3. clock' = clock
  BY DEF Credit
<1> HIDE DEF m, d
<1>4. CASE logged
  <2>1. mem' = [m EXCEPT !.balance[a] = @ + n] /\ disk' = ReplayCredit(d, a, n)
    BY <1>1, <1>4 DEF m, d
  <2>2. mem' = ReplayCredit(m, a, n)
    <3>1. [m EXCEPT !.users = @ \cup {a}, !.balance[a] = @ + n]
            = [m EXCEPT !.balance[a] = @ + n]
      BY <1>2 DEF Agree, WellFormed, Books
    <3>2. QED
      BY <2>1, <3>1 DEF ReplayCredit
  <2>3. WellFormed(m) /\ WellFormed(d)
    BY <1>2 DEF Agree
  <2>4. /\ WellFormed(mem')
        /\ mem'.users = m.users \cup {a}
        /\ mem'.balance = [m.balance EXCEPT ![a] = @ + n]
        /\ mem'.owner = m.owner
        /\ mem'.active = m.active
    BY <1>2, <2>2, <2>3, ReplayCreditLemma
  <2>5. /\ WellFormed(disk')
        /\ disk'.users = d.users \cup {a}
        /\ disk'.balance = [d.balance EXCEPT ![a] = @ + n]
        /\ disk'.owner = d.owner
        /\ disk'.active = d.active
    BY <1>2, <2>1, <2>3, ReplayCreditLemma
  <2>6. Agree(mem', disk')
    BY <1>2, <2>4, <2>5 DEF Agree
  <2>7. QED
    BY <1>3, <2>6 DEF IInv
<1>5. CASE ~logged
  BY <1>1, <1>2, <1>3, <1>5 DEF IInv, m, d
<1>6. QED
  BY <1>4, <1>5

\* Here the account is known, because the key named it.
LEMMA DebitInv ==
    ASSUME IInv, NEW a \in mem.users, NEW n \in Amounts, Debit(a, n)
    PROVE  IInv'
<1>1. /\ WellFormed(mem) /\ WellFormed(disk)
      /\ a \in Addrs /\ n \in Int
  BY WalletAssumption DEF IInv, Agree, WellFormed, Books
<1>2. DebitKnown(a, n)
  BY DEF Debit, DebitOrphan
<1>3. mem' = [mem EXCEPT !.balance[a] = @ - n] /\ disk' = ReplayDebit(disk, a, n)
      /\ clock' = clock
  BY <1>2 DEF DebitKnown
<1>4. mem' = ReplayDebit(mem, a, n)
  <2>1. [mem EXCEPT !.users = @ \cup {a}, !.balance[a] = @ - n]
          = [mem EXCEPT !.balance[a] = @ - n]
    BY <1>1 DEF WellFormed, Books
  <2>2. QED
    BY <1>3, <2>1 DEF ReplayDebit
<1>5. /\ WellFormed(mem')
      /\ mem'.users = mem.users \cup {a}
      /\ mem'.balance = [mem.balance EXCEPT ![a] = @ - n]
      /\ mem'.owner = mem.owner
      /\ mem'.active = mem.active
  BY <1>1, <1>4, ReplayDebitLemma
<1>6. /\ WellFormed(disk')
      /\ disk'.users = disk.users \cup {a}
      /\ disk'.balance = [disk.balance EXCEPT ![a] = @ - n]
      /\ disk'.owner = disk.owner
      /\ disk'.active = disk.active
  BY <1>1, <1>3, ReplayDebitLemma
<1>7. QED
  BY <1>3, <1>5, <1>6 DEF IInv, Agree

LEMMA GenerateKeyInv ==
    ASSUME IInv, NEW a \in Addrs, NEW k \in Keys, GenerateKey(a, k)
    PROVE  IInv'
<1>1. PICK regLogged \in Outcomes :
         IssueKey(AutoRegistered(mem, a),
                  AutoRegisterLogged(disk, a, regLogged), a, k)
  BY DEF GenerateKey
<1>2. QED
  BY <1>1, AutoRegisterAgrees, IssueKeyAgrees DEF IInv

LEMMA RotateKeyInv ==
    ASSUME IInv, NEW a \in Addrs, NEW k \in Keys, RotateKey(a, k)
    PROVE  IInv'
<1> DEFINE m0 == AutoRegistered(mem, a)
           m == [m0 EXCEPT !.active = @ \ KeysOf(mem, a)]
<1>1. PICK regLogged \in Outcomes,
           gone \in LoggedOf(KeysOf(mem, a) \cap mem.active) :
         IssueKey(m, ReplayRevokes(AutoRegisterLogged(disk, a, regLogged), gone),
                  a, k)
  BY DEF RotateKey
<1> DEFINE d0 == AutoRegisterLogged(disk, a, regLogged)
           d == ReplayRevokes(d0, gone)
<1>2. gone \subseteq KeysOf(mem, a)
  BY DEF LoggedOf
<1>3. Agree(m0, d0) /\ a \in m0.users
  BY AutoRegisterAgrees
<1>4. m = ReplayRevokes(m0, KeysOf(mem, a))
  BY DEF ReplayRevokes
<1> HIDE DEF m0, m, d0
<1>5. WellFormed(m0) /\ WellFormed(d0)
  BY <1>3 DEF Agree
<1>6. /\ WellFormed(m)
      /\ m.users = m0.users
      /\ m.balance = m0.balance
      /\ m.owner = m0.owner
      /\ m.active = m0.active \ KeysOf(mem, a)
  BY <1>4, <1>5, ReplayRevokesLemma
<1>7. /\ WellFormed(d)
      /\ d.users = d0.users
      /\ d.balance = d0.balance
      /\ d.owner = d0.owner
      /\ d.active = d0.active \ gone
  BY <1>5, ReplayRevokesLemma
<1>8. Agree(m, d) /\ a \in m.users
  BY <1>2, <1>3, <1>6, <1>7 DEF Agree
<1>9. IssueKey(m, d, a, k)
  BY <1>1 DEF d0
<1> HIDE DEF d
<1>10. QED
  BY <1>8, <1>9, IssueKeyAgrees DEF IInv

LEMMA RevokeByPrefixInv ==
    ASSUME IInv, NEW a \in Addrs, NEW p, RevokeByPrefix(a, p)
    PROVE  IInv'
<1>1. PICK k \in OldestMatches(mem, a, p) :
         /\ mem' = [mem EXCEPT !.active = @ \ {k}]
         /\ disk' = ReplayRevokes(disk, {k})
         /\ clock' = clock
  BY DEF RevokeByPrefix
<1>2. mem' = ReplayRevokes(mem, {k})
  BY <1>1 DEF ReplayRevokes
<1>3. WellFormed(mem) /\ WellFormed(disk)
  BY DEF IInv, Agree
<1>4. /\ WellFormed(mem')
      /\ mem'.users = mem.users
      /\ mem'.balance = mem.balance
      /\ mem'.owner = mem.owner
      /\ mem'.active = mem.active \ {k}
  BY <1>2, <1>3, ReplayRevokesLemma
<1>5. /\ WellFormed(disk')
      /\ disk'.users = disk.users
      /\ disk'.balance = disk.balance
      /\ disk'.owner = disk.owner
      /\ disk'.active = disk.active \ {k}
  BY <1>1, <1>3, ReplayRevokesLemma
<1>6. QED
  BY <1>1, <1>4, <1>5 DEF IInv, Agree

LEMMA RestartInv == ASSUME IInv, Restart PROVE IInv'
  BY DEF Restart, IInv, Agree

-----------------------------------------------------------------------------
(* The invariants.                                                         *)

\* Memory and file agree, whatever writes failed and whenever it restarted.
THEOREM WalletInvariant == Spec => []IInv
<1>1. Init => IInv
  BY DEF Init, IInv, Agree, WellFormed, Books, EmptyBooks
<1>2. IInv /\ [Next]_vars => IInv'
  <2> SUFFICES ASSUME IInv, [Next]_vars PROVE IInv'
    OBVIOUS
  <2>1. ASSUME NEW a \in Addrs, NEW p \in Addrs, RegisterUser(a, p) PROVE IInv'
    BY <2>1, RegisterUserInv
  <2>2. ASSUME NEW a \in Addrs, NEW n \in Amounts, Credit(a, n) PROVE IInv'
    BY <2>2, CreditInv
  <2>3. ASSUME NEW k \in Keys, NEW n \in Amounts,
               mem.owner[k] # NoOwner, Debit(mem.owner[k], n)
        PROVE  IInv'
    <3>1. mem.owner[k] \in mem.users
      BY <2>3 DEF IInv, Agree
    <3>2. QED
      BY <2>3, <3>1, DebitInv
  <2>4. ASSUME NEW a \in Addrs, NEW k \in Keys, GenerateKey(a, k) PROVE IInv'
    BY <2>4, GenerateKeyInv
  <2>5. ASSUME NEW a \in Addrs, NEW k \in Keys, RotateKey(a, k) PROVE IInv'
    BY <2>5, RotateKeyInv
  <2>6. ASSUME NEW a \in Addrs, NEW k \in Keys, RevokeByPrefix(a, Prefix[k])
        PROVE  IInv'
    BY <2>6, RevokeByPrefixInv
  <2>7. CASE Restart
    BY <2>7, RestartInv
  <2>8. CASE UNCHANGED vars
    BY <2>8 DEF vars, IInv
  <2>9. QED
    BY <2>1, <2>2, <2>3, <2>4, <2>5, <2>6, <2>7, <2>8 DEF Next
<1>3. QED
  BY <1>1, <1>2, PTL DEF Spec

\* The types, and what WellFormed adds to them.
THEOREM WalletTypeOK == Spec => []TypeOK
  BY WalletInvariant, IInvMeaning, PTL

\* No restart changes a balance, whichever writes to wallet.jsonl failed.
THEOREM WalletBalancesDurable == Spec => []BalancesDurable
  BY WalletInvariant, IInvMeaning, PTL

\* No restart loses a key, hands it to somebody else or revokes it.
THEOREM WalletKeysDurable == Spec => []KeysDurable
  BY WalletInvariant, IInvMeaning, PTL

\* A charge to the owner of a key always finds an account: the orphan branch
\* of Debit is dead code for the gateway.
THEOREM WalletKeyOwnersRegistered == Spec => []KeyOwnersRegistered
  BY WalletInvariant, IInvMeaning, PTL

-----------------------------------------------------------------------------
(* The wallet implements Ledger: every action moves at most one balance,   *)
(* by a credit or a debit, and a restart moves none.                       *)

LEMMA IssueKeyKeepsBalances ==
    ASSUME NEW m, WellFormed(m), m.balance = mem.balance, NEW d,
           NEW a \in Addrs, NEW k \in Keys, IssueKey(m, d, a, k)
    PROVE  mem'.balance = mem.balance
<1>1. ASSUME NEW t PROVE WithKey(m, a, k, t).balance = m.balance
  BY DEF WithKey, WellFormed, Books
<1>2. QED
  BY <1>1 DEF IssueKey

LEMMA LedgerStep ==
    ASSUME IInv, [Next]_vars
    PROVE  [Balances!Next]_(mem.balance)
<1> USE DEF Balances!Next, Balances!Credit, Balances!Debit
<1>0. WellFormed(mem)
  BY DEF IInv, Agree
<1>1. ASSUME NEW a \in Addrs, NEW p \in Addrs, RegisterUser(a, p)
      PROVE  mem'.balance = mem.balance
  BY <1>0, <1>1 DEF RegisterUser, RegisterNew, UpdatePayTo, WellFormed, Books
<1>2. ASSUME NEW a \in Addrs, NEW n \in Amounts, Credit(a, n)
      PROVE  [Balances!Next]_(mem.balance)
  <2> DEFINE m == AutoRegistered(mem, a)
  <2>1. mem' = m \/ mem' = [m EXCEPT !.balance[a] = @ + n]
    BY <1>2 DEF Credit
  <2>2. WellFormed(m) /\ m.balance = mem.balance
    BY <1>0, AutoRegisteredLemma
  <2> HIDE DEF m
  <2>3. [m EXCEPT !.balance[a] = @ + n].balance
           = [mem.balance EXCEPT ![a] = @ + n]
    BY <2>2 DEF WellFormed, Books
  <2>4. QED
    BY <2>1, <2>2, <2>3
<1>3. ASSUME NEW k \in Keys, NEW n \in Amounts,
             mem.owner[k] # NoOwner, Debit(mem.owner[k], n)
      PROVE  [Balances!Next]_(mem.balance)
  <2> DEFINE a == mem.owner[k]
  <2>1. a \in Addrs
    BY <1>0, <1>3 DEF WellFormed, Books
  <2>2. [mem EXCEPT !.balance[a] = @ - n].balance
           = [mem.balance EXCEPT ![a] = @ - n]
    BY <1>0, <2>1 DEF WellFormed, Books
  <2>3. mem' = mem \/ mem' = [mem EXCEPT !.balance[a] = @ - n]
    BY <1>3 DEF Debit, DebitKnown, DebitOrphan
  <2>4. QED
    BY <2>1, <2>2, <2>3
<1>4. ASSUME NEW a \in Addrs, NEW k \in Keys, GenerateKey(a, k)
      PROVE  mem'.balance = mem.balance
  <2>1. WellFormed(AutoRegistered(mem, a))
        /\ AutoRegistered(mem, a).balance = mem.balance
    BY <1>0, AutoRegisteredLemma
  <2>2. QED
    BY <1>4, <2>1, IssueKeyKeepsBalances DEF GenerateKey
<1>5. ASSUME NEW a \in Addrs, NEW k \in Keys, RotateKey(a, k)
      PROVE  mem'.balance = mem.balance
  <2> DEFINE m0 == AutoRegistered(mem, a)
             m == [m0 EXCEPT !.active = @ \ KeysOf(mem, a)]
  <2>1. WellFormed(m0) /\ m0.balance = mem.balance
    BY <1>0, AutoRegisteredLemma
  <2>2. m = ReplayRevokes(m0, KeysOf(mem, a))
    BY DEF ReplayRevokes
  <2>3. WellFormed(m) /\ m.balance = mem.balance
    <3> HIDE DEF m0, m
    <3>1. QED
      BY <2>1, <2>2, ReplayRevokesLemma
  <2>4. QED
    BY <1>5, <2>3, IssueKeyKeepsBalances DEF RotateKey
<1>6. ASSUME NEW a \in Addrs, NEW p, RevokeByPrefix(a, p)
      PROVE  mem'.balance = mem.balance
  BY <1>0, <1>6 DEF RevokeByPrefix, WellFormed, Books
<1>7. CASE Restart
  BY <1>7 DEF Restart, IInv, Agree
<1>8. CASE UNCHANGED vars
  BY <1>8 DEF vars
<1>9. QED
  BY <1>1, <1>2, <1>3, <1>4, <1>5, <1>6, <1>7, <1>8 DEF Next

\* Whatever fails and whenever it restarts, the wallet is a Ledger.
THEOREM WalletImplementsLedger == Spec => ImplementsLedger
<1>1. Init => Balances!Init
  BY DEF Init, EmptyBooks, Balances!Init
<1>2. QED
  BY <1>1, LedgerStep, WalletInvariant, PTL
     DEF Spec, ImplementsLedger, Balances!Spec

-----------------------------------------------------------------------------
(* The wallet implements KeyRing: what the file accepts and the memory     *)
(* does not are the keys a rotation could not record as retired.           *)

\* What recording a key, or failing to, does to the key maps.
LEMMA IssueKeyActive ==
    ASSUME NEW m, WellFormed(m), NEW d, WellFormed(d),
           NEW a \in Addrs, NEW k \in Keys, clock \in Nat, IssueKey(m, d, a, k)
    PROVE  \/ /\ mem'.owner = [m.owner EXCEPT ![k] = a]
              /\ mem'.active = m.active \cup {k}
              /\ disk'.active = d.active \cup {k}
           \/ /\ FALSE \in Outcomes
              /\ mem'.owner = m.owner
              /\ mem'.active = m.active
              /\ disk'.active = d.active
<1>1. ASSUME NEW t
      PROVE  /\ WithKey(m, a, k, t).owner = [m.owner EXCEPT ![k] = a]
             /\ WithKey(m, a, k, t).active = m.active \cup {k}
  BY DEF WithKey, WellFormed, Books
<1>2. ASSUME NEW t PROVE ReplayIssue(d, a, k, t).active = d.active \cup {k}
  BY DEF ReplayIssue, WellFormed, Books
<1>3. CASE IssueKey(m, d, a, k)!1
  <2>1. PICK lag \in 0..MaxLag :
           /\ mem' = WithKey(m, a, k, clock + 1 - lag)
           /\ disk' = ReplayIssue(d, a, k, clock + 1)
    BY <1>3
  <2>2. QED
    BY <1>1, <1>2, <2>1
<1>4. CASE IssueKey(m, d, a, k)!2
  BY <1>4
<1>5. QED
  BY <1>3, <1>4 DEF IssueKey

\* A rotation that retires the keys in mem and records `gone` of them leaves
\* unsure what it did not record, and nothing when writes do not fail.
LEMMA RotationRetires ==
    ASSUME IInv, NEW a \in Addrs,
           NEW gone \in LoggedOf(KeysOf(mem, a) \cap mem.active),
           NEW K \in SUBSET Keys, K \cap disk.active = {},
           mem'.active = (mem.active \ KeysOf(mem, a)) \cup K,
           disk'.active = (disk.active \ gone) \cup K
    PROVE  Ring!Retire(a)
<1> DEFINE U == (KeysOf(mem, a) \cap mem.active) \ gone
           before == disk.active \ mem.active
           after == disk'.active \ mem'.active
<1>1. mem.active \subseteq disk.active
  BY DEF IInv, Agree
<1>2. gone \subseteq KeysOf(mem, a) \cap mem.active
  BY DEF LoggedOf
<1>3. after = before \cup U
  <2>1. ASSUME NEW x PROVE x \in after <=> x \in before \cup U
    <3>1. CASE x \in K
      <4>1. x \notin after /\ x \notin disk.active
        BY <3>1
      <4>2. x \notin before /\ x \notin U
        BY <4>1, <1>1
      <4>3. QED
        BY <4>1, <4>2
    <3>2. CASE x \notin K
      BY <1>1, <1>2, <3>2
    <3>3. QED
      BY <3>1, <3>2
  <2> HIDE DEF before, after, U
  <2>2. QED
    BY <2>1
<1>4. U \subseteq Ring!KeysOf(a) \cap mem.active
  BY DEF Ring!KeysOf, KeysOf
<1>5. FALSE \in Outcomes \/ U = {}
  BY DEF LoggedOf
<1> HIDE DEF U
<1>6. QED
  BY <1>3, <1>4, <1>5 DEF Ring!Retire

\* Each action is a step, or a stutter, of KeyRing.
LEMMA KeyRingStep ==
    ASSUME IInv, [Next]_vars
    PROVE  [Ring!Next]_(Ring!vars)
<1> USE DEF Ring!Next, Ring!vars
<1>0. /\ WellFormed(mem) /\ WellFormed(disk) /\ clock \in Nat
      /\ mem.owner = disk.owner /\ mem.active \subseteq disk.active
  BY DEF IInv, Agree
<1> DEFINE Same == /\ mem'.owner = mem.owner
                   /\ mem'.active = mem.active
                   /\ disk'.active = disk.active
<1>1. ASSUME NEW a \in Addrs, NEW p \in Addrs, RegisterUser(a, p) PROVE Same
  <2>1. disk' = ReplayRegister(disk, a, p) \/ disk' = disk
    BY <1>1 DEF RegisterUser, RegisterNew, UpdatePayTo
  <2>2. disk'.active = disk.active
    BY <1>0, <2>1, ReplayRegisterLemma
  <2>3. mem'.owner = mem.owner /\ mem'.active = mem.active
    BY <1>0, <1>1 DEF RegisterUser, RegisterNew, UpdatePayTo, WellFormed, Books
  <2>4. QED
    BY <2>2, <2>3
<1>2. ASSUME NEW a \in Addrs, NEW n \in Amounts, Credit(a, n) PROVE Same
  <2>1. PICK regLogged \in Outcomes, logged \in Outcomes :
           LET m == AutoRegistered(mem, a)
               d == AutoRegisterLogged(disk, a, regLogged)
           IN  /\ mem' = IF logged THEN [m EXCEPT !.balance[a] = @ + n] ELSE m
               /\ disk' = IF logged THEN ReplayCredit(d, a, n) ELSE d
    BY <1>2 DEF Credit
  <2> DEFINE m == AutoRegistered(mem, a)
             d == AutoRegisterLogged(disk, a, regLogged)
  <2>2. regLogged \in BOOLEAN /\ n \in Int
    BY WalletAssumption
  <2>3. /\ WellFormed(m) /\ m.owner = mem.owner /\ m.active = mem.active
        /\ WellFormed(d) /\ d.active = disk.active
    BY <1>0, <2>2, AutoRegisteredLemma, AutoRegisterLoggedLemma
  <2>4. /\ mem' = m \/ mem' = [m EXCEPT !.balance[a] = @ + n]
        /\ disk' = d \/ disk' = ReplayCredit(d, a, n)
    BY <2>1
  <2> HIDE DEF m, d
  <2>5. ReplayCredit(d, a, n).active = d.active
    BY <2>2, <2>3, ReplayCreditLemma
  <2>6. mem'.owner = mem.owner /\ mem'.active = mem.active
    BY <2>3, <2>4 DEF WellFormed, Books
  <2>7. QED
    BY <2>3, <2>4, <2>5, <2>6
<1>3. ASSUME NEW k \in Keys, NEW n \in Amounts,
             mem.owner[k] # NoOwner, Debit(mem.owner[k], n)
      PROVE  Same
  <2> DEFINE a == mem.owner[k]
  <2>1. a \in Addrs /\ n \in Int
    BY <1>0, <1>3, WalletAssumption DEF WellFormed, Books
  <2>2. disk' = ReplayDebit(disk, a, n)
    BY <1>3 DEF Debit, DebitKnown, DebitOrphan
  <2>3. disk'.active = disk.active
    <3> HIDE DEF a
    <3>1. QED
      BY <1>0, <2>1, <2>2, ReplayDebitLemma
  <2>4. mem'.owner = mem.owner /\ mem'.active = mem.active
    BY <1>0, <1>3 DEF Debit, DebitKnown, DebitOrphan, WellFormed, Books
  <2>5. QED
    BY <2>3, <2>4
<1>4. ASSUME NEW a \in Addrs, NEW k \in Keys, GenerateKey(a, k)
      PROVE  Ring!Issue(a, k) \/ Same
  <2>1. PICK regLogged \in Outcomes :
           IssueKey(AutoRegistered(mem, a),
                    AutoRegisterLogged(disk, a, regLogged), a, k)
    BY <1>4 DEF GenerateKey
  <2> DEFINE m == AutoRegistered(mem, a)
             d == AutoRegisterLogged(disk, a, regLogged)
  <2>2. regLogged \in BOOLEAN /\ mem.owner[k] = NoOwner
    BY <1>4, WalletAssumption DEF GenerateKey
  <2>3. /\ WellFormed(m) /\ m.owner = mem.owner /\ m.active = mem.active
        /\ WellFormed(d) /\ d.active = disk.active
    BY <1>0, <2>2, AutoRegisteredLemma, AutoRegisterLoggedLemma
  <2>4. IssueKey(m, d, a, k)
    BY <2>1
  <2> HIDE DEF m, d
  <2>5. \/ /\ mem'.owner = [mem.owner EXCEPT ![k] = a]
           /\ mem'.active = mem.active \cup {k}
           /\ disk'.active = disk.active \cup {k}
        \/ Same
    BY <1>0, <2>3, <2>4, IssueKeyActive
  <2>6. k \notin disk.active
    BY <1>0, <2>2 DEF WellFormed
  <2>7. (disk.active \cup {k}) \ (mem.active \cup {k}) = disk.active \ mem.active
    BY <2>6
  <2>8. QED
    BY <2>2, <2>5, <2>7 DEF Ring!Issue
<1>5. ASSUME NEW a \in Addrs, NEW k \in Keys, RotateKey(a, k)
      PROVE  Ring!Rotate(a, k) \/ Ring!RotateFails(a)
  <2> DEFINE m0 == AutoRegistered(mem, a)
             m == [m0 EXCEPT !.active = @ \ KeysOf(mem, a)]
  <2>1. PICK regLogged \in Outcomes,
             gone \in LoggedOf(KeysOf(mem, a) \cap mem.active) :
           IssueKey(m, ReplayRevokes(AutoRegisterLogged(disk, a, regLogged), gone),
                    a, k)
    BY <1>5 DEF RotateKey
  <2> DEFINE d0 == AutoRegisterLogged(disk, a, regLogged)
             d == ReplayRevokes(d0, gone)
  <2>2. regLogged \in BOOLEAN /\ mem.owner[k] = NoOwner
    BY <1>5, WalletAssumption DEF RotateKey
  <2>3. /\ WellFormed(m0) /\ m0.owner = mem.owner /\ m0.active = mem.active
        /\ WellFormed(d0) /\ d0.active = disk.active
    BY <1>0, <2>2, AutoRegisteredLemma, AutoRegisterLoggedLemma
  <2>4. m = ReplayRevokes(m0, KeysOf(mem, a))
    BY DEF ReplayRevokes
  <2>5. IssueKey(m, d, a, k)
    BY <2>1
  <2> HIDE DEF m0, d0, m
  <2>6. /\ WellFormed(m) /\ m.owner = mem.owner
        /\ m.active = mem.active \ KeysOf(mem, a)
    BY <2>3, <2>4, ReplayRevokesLemma
  <2>7. WellFormed(d) /\ d.active = disk.active \ gone
    BY <2>3, ReplayRevokesLemma
  <2> HIDE DEF d
  <2>8. k \notin disk.active /\ k \notin mem.active
    BY <1>0, <2>2 DEF WellFormed
  <2>9. CASE /\ mem'.owner = [mem.owner EXCEPT ![k] = a]
             /\ mem'.active = (mem.active \ KeysOf(mem, a)) \cup {k}
             /\ disk'.active = (disk.active \ gone) \cup {k}
    <3>1. Ring!Retire(a)
      <4>1. {k} \in SUBSET Keys /\ {k} \cap disk.active = {}
        BY <2>8
      <4>2. QED
        BY <2>9, <4>1, RotationRetires
    <3>2. QED
      BY <2>2, <2>9, <3>1 DEF Ring!Rotate, Ring!KeysOf, KeysOf
  <2>10. CASE /\ FALSE \in Outcomes
              /\ mem'.owner = mem.owner
              /\ mem'.active = mem.active \ KeysOf(mem, a)
              /\ disk'.active = disk.active \ gone
    <3>1. /\ mem'.active = (mem.active \ KeysOf(mem, a)) \cup {}
          /\ disk'.active = (disk.active \ gone) \cup {}
          /\ {} \in SUBSET Keys /\ {} \cap disk.active = {}
      BY <2>10
    <3>2. Ring!Retire(a)
      BY <3>1, RotationRetires
    <3>3. QED
      BY <2>10, <3>2 DEF Ring!RotateFails, Ring!KeysOf, KeysOf
  <2>11. QED
    BY <1>0, <2>5, <2>6, <2>7, <2>9, <2>10, IssueKeyActive
<1>6. ASSUME NEW a \in Addrs, NEW p, RevokeByPrefix(a, p)
      PROVE  \E k \in Keys : Ring!Revoke(k)
  <2>1. PICK k \in OldestMatches(mem, a, p) :
           /\ mem' = [mem EXCEPT !.active = @ \ {k}]
           /\ disk' = ReplayRevokes(disk, {k})
    BY <1>6 DEF RevokeByPrefix
  <2>2. k \in mem.active /\ k \in Keys
    BY <1>0, <2>1 DEF OldestMatches, WellFormed, Books
  <2>3. /\ mem'.owner = mem.owner /\ mem'.active = mem.active \ {k}
    BY <1>0, <2>1 DEF WellFormed, Books
  <2>4. disk'.active = disk.active \ {k}
    BY <1>0, <2>1, ReplayRevokesLemma
  <2>5. disk'.active \ mem'.active = disk.active \ mem.active
    BY <2>2, <2>3, <2>4
  <2>6. QED
    BY <2>2, <2>3, <2>5 DEF Ring!Revoke
<1>7. ASSUME Restart PROVE Ring!Restart
  <2>1. /\ mem'.owner = mem.owner
        /\ mem'.active = disk.active /\ disk'.active = disk.active
    BY <1>0, <1>7 DEF Restart
  <2>2. mem'.active = mem.active \cup (disk.active \ mem.active)
    BY <1>0, <2>1
  <2>3. disk'.active \ mem'.active = {}
    BY <2>1
  <2>4. QED
    BY <2>1, <2>2, <2>3 DEF Ring!Restart
<1>8. CASE UNCHANGED vars
  BY <1>8 DEF vars
<1>9. QED
  BY <1>1, <1>2, <1>3, <1>4, <1>5, <1>6, <1>7, <1>8 DEF Next

\* Whatever fails and whenever it restarts, the wallet is a KeyRing: only a
\* key whose retirement a rotation could not write ever comes back.
THEOREM WalletImplementsKeyRing == Spec => ImplementsKeyRing
<1>1. Init => Ring!Init
  BY DEF Init, EmptyBooks, Ring!Init
<1>2. QED
  BY <1>1, KeyRingStep, WalletInvariant, PTL
     DEF Spec, ImplementsKeyRing, Ring!Spec
=============================================================================
