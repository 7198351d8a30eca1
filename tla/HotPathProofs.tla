--------------------------- MODULE HotPathProofs ----------------------------
(***************************************************************************)
(* What holds of HotPath for any number of concurrent requests, users,     *)
(* keys, upstreams and journal records, and for any prices: how far an     *)
(* account can be overdrawn, and what may take money from it.              *)
(*                                                                         *)
(* None of it is inductive.  IInv adds what makes it so: the payer in a    *)
(* request's record is the owner of its key, and a request is unpaid until *)
(* it was charged; the journal has no record twice, and while it has the   *)
(* record of a request, that says where the request is, whatever other     *)
(* requests do to the journal in between: a request that got past setKey   *)
(* has a payer in it, one that is completed is final in it.                *)
(*                                                                         *)
(* A charge is any number there.  At the end are the prices it comes from. *)
(***************************************************************************)
EXTENDS HotPath, FiniteSetTheorems, SequenceTheorems, TLAPS

Unpaid == Places \ {"annotate", "done"}

\* The part of TypeOK the arguments need.
Typed ==
    /\ balance \in [Users -> Int]
    /\ payer \in [Clients -> Users \cup {NoUser}]
    /\ pc \in [Clients -> Places] /\ key \in [Clients -> Keys \cup {NoKey}]
    /\ status \in [Clients -> Statuses] /\ paid \in [Clients -> Nat]

\* The record of a request names the owner of its key, or nobody.
PayerIsOwner ==
    \A c \in Clients :
        /\ pc[c] # "idle" => key[c] \in Keys
        /\ payer[c] # NoUser => pc[c] # "idle" /\ payer[c] = Owner[key[c]]
        /\ pc[c] = "debit" => payer[c] # NoUser

NotYetPaid == \A c \in Clients : pc[c] \in Unpaid => paid[c] = 0

RequestInv == Typed /\ PayerIsOwner /\ NotYetPaid

\* The journal, as evictLocked and updateRequest leave it.
Entries == Clients \cup {Old}

Distinct(s) == \A i, j \in DOMAIN s : s[i] = s[j] /\ s[i] # Old => i = j

IsJournal(s) == s \in Seq(Entries) /\ Len(s) <= MaxCards /\ Distinct(s)

Holds(s, c) == \E i \in DOMAIN s : s[i] = c

Answered == {"stream", "complete", "charge", "debit", "annotate", "done"}

Completed == {"charge", "debit", "annotate", "done"}

\* What the record of a request, while there is one, says of the request: a
\* request that got past setKey has a payer in it, one that is completed is
\* final in it, and only the charge stands between an answer and its price.
RecordOf(c) ==
    /\ pc[c] = "idle" => ~Recorded(c) /\ ~final[c] /\ ~served[c]
    /\ lines[c] = IF final[c] THEN 1 ELSE 0
    /\ pc[c] \in Completed /\ Recorded(c) => final[c]
    /\ pc[c] \in {"route", "try", "stream"} /\ Recorded(c) => payer[c] # NoUser
    /\ served[c] => pc[c] \in Answered /\ status[c] = "ok"
    /\ served[c] /\ Recorded(c) => payer[c] # NoUser
    /\ pc[c] = "annotate" => paid[c] >= MinCharge
    /\ pc[c] = "done" /\ served[c] /\ Recorded(c) /\ ~DebitMayFail
          => paid[c] >= MinCharge

RecordInv ==
    /\ active \subseteq Keys
    /\ IsJournal(journal)
    /\ final \in [Clients -> BOOLEAN] /\ lines \in [Clients -> Nat]
    /\ try \in [Clients -> 1 .. NumUpstreams]
    /\ gone \in [Clients -> BOOLEAN] /\ served \in [Clients -> BOOLEAN]
    /\ \A c \in Clients : RecordOf(c)

IInv == RequestInv /\ RecordInv /\ OverdraftBounded

-----------------------------------------------------------------------------
(* The invariant of the requests.                                          *)

\* A charge lies between the minimum and the dearest price.
LEMMA ChargeRange ==
    ASSUME NEW cost \in 0 .. MaxCost
    PROVE  Charge(cost) \in MinCharge .. MaxCost
  BY HotPathAssumption DEF Charge

\* Initially nobody is admitted, and nothing is owed or paid.
LEMMA InitInv == Init => RequestInv
  BY DEF Init, RequestInv, Typed, PayerIsOwner, NotYetPaid, Places, Statuses

LEMMA StepInv == RequestInv /\ [Next]_vars => RequestInv'
<1> SUFFICES ASSUME RequestInv, [Next]_vars
             PROVE  RequestInv'
  OBVIOUS
<1> USE HotPathAssumption DEF RequestInv, Typed, PayerIsOwner, NotYetPaid,
        Unpaid, Places, Goto
<1>1. CASE UNCHANGED vars
  BY <1>1 DEF vars, journalVars, requestVars
<1>2. ASSUME NEW c \in Clients, NEW k \in Keys, Start(c, k)
      PROVE  RequestInv'
  BY <1>2 DEF Start
<1>3. ASSUME NEW c \in Clients, Authenticate(c)
      PROVE  RequestInv'
  BY <1>3 DEF Authenticate, Writes, Statuses, journalVars, Note
<1>4. ASSUME NEW c \in Clients, CheckFunds(c)
      PROVE  RequestInv'
  BY <1>4 DEF CheckFunds, Writes, Statuses, journalVars, Note
<1>5. ASSUME NEW c \in Clients, TagPayer(c)
      PROVE  RequestInv'
  BY <1>5 DEF TagPayer
<1>6. ASSUME NEW c \in Clients, Route(c)
      PROVE  RequestInv'
  BY <1>6 DEF Route, Writes, Statuses, Note
<1>7. ASSUME NEW c \in Clients, NEW a \in Answers, Attempt(c, a)
      PROVE  RequestInv'
  <2> USE DEF Writes, Statuses, Note
  <2>1. CASE NextUpstream(c, a)
    BY <1>7, <2>1 DEF Attempt, NextUpstream
  <2>2. CASE Exhausted(c, a)
    BY <1>7, <2>2 DEF Attempt, Exhausted
  <2>3. CASE PassError(c, a)
    BY <1>7, <2>3 DEF Attempt, PassError
  <2>4. CASE PassAnswer(c, a)
    BY <1>7, <2>4 DEF Attempt, PassAnswer
  <2>5. QED
    BY <1>7, <2>1, <2>2, <2>3, <2>4 DEF Attempt
<1>8. ASSUME NEW c \in Clients, Chunk(c) \/ EndStream(c)
      PROVE  RequestInv'
  BY <1>8 DEF Chunk, EndStream, Note, requestVars, journalVars
<1>9. ASSUME NEW c \in Clients, Complete(c)
      PROVE  RequestInv'
  BY <1>9 DEF Complete
<1>10. ASSUME NEW c \in Clients, FindPayer(c)
       PROVE  RequestInv'
  BY <1>10 DEF FindPayer, journalVars
<1>11. ASSUME NEW c \in Clients, NEW cost \in 0 .. MaxCost, Debit(c, cost)
       PROVE  RequestInv'
  <2>1. Charge(cost) \in Nat
    BY ChargeRange
  <2>2. CASE /\ Goto(c, "debit", "annotate")
             /\ Money!Debit(payer[c], Charge(cost))
             /\ paid' = [paid EXCEPT ![c] = @ + Charge(cost)]
    BY <1>11, <2>1, <2>2 DEF Debit, Money!Debit, journalVars
  <2>3. CASE Goto(c, "debit", "done") /\ UNCHANGED <<balance, paid>>
    BY <1>11, <2>3 DEF Debit, journalVars
  <2>4. QED
    BY <1>11, <2>2, <2>3 DEF Debit
<1>12. ASSUME NEW c \in Clients, Annotate(c)
       PROVE  RequestInv'
  BY <1>12 DEF Annotate
<1>13. ASSUME NEW c \in Clients, Leave(c)
       PROVE  RequestInv'
  BY <1>13 DEF Leave, Statuses
<1>14. ASSUME NEW c \in Clients, HangUp(c)
       PROVE  RequestInv'
  BY <1>14 DEF HangUp, journalVars
<1>15. ASSUME NEW u \in Users, NEW n \in Credits, Topup(u, n)
       PROVE  RequestInv'
  BY <1>15 DEF Topup, Money!Credit, journalVars, requestVars
<1>16. ASSUME NEW k \in Keys, RevokeKey(k)
       PROVE  RequestInv'
  BY <1>16 DEF RevokeKey, journalVars, requestVars
<1>17. QED
  BY <1>1, <1>2, <1>3, <1>4, <1>5, <1>6, <1>7, <1>8, <1>9, <1>10, <1>11,
     <1>12, <1>13, <1>14, <1>15, <1>16 DEF Next, Handle

-----------------------------------------------------------------------------
(* The journal.                                                            *)

\* What is left of a sequence without its i-th entry.
LEMMA RemoveAtProperties ==
    ASSUME NEW S, NEW s \in Seq(S), NEW i \in DOMAIN s
    PROVE  /\ RemoveAt(s, i) \in Seq(S)
           /\ Len(RemoveAt(s, i)) = Len(s) - 1
           /\ \A j \in 1 .. Len(s) - 1 :
                 RemoveAt(s, i)[j] = IF j < i THEN s[j] ELSE s[j + 1]
<1> DEFINE a == SubSeq(s, 1, i - 1)
           b == SubSeq(s, i + 1, Len(s))
<1>1. i \in 1 .. Len(s) /\ Len(s) \in Nat /\ \A j \in 1 .. Len(s) : s[j] \in S
  BY LenProperties, ElementOfSeq
<1>2. /\ a \in Seq(S) /\ Len(a) = i - 1
      /\ \A j \in 1 .. i - 1 : a[j] = s[j]
  <2>1. i - 1 \in Int /\ \A j \in 1 .. i - 1 : j \in 1 .. Len(s)
    BY <1>1
  <2>2. \A j \in 1 .. i - 1 : s[j] \in S
    BY <1>1, <2>1
  <2>3. QED
    BY <1>1, <2>1, <2>2, SubSeqProperties
<1>3. /\ b \in Seq(S) /\ Len(b) = Len(s) - i
      /\ \A j \in 1 .. Len(s) - i : b[j] = s[i + j]
  BY <1>1, SubSeqProperties
<1>4. RemoveAt(s, i) = a \o b
  BY DEF RemoveAt
<1> HIDE DEF a, b
<1>5. /\ a \o b \in Seq(S) /\ Len(a \o b) = Len(a) + Len(b)
      /\ \A j \in 1 .. Len(a) + Len(b) :
            (a \o b)[j] = IF j <= Len(a) THEN a[j] ELSE b[j - Len(a)]
  BY <1>2, <1>3, ConcatProperties
<1>6. QED
  <2>1. Len(a) + Len(b) = Len(s) - 1
    BY <1>1, <1>2, <1>3
  <2>2. ASSUME NEW j \in 1 .. Len(s) - 1
        PROVE  (a \o b)[j] = IF j < i THEN s[j] ELSE s[j + 1]
    <3>1. CASE j < i
      <4>1. j \in 1 .. Len(a) + Len(b) /\ j <= Len(a) /\ j \in 1 .. i - 1
        BY <1>1, <1>2, <2>1, <3>1
      <4>2. QED
        BY <1>2, <1>5, <3>1, <4>1
    <3>2. CASE ~(j < i)
      <4>1. PICK m \in 1 .. Len(s) - i : j = (i - 1) + m
        <5>1. j - (i - 1) \in 1 .. Len(s) - i /\ j = (i - 1) + (j - (i - 1))
          BY <1>1, <3>2
        <5>2. QED
          BY <5>1
      <4>2. /\ j \in 1 .. Len(a) + Len(b) /\ ~(j <= Len(a))
            /\ j - Len(a) = m /\ i + m = j + 1
        BY <1>1, <1>2, <2>1, <3>2, <4>1
      <4>3. (a \o b)[j] = b[m] /\ b[m] = s[j + 1]
        BY <1>3, <1>5, <4>2
      <4>4. QED
        BY <3>2, <4>3
    <3>3. QED
      BY <3>1, <3>2
  <2>3. QED
    BY <1>4, <1>5, <2>1, <2>2

\* An update keeps the entries and their number.
LEMMA TouchedKeeps ==
    ASSUME NEW c \in Clients, IsJournal(journal)
    PROVE  /\ IsJournal(Touched(c))
           /\ \A d \in Clients : Holds(Touched(c), d) <=> Recorded(d)
<1>1. CASE ~Recorded(c)
  BY <1>1 DEF Touched, Holds, Recorded
<1>2. CASE Recorded(c)
  <2> DEFINE p == PlaceOf(c)
             r == RemoveAt(journal, p)
             t == Append(r, c)
             n == Len(journal)
  <2>1. p \in DOMAIN journal /\ journal[p] = c
    BY <1>2 DEF Recorded, PlaceOf
  <2>2. c \in Entries /\ c # Old /\ journal \in Seq(Entries)
    BY HotPathAssumption DEF Entries, IsJournal
  <2>3. n \in Nat /\ DOMAIN journal = 1 .. n /\ n <= MaxCards
    BY <2>2, LenProperties DEF IsJournal
  <2> HIDE DEF p
  <2>4. /\ r \in Seq(Entries) /\ Len(r) = n - 1
        /\ \A j \in 1 .. n - 1 :
              r[j] = IF j < p THEN journal[j] ELSE journal[j + 1]
    BY <2>1, <2>2, RemoveAtProperties
  <2> HIDE DEF r
  <2>5. /\ t \in Seq(Entries) /\ Len(t) = Len(r) + 1
        /\ \A j \in 1 .. Len(r) : t[j] = r[j]
        /\ t[Len(r) + 1] = c
    BY <2>2, <2>4, AppendProperties
  <2>6. DOMAIN t = 1 .. Len(t)
    BY <2>5, LenProperties
  <2> HIDE DEF t, n
  <2>7. /\ DOMAIN t = 1 .. n /\ Len(t) = n
        /\ \A j \in 1 .. n : t[j] = IF j = n THEN c
                                    ELSE IF j < p THEN journal[j]
                                    ELSE journal[j + 1]
    BY <2>1, <2>3, <2>4, <2>5, <2>6
  <2>8. Touched(c) = t
    BY <1>2 DEF Touched, t, r, p
  <2>9. Distinct(t)
    <3> SUFFICES ASSUME NEW i \in 1 .. n, NEW j \in 1 .. n,
                        t[i] = t[j], t[i] # Old, i < j
                 PROVE  FALSE
      BY <2>3, <2>7 DEF Distinct
    <3>1. \A k, l \in 1 .. n :
             journal[k] = journal[l] /\ journal[k] # Old => k = l
      BY <2>3 DEF IsJournal, Distinct
    <3>2. QED
      BY <2>1, <2>3, <2>7, <3>1
  <2>10. ASSUME NEW d \in Clients
         PROVE  Holds(t, d) <=> Recorded(d)
    <3>1. ASSUME NEW i \in 1 .. n, t[i] = d
          PROVE  \E j \in 1 .. n : journal[j] = d
      BY <2>1, <2>3, <2>7, <3>1
    <3>2. ASSUME NEW j \in 1 .. n, journal[j] = d
          PROVE  \E i \in 1 .. n : t[i] = d
      <4>1. CASE j = p
        BY <2>1, <2>3, <2>7, <3>2, <4>1
      <4>2. CASE j < p
        BY <2>1, <2>3, <2>7, <3>2, <4>2
      <4>3. CASE j > p
        <5>1. j - 1 \in 1 .. n /\ j - 1 # n /\ ~(j - 1 < p) /\ (j - 1) + 1 = j
          BY <2>1, <2>3, <4>3
        <5>2. t[j - 1] = journal[j]
          BY <2>3, <2>7, <5>1
        <5>3. QED
          BY <3>2, <5>1, <5>2
      <4>4. QED
        BY <2>1, <2>3, <4>1, <4>2, <4>3
    <3>3. QED
      BY <2>3, <2>7, <3>1, <3>2 DEF Holds, Recorded
  <2>11. QED
    BY <2>3, <2>5, <2>7, <2>8, <2>9, <2>10 DEF IsJournal
<1>3. QED
  BY <1>1, <1>2

\* A new record pushes out the least recently seen one: nothing else is new.
LEMMA EvictedKeeps ==
    ASSUME NEW c \in Clients, IsJournal(journal), ~Recorded(c)
    PROVE  /\ IsJournal(Evicted(Append(journal, c)))
           /\ \A d \in Clients \ {c} :
                 Holds(Evicted(Append(journal, c)), d) => Recorded(d)
<1> DEFINE a == Append(journal, c)
           n == Len(journal)
           e == Evicted(a)
<1>1. c \in Entries /\ c # Old /\ journal \in Seq(Entries)
  BY HotPathAssumption DEF Entries, IsJournal
<1>2. n \in Nat /\ DOMAIN journal = 1 .. n /\ n <= MaxCards
  BY <1>1, LenProperties DEF IsJournal
<1>3. /\ a \in Seq(Entries) /\ Len(a) = n + 1
      /\ \A j \in 1 .. n : a[j] = journal[j]
      /\ a[n + 1] = c
  BY <1>1, AppendProperties
<1>4. DOMAIN a = 1 .. n + 1 /\ \A j \in 1 .. n + 1 : a[j] \in Entries
  BY <1>3, LenProperties, ElementOfSeq
<1>5. PICK k \in 0 .. n : /\ e \in Seq(Entries) /\ Len(e) = n + 1 - k
                         /\ Len(e) <= MaxCards
                         /\ \A j \in 1 .. n + 1 - k : e[j] = a[j + k]
  <2>1. CASE n + 1 <= MaxCards
    <3>1. e = a
      BY <1>2, <1>3, <2>1, HotPathAssumption DEF Evicted
    <3> HIDE DEF e, a, n
    <3>2. 0 \in 0 .. n /\ n + 1 - 0 = n + 1 /\ \A j \in 1 .. n + 1 : j + 0 = j
      BY <1>2
    <3>3. QED
      BY <1>3, <2>1, <3>1, <3>2
  <2>2. CASE n + 1 > MaxCards
    <3> DEFINE k == n + 1 - MaxCards
    <3>1. k \in 0 .. n /\ k + 1 \in Int /\ n + 1 - k = MaxCards
      BY <1>2, <2>2, HotPathAssumption
    <3>2. e = SubSeq(a, k + 1, n + 1)
      <4>1. Len(a) > MaxCards /\ Len(a) = n + 1
        BY <1>3, <2>2
      <4>2. (n + 1) - MaxCards + 1 = k + 1
        BY <1>2, HotPathAssumption
      <4> HIDE DEF n, a, k
      <4>3. QED
        BY <4>1, <4>2 DEF Evicted
    <3>3. \A i \in k + 1 .. n + 1 : a[i] \in Entries
      BY <1>2, <1>4, <3>1
    <3> HIDE DEF k, e, a, n
    <3>4. /\ e \in Seq(Entries)
          /\ Len(e) = IF k + 1 <= n + 1 THEN (n + 1) - (k + 1) + 1 ELSE 0
          /\ \A i \in 1 .. (n + 1) - (k + 1) + 1 : e[i] = a[(k + 1) + i - 1]
      BY <1>2, <3>1, <3>2, <3>3, SubSeqProperties
    <3>5. Len(e) = n + 1 - k /\ (n + 1) - (k + 1) + 1 = n + 1 - k
      BY <1>2, <3>1, <3>4
    <3>6. \A j \in 1 .. n + 1 - k : (k + 1) + j - 1 = j + k
      BY <1>2, <3>1
    <3>7. QED
      BY <3>1, <3>4, <3>5, <3>6
  <2> HIDE DEF e, a, n
  <2>3. QED
    BY <1>2, <2>1, <2>2, HotPathAssumption
<1>6. DOMAIN e = 1 .. n + 1 - k
  BY <1>5, LenProperties
<1> HIDE DEF e, a, n
<1>7. Distinct(e)
  <2> SUFFICES ASSUME NEW i \in 1 .. n + 1 - k, NEW j \in 1 .. n + 1 - k,
                      e[i] = e[j], e[i] # Old, i < j
               PROVE  FALSE
    BY <1>2, <1>6 DEF Distinct
  <2>1. \A p, q \in 1 .. n :
           journal[p] = journal[q] /\ journal[p] # Old => p = q
    BY <1>2 DEF IsJournal, Distinct
  <2>2. i + k \in 1 .. n /\ j + k \in 1 .. n + 1
    BY <1>2, <1>5
  <2>3. a[i + k] = a[j + k] /\ a[i + k] = journal[i + k] /\ journal[i + k] # Old
    BY <1>3, <1>5, <2>2
  <2>4. CASE j + k = n + 1
    BY <1>2, <1>3, <2>2, <2>3, <2>4 DEF Recorded
  <2>5. CASE j + k \in 1 .. n
    BY <1>2, <1>3, <1>5, <2>1, <2>2, <2>3, <2>5
  <2>6. QED
    BY <1>2, <2>2, <2>4, <2>5
<1>8. ASSUME NEW d \in Clients \ {c}, NEW i \in 1 .. n + 1 - k, e[i] = d
      PROVE  Recorded(d)
  <2>1. i + k \in 1 .. n + 1 /\ a[i + k] = d
    BY <1>2, <1>5, <1>8
  <2>2. i + k \in 1 .. n
    BY <1>2, <1>3, <2>1
  <2>3. QED
    BY <1>2, <1>3, <2>1, <2>2 DEF Recorded
<1>9. QED
  BY <1>5, <1>6, <1>7, <1>8 DEF IsJournal, Holds, e, a

\* The records of the other requests stay when one request is over.
LEMMA LeaveKeeps ==
    ASSUME NEW c \in Clients, IsJournal(journal),
           journal' = [i \in DOMAIN journal |->
                         IF journal[i] = c THEN Old ELSE journal[i]]
    PROVE  /\ IsJournal(journal)' /\ ~Recorded(c)'
           /\ \A d \in Clients \ {c} : Recorded(d)' <=> Recorded(d)
<1> DEFINE n == Len(journal)
<1>1. journal \in Seq(Entries) /\ c # Old
  BY HotPathAssumption DEF IsJournal
<1>2. /\ n \in Nat /\ DOMAIN journal = 1 .. n
      /\ \A i \in 1 .. n : journal[i] \in Entries
  BY <1>1, LenProperties, ElementOfSeq
<1> HIDE DEF n
<1>3. \A i \in 1 .. n :
         (IF journal[i] = c THEN Old ELSE journal[i]) \in Entries
  BY <1>2 DEF Entries
<1>4. journal' = [i \in 1 .. n |-> IF journal[i] = c THEN Old ELSE journal[i]]
  BY <1>2
<1>5. journal' \in Seq(Entries)
  BY <1>2, <1>3, <1>4, IsASeq
<1>6. DOMAIN journal' = 1 .. n /\ Len(journal') = n
  BY <1>2, <1>4, <1>5, LenProperties
<1>7. Distinct(journal')
  BY <1>1, <1>2, <1>4, <1>6 DEF IsJournal, Distinct
<1>8. QED
  BY <1>1, <1>2, <1>4, <1>5, <1>6, <1>7, HotPathAssumption
  DEF IsJournal, Recorded, n

\* What an update of a record, or none, means for the journal.
Keeps == IsJournal(journal)' /\ \A d \in Clients : Recorded(d)' <=> Recorded(d)

LEMMA NoteKeeps ==
    ASSUME NEW c \in Clients, IsJournal(journal),
           journal' = Touched(c) \/ UNCHANGED journal
    PROVE  Keeps
<1>1. CASE journal' = Touched(c)
  BY <1>1, TouchedKeeps DEF Keeps, Holds, Recorded, IsJournal, Distinct
<1>2. CASE UNCHANGED journal
  BY <1>2 DEF Keeps, Recorded, IsJournal, Distinct
<1>3. QED
  BY <1>1, <1>2

LEMMA InitRecords == Init => RecordInv
<1> SUFFICES ASSUME Init
             PROVE  RecordInv
  OBVIOUS
<1>1. journal \in Seq(Entries) /\ Len(journal) = 0 /\ DOMAIN journal = {}
  BY DEF Init
<1>2. IsJournal(journal) /\ \A c \in Clients : ~Recorded(c)
  BY <1>1, HotPathAssumption DEF IsJournal, Distinct, Recorded
<1>3. QED
  BY <1>2, HotPathAssumption DEF Init, RecordInv, RecordOf, Completed

LEMMA StepRecords == RequestInv /\ RecordInv /\ [Next]_vars => RecordInv'
<1> SUFFICES ASSUME RequestInv, RecordInv, [Next]_vars
             PROVE  RecordInv'
  OBVIOUS
<1>0. IsJournal(journal)
  BY DEF RecordInv
<1> USE HotPathAssumption DEF RequestInv, Typed, RecordInv, RecordOf, Goto,
        Places, Answered, Completed
<1>1. CASE UNCHANGED vars
  <2>1. Keeps
    BY <1>0, <1>1, NoteKeeps DEF vars, journalVars
  <2>2. QED
    BY <1>1, <2>1 DEF vars, journalVars, requestVars, Keeps
<1>2. ASSUME NEW c \in Clients, NEW k \in Keys, Start(c, k)
      PROVE  RecordInv'
  <2>1. ~Recorded(c)
    BY <1>2 DEF Start
  <2>2. /\ IsJournal(journal)'
        /\ \A d \in Clients \ {c} : Recorded(d)' => Recorded(d)
    BY <1>0, <1>2, <2>1, EvictedKeeps
    DEF Start, Holds, Recorded, IsJournal, Distinct
  <2>3. QED
    BY <1>2, <2>2 DEF Start
<1>3. ASSUME NEW c \in Clients, Authenticate(c)
      PROVE  RecordInv'
  <2>1. Keeps
    BY <1>0, <1>3, NoteKeeps DEF Authenticate, Note, journalVars
  <2>2. QED
    BY <1>3, <2>1 DEF Authenticate, Note, journalVars, Writes, Keeps
<1>4. ASSUME NEW c \in Clients, CheckFunds(c)
      PROVE  RecordInv'
  <2>1. Keeps
    BY <1>0, <1>4, NoteKeeps DEF CheckFunds, Note, journalVars
  <2>2. QED
    BY <1>4, <2>1 DEF CheckFunds, Note, journalVars, Writes, Keeps
<1>5. ASSUME NEW c \in Clients, TagPayer(c)
      PROVE  RecordInv'
  <2>1. Keeps
    BY <1>0, <1>5, NoteKeeps DEF TagPayer
  <2>2. key[c] \in Keys
    BY <1>5 DEF TagPayer, PayerIsOwner
  <2>3. QED
    BY <1>5, <2>1, <2>2 DEF TagPayer, Keeps
<1>6. ASSUME NEW c \in Clients, Route(c)
      PROVE  RecordInv'
  <2>1. Keeps
    BY <1>0, <1>6, NoteKeeps DEF Route, Note
  <2>2. QED
    BY <1>6, <2>1 DEF Route, Note, Writes, Keeps
<1>7. ASSUME NEW c \in Clients, NEW a \in Answers, Attempt(c, a)
      PROVE  RecordInv'
  <2>1. Keeps
    BY <1>0, <1>7, NoteKeeps DEF Attempt, Note
  <2> USE DEF Attempt, Note, Writes, Keeps
  <2>2. CASE NextUpstream(c, a)
    BY <1>7, <2>1, <2>2 DEF NextUpstream
  <2>3. CASE Exhausted(c, a)
    BY <1>7, <2>1, <2>3 DEF Exhausted
  <2>4. CASE PassError(c, a)
    BY <1>7, <2>1, <2>4 DEF PassError
  <2>5. CASE PassAnswer(c, a)
    BY <1>7, <2>1, <2>5 DEF PassAnswer
  <2>6. QED
    BY <1>7, <2>2, <2>3, <2>4, <2>5
<1>8. ASSUME NEW c \in Clients, Chunk(c) \/ EndStream(c)
      PROVE  RecordInv'
  <2>1. Keeps
    BY <1>0, <1>8, NoteKeeps DEF Chunk, EndStream, Note, journalVars
  <2>2. QED
    BY <1>8, <2>1 DEF Chunk, EndStream, Note, journalVars, requestVars, Keeps
<1>9. ASSUME NEW c \in Clients, Complete(c)
      PROVE  RecordInv'
  <2>1. Keeps
    BY <1>0, <1>9, NoteKeeps DEF Complete
  <2>2. CASE Recorded(c)
    <3>1. /\ final' = [final EXCEPT ![c] = TRUE]
          /\ lines' = [lines EXCEPT ![c] = IF final[c] THEN @ ELSE @ + 1]
      BY <1>9, <2>2 DEF Complete
    <3>2. /\ lines' \in [Clients -> Nat] /\ lines'[c] = 1
          /\ \A d \in Clients \ {c} : lines'[d] = lines[d]
      BY <3>1
    <3>3. /\ final' \in [Clients -> BOOLEAN] /\ final'[c]
          /\ \A d \in Clients \ {c} : final'[d] = final[d]
      BY <3>1
    <3>4. QED
      BY <1>9, <2>1, <3>2, <3>3 DEF Complete, Keeps, Effective
  <2>3. CASE ~Recorded(c)
    BY <1>9, <2>1, <2>3 DEF Complete, Keeps, Effective
  <2>4. QED
    BY <2>2, <2>3
<1>10. ASSUME NEW c \in Clients, FindPayer(c)
       PROVE  RecordInv'
  <2>1. Keeps
    BY <1>0, <1>10, NoteKeeps DEF FindPayer, journalVars
  <2>2. QED
    BY <1>10, <2>1 DEF FindPayer, journalVars, Keeps
<1>11. ASSUME NEW c \in Clients, NEW cost \in 0 .. MaxCost, Debit(c, cost)
       PROVE  RecordInv'
  <2>1. Keeps
    BY <1>0, <1>11, NoteKeeps DEF Debit, journalVars
  <2>2. CASE /\ Goto(c, "debit", "annotate")
             /\ paid' = [paid EXCEPT ![c] = @ + Charge(cost)]
    <3>1. Charge(cost) \in Nat /\ Charge(cost) >= MinCharge
      BY ChargeRange
    <3>2. paid'[c] >= MinCharge
      BY <2>2, <3>1
    <3>3. QED
      BY <1>11, <2>1, <2>2, <3>2 DEF Debit, journalVars, Keeps
  <2>3. CASE /\ DebitMayFail
             /\ Goto(c, "debit", "done")
             /\ UNCHANGED <<balance, paid>>
    BY <1>11, <2>1, <2>3 DEF Debit, journalVars, Keeps
  <2>4. QED
    BY <1>11, <2>2, <2>3 DEF Debit
<1>12. ASSUME NEW c \in Clients, Annotate(c)
       PROVE  RecordInv'
  <2>1. Keeps
    BY <1>0, <1>12, NoteKeeps DEF Annotate
  <2>2. QED
    BY <1>12, <2>1 DEF Annotate, Keeps
<1>13. ASSUME NEW c \in Clients, Leave(c)
       PROVE  RecordInv'
  <2>1. /\ IsJournal(journal)' /\ ~Recorded(c)'
        /\ \A d \in Clients \ {c} : Recorded(d)' <=> Recorded(d)
    BY <1>0, <1>13, LeaveKeeps DEF Leave
  <2>2. QED
    BY <1>13, <2>1 DEF Leave
<1>14. ASSUME NEW c \in Clients, HangUp(c)
       PROVE  RecordInv'
  <2>1. Keeps
    BY <1>0, <1>14, NoteKeeps DEF HangUp, journalVars
  <2>2. QED
    BY <1>14, <2>1 DEF HangUp, journalVars, Keeps
<1>15. ASSUME NEW u \in Users, NEW n \in Credits, Topup(u, n)
       PROVE  RecordInv'
  <2>1. Keeps
    BY <1>0, <1>15, NoteKeeps DEF Topup, journalVars
  <2>2. QED
    BY <1>15, <2>1 DEF Topup, journalVars, requestVars, Keeps
<1>16. ASSUME NEW k \in Keys, RevokeKey(k)
       PROVE  RecordInv'
  <2>1. Keeps
    BY <1>0, <1>16, NoteKeeps DEF RevokeKey, journalVars
  <2>2. QED
    BY <1>16, <2>1 DEF RevokeKey, journalVars, requestVars, Keeps
<1>17. QED
  BY <1>1, <1>2, <1>3, <1>4, <1>5, <1>6, <1>7, <1>8, <1>9, <1>10, <1>11,
     <1>12, <1>13, <1>14, <1>15, <1>16 DEF Next, Handle

-----------------------------------------------------------------------------
(* What a step does to the money.  Only a debit takes any, and only a      *)
(* passed balance check makes a request owe.                               *)

Quiet ==
    /\ \A u \in Users : balance'[u] >= balance[u]
    /\ \A d \in Clients : Owes(d)' => Owes(d) /\ key'[d] = key[d]

Admits(c) ==
    /\ UNCHANGED <<balance, key>>
    /\ balance[Owner[key[c]]] > 0
    /\ \A d \in Clients \ {c} : Owes(d)' => Owes(d)

Charges(c, n) ==
    /\ pc[c] = "debit" /\ ~Owes(c)'
    /\ balance' = [balance EXCEPT ![Owner[key[c]]] = @ - n]
    /\ paid' = [paid EXCEPT ![c] = @ + n]
    /\ UNCHANGED key
    /\ \A d \in Clients \ {c} : Owes(d)' => Owes(d)

\* Every step is quiet, admits one request, or charges one.
LEMMA StepMoney ==
    ASSUME RequestInv, [Next]_vars
    PROVE  \/ Quiet
           \/ \E c \in Clients : key[c] \in Keys /\ Admits(c)
           \/ \E c \in Clients, n \in MinCharge .. MaxCost : Charges(c, n)
<1> USE HotPathAssumption DEF RequestInv, Typed, PayerIsOwner, Places, Goto,
        Owes
<1>1. CASE UNCHANGED vars
  BY <1>1 DEF vars, journalVars, requestVars, Quiet
<1>2. ASSUME NEW c \in Clients, NEW k \in Keys, Start(c, k)
      PROVE  Quiet
  BY <1>2 DEF Start, Quiet
<1>3. ASSUME NEW c \in Clients, Authenticate(c)
      PROVE  Quiet
  BY <1>3 DEF Authenticate, Writes, Quiet
<1>4. ASSUME NEW c \in Clients, CheckFunds(c)
      PROVE  Quiet \/ (key[c] \in Keys /\ Admits(c))
  BY <1>4 DEF CheckFunds, Writes, Quiet, Admits
<1>5. ASSUME NEW c \in Clients, TagPayer(c)
      PROVE  Quiet
  BY <1>5 DEF TagPayer, Quiet
<1>6. ASSUME NEW c \in Clients, Route(c)
      PROVE  Quiet
  BY <1>6 DEF Route, Writes, Quiet
<1>7. ASSUME NEW c \in Clients, NEW a \in Answers, Attempt(c, a)
      PROVE  Quiet
  BY <1>7 DEF Attempt, NextUpstream, Exhausted, PassError, PassAnswer,
              Writes, Quiet
<1>8. ASSUME NEW c \in Clients, Chunk(c) \/ EndStream(c)
      PROVE  Quiet
  BY <1>8 DEF Chunk, EndStream, requestVars, Quiet
<1>9. ASSUME NEW c \in Clients, Complete(c)
      PROVE  Quiet
  BY <1>9 DEF Complete, Effective, Quiet
<1>10. ASSUME NEW c \in Clients, FindPayer(c)
       PROVE  Quiet
  BY <1>10 DEF FindPayer, Quiet
<1>11. ASSUME NEW c \in Clients, NEW cost \in 0 .. MaxCost, Debit(c, cost)
       PROVE  Quiet \/ \E n \in MinCharge .. MaxCost : Charges(c, n)
  <2>1. Charge(cost) \in MinCharge .. MaxCost
    BY ChargeRange
  <2>2. CASE /\ Goto(c, "debit", "annotate")
             /\ Money!Debit(payer[c], Charge(cost))
             /\ paid' = [paid EXCEPT ![c] = @ + Charge(cost)]
    <3>1. Charges(c, Charge(cost))
      BY <1>11, <2>2 DEF Debit, Money!Debit, Charges
    <3>2. QED
      BY <2>1, <3>1
  <2>3. CASE Goto(c, "debit", "done") /\ UNCHANGED <<balance, paid>>
    BY <1>11, <2>3 DEF Debit, Quiet
  <2>4. QED
    BY <1>11, <2>2, <2>3 DEF Debit
<1>12. ASSUME NEW c \in Clients, Annotate(c)
       PROVE  Quiet
  BY <1>12 DEF Annotate, Quiet
<1>13. ASSUME NEW c \in Clients, Leave(c)
       PROVE  Quiet
  BY <1>13 DEF Leave, Quiet
<1>14. ASSUME NEW c \in Clients, HangUp(c)
       PROVE  Quiet
  BY <1>14 DEF HangUp, Quiet
<1>15. ASSUME NEW u \in Users, NEW n \in Credits, Topup(u, n)
       PROVE  Quiet
  BY <1>15 DEF Topup, Money!Credit, requestVars, Quiet
<1>16. ASSUME NEW k \in Keys, RevokeKey(k)
       PROVE  Quiet
  BY <1>16 DEF RevokeKey, requestVars, Quiet
<1>17. QED
  BY <1>1, <1>2, <1>3, <1>4, <1>5, <1>6, <1>7, <1>8, <1>9, <1>10, <1>11,
     <1>12, <1>13, <1>14, <1>15, <1>16 DEF Next, Handle

-----------------------------------------------------------------------------
(* How far an account can be overdrawn.                                    *)

\* Sets of slots are finite, and no larger than the set of all slots.
LEMMA SlotsFinite ==
    ASSUME NEW S \in SUBSET Clients
    PROVE  /\ IsFiniteSet(S)
           /\ Cardinality(S) \in Nat /\ Cardinality(Clients) \in Nat
           /\ Cardinality(S) <= Cardinality(Clients)
  BY FS_Subset, FS_CardinalityType, HotPathAssumption

\* More free slots mean more allowance.
LEMMA Monotone ==
    ASSUME NEW m \in Nat, NEW i \in Nat, NEW j \in Nat, i <= j
    PROVE  m * i <= m * j /\ m * i \in Nat /\ m * j \in Nat
<1>1. PICK d \in Nat : j = i + d
  <2>1. j - i \in Nat /\ j = i + (j - i)
    OBVIOUS
  <2>2. QED
    BY <2>1
<1>2. m * j = m * i + m * d
  BY <1>1
<1>3. m * i \in Nat /\ m * d \in Nat
  OBVIOUS
<1>4. QED
  BY <1>2, <1>3

LEMMA InitOverdraft == Init => OverdraftBounded
<1> SUFFICES ASSUME Init, NEW u \in Users
             PROVE  balance[u] + MaxCost * (Cardinality(Clients)
                                            - Cardinality(OwingOf(u))) > 0
  BY DEF OverdraftBounded
<1>1. OwingOf(u) = {}
  BY DEF Init, OwingOf, Owes
<1>2. Cardinality(OwingOf(u)) = 0 /\ balance[u] = 0
  BY <1>1, FS_EmptySet DEF Init
<1>3. Cardinality(Clients) \in Nat /\ Cardinality(Clients) # 0
  BY FS_EmptySet, SlotsFinite, HotPathAssumption
<1>4. MaxCost * 1 <= MaxCost * Cardinality(Clients)
  BY <1>3, Monotone, HotPathAssumption
<1>5. MaxCost * Cardinality(Clients) > 0
  <2>1. MaxCost >= 1 /\ MaxCost * 1 = MaxCost
    BY HotPathAssumption
  <2>2. MaxCost * Cardinality(Clients) \in Nat
    BY <1>3, HotPathAssumption
  <2>3. QED
    BY <1>4, <2>1, <2>2, HotPathAssumption
<1>6. Cardinality(Clients) - Cardinality(OwingOf(u)) = Cardinality(Clients)
  BY <1>2, <1>3
<1>7. QED
  <2>1. MaxCost * Cardinality(Clients) \in Nat
    BY <1>3, Monotone, HotPathAssumption
  <2>2. balance[u] + MaxCost * Cardinality(Clients) > 0
    BY <1>2, <1>5, <2>1
  <2>3. QED
    BY <1>6, <2>2

LEMMA StepOverdraft == IInv /\ [Next]_vars => OverdraftBounded'
<1> SUFFICES ASSUME IInv, [Next]_vars, NEW u \in Users
             PROVE  balance'[u] + MaxCost * (Cardinality(Clients)
                                             - Cardinality(OwingOf(u)')) > 0
  BY DEF OverdraftBounded
<1> DEFINE N == Cardinality(Clients)
           S == OwingOf(u)
           T == OwingOf(u)'
<1>1. T = {c \in Clients : Owes(c)' /\ Owner[key'[c]] = u}
  BY DEF OwingOf
<1>2. S = {c \in Clients : Owes(c) /\ Owner[key[c]] = u}
  BY DEF OwingOf
<1>3. /\ IsFiniteSet(S) /\ IsFiniteSet(T)
      /\ N \in Nat /\ Cardinality(S) \in Nat /\ Cardinality(T) \in Nat
      /\ Cardinality(S) <= N /\ Cardinality(T) <= N
  BY <1>1, <1>2, SlotsFinite
<1>4. balance[u] + MaxCost * (N - Cardinality(S)) > 0
  BY DEF IInv, OverdraftBounded
<1>5. RequestInv /\ RequestInv'
  BY StepInv DEF IInv
<1>6. balance[u] \in Int /\ balance'[u] \in Int /\ MaxCost \in Nat
  BY <1>5, HotPathAssumption DEF RequestInv, Typed
<1> HIDE DEF N, S, T
<1>7. ASSUME T \subseteq S, balance'[u] >= balance[u]
      PROVE  balance'[u] + MaxCost * (N - Cardinality(T)) > 0
  <2>1. Cardinality(T) <= Cardinality(S)
    BY <1>3, <1>7, FS_Subset
  <2>2. MaxCost * (N - Cardinality(S)) <= MaxCost * (N - Cardinality(T))
    BY <1>3, <1>6, <2>1, Monotone
  <2>3. QED
    BY <1>3, <1>4, <1>6, <1>7, <2>2
<1>8. ASSUME Quiet
      PROVE  balance'[u] + MaxCost * (N - Cardinality(T)) > 0
  BY <1>1, <1>2, <1>7, <1>8 DEF Quiet
<1>9. ASSUME NEW c \in Clients, key[c] \in Keys, Admits(c)
      PROVE  balance'[u] + MaxCost * (N - Cardinality(T)) > 0
  <2>1. CASE Owner[key[c]] = u
    <3>1. balance'[u] > 0
      BY <1>9, <2>1 DEF Admits
    <3>2. MaxCost * (N - Cardinality(T)) \in Nat
      BY <1>3, <1>6, Monotone
    <3>3. QED
      BY <1>6, <3>1, <3>2
  <2>2. CASE Owner[key[c]] # u
    BY <1>1, <1>2, <1>6, <1>7, <1>9, <2>2 DEF Admits
  <2>3. QED
    BY <2>1, <2>2
<1>10. ASSUME NEW c \in Clients, NEW n \in MinCharge .. MaxCost, Charges(c, n)
       PROVE  balance'[u] + MaxCost * (N - Cardinality(T)) > 0
  <2>1. CASE Owner[key[c]] = u
    <3>1. balance'[u] = balance[u] - n /\ n <= MaxCost /\ n \in Nat
      BY <1>5, <1>10, <2>1, HotPathAssumption DEF Charges, RequestInv, Typed
    <3>2. c \in S /\ T \subseteq S \ {c}
      BY <1>1, <1>2, <1>10, <2>1 DEF Charges, Owes
    <3>3. /\ IsFiniteSet(S \ {c})
          /\ Cardinality(S \ {c}) = Cardinality(S) - 1
      BY <1>3, <3>2, FS_RemoveElement
    <3>4. Cardinality(T) <= Cardinality(S) - 1
      BY <3>2, <3>3, FS_Subset
    <3>5. N - (Cardinality(S) - 1) \in Nat /\ N - Cardinality(T) \in Nat
      BY <1>3
    <3>6. MaxCost * (N - (Cardinality(S) - 1)) <= MaxCost * (N - Cardinality(T))
      BY <1>3, <1>6, <3>4, <3>5, Monotone
    <3>7. MaxCost * (N - (Cardinality(S) - 1))
            = MaxCost * (N - Cardinality(S)) + MaxCost
      BY <1>3, <1>6
    <3>8. QED
      BY <1>3, <1>4, <1>6, <3>1, <3>5, <3>6, <3>7
  <2>2. CASE Owner[key[c]] # u
    <3>1. balance'[u] = balance[u]
      BY <1>5, <1>10, <2>2 DEF Charges, RequestInv, Typed
    <3>2. T \subseteq S
      BY <1>1, <1>2, <1>10, <2>2 DEF Charges
    <3>3. QED
      BY <1>6, <1>7, <3>1, <3>2
  <2>3. QED
    BY <2>1, <2>2
<1>11. balance'[u] + MaxCost * (N - Cardinality(T)) > 0
  BY <1>5, <1>8, <1>9, <1>10, StepMoney
<1>12. QED
  BY <1>11 DEF N, T

(* IInv is an invariant for any number of concurrent requests, any users,  *)
(* keys, upstreams, journal size and prices (bearerAuth, requestLogger,    *)
(* chargeFromSession).                                                     *)
THEOREM HotPathInvariant == Spec => []IInv
<1>1. Init => IInv
  BY InitInv, InitRecords, InitOverdraft DEF IInv
<1>2. IInv /\ [Next]_vars => IInv'
  BY StepInv, StepRecords, StepOverdraft DEF IInv
<1>3. QED
  BY <1>1, <1>2, PTL DEF Spec

(* Requests move money as the wallet promises to (Ledger, which Wallet     *)
(* implements): one charge of one account at a time, of at least one micro *)
(* and at most what a request may cost, and whole topups; no other step of *)
(* a request, and no journal record that is gone, shows in a balance       *)
(* (bearerAuth, chargeFromSession, Credit, Debit).                         *)
THEOREM HotPathImplementsLedger == Spec => Money!Spec
<1>1. Init => Money!Init
  BY DEF Init, Money!Init
<1>2. ASSUME IInv, [Next]_vars
      PROVE  [Money!Next]_balance
  <2>1. ASSUME NEW c \in Clients, NEW cost \in 0 .. MaxCost, Debit(c, cost)
        PROVE  [Money!Next]_balance
    <3>1. CASE UNCHANGED balance
      BY <3>1
    <3>2. CASE pc[c] = "debit" /\ Money!Debit(payer[c], Charge(cost))
      <4>1. payer[c] \in Users
        BY <1>2, <3>2 DEF IInv, RequestInv, Typed, PayerIsOwner
      <4>2. Charge(cost) \in 1 .. MaxCost
        BY HotPathAssumption DEF Charge
      <4>3. QED
        BY <3>2, <4>1, <4>2 DEF Money!Next
    <3>3. QED
      BY <2>1, <3>1, <3>2 DEF Debit, Goto
  <2>2. ASSUME NEW u \in Users, NEW n \in Credits, Topup(u, n)
        PROVE  [Money!Next]_balance
    BY <2>2 DEF Topup, Money!Next
  <2>3. QED
    BY <1>2, <2>1, <2>2
       DEF Next, vars, Handle, Start, Authenticate, CheckFunds, TagPayer, Route,
           Attempt, EndStream, Chunk, Complete, FindPayer, Annotate, Leave,
           HangUp, RevokeKey
<1>3. QED
  BY <1>1, <1>2, HotPathInvariant, PTL DEF Spec, Money!Spec

(* An account is never overdrawn by more than what its concurrent requests *)
(* may cost, however many requests follow one another: the balance check   *)
(* in bearerAuth is stale when Debit runs, but only by the requests that   *)
(* were admitted together.                                                 *)
THEOREM HotPathOverdraftBounded == Spec => []OverdraftBounded
<1>1. IInv => OverdraftBounded
  BY DEF IInv
<1>2. QED
  BY <1>1, HotPathInvariant, PTL

(* The types, and with them the journal: it never outgrows maxSessionCards *)
(* and holds a running request at most once, in whatever order records are *)
(* started, updated and evicted (start, updateRequest, evictLocked).       *)
THEOREM HotPathTypeOK == Spec => []TypeOK
<1>1. IInv => TypeOK
  BY DEF IInv, RequestInv, RecordInv, Typed, IsJournal, Distinct, Entries, TypeOK
<1>2. QED
  BY <1>1, HotPathInvariant, PTL

(* What an upstream answered with a 2xx is paid for, unless its record was *)
(* evicted meanwhile or the log refused the debit: no other interleaving   *)
(* lets a request through for free (bearerAuth, complete,                  *)
(* chargeFromSession).                                                     *)
THEOREM HotPathServedIsPaid == Spec => []ServedIsPaid
<1>1. IInv => ServedIsPaid
  BY DEF IInv, RecordInv, RecordOf, ServedIsPaid
<1>2. QED
  BY <1>1, HotPathInvariant, PTL

(* A request that is over and still in the journal has exactly one stats   *)
(* line, though its record was updated after it became final (complete,    *)
(* updateRequest).                                                         *)
THEOREM HotPathOneStatsLine == Spec => []OneStatsLine
<1>1. IInv => OneStatsLine
  BY DEF IInv, RecordInv, RecordOf, Completed, OneStatsLine
<1>2. QED
  BY <1>1, HotPathInvariant, PTL

(* Money leaves an account only as the one charge of a request that was    *)
(* admitted with a key of that account (setKey, chargeFromSession, Debit). *)
THEOREM HotPathEveryDebitIsOneCharge == Spec => EveryDebitIsOneCharge
<1> DEFINE OneCharge ==
        \A u \in Users : balance'[u] < balance[u] =>
          \E c \in Clients :
              /\ pc[c] = "debit" /\ key[c] \in Keys /\ Owner[key[c]] = u
              /\ paid[c] = 0 /\ paid'[c] = balance[u] - balance'[u]
<1>1. ASSUME IInv, [Next]_vars
      PROVE  OneCharge
  <2> SUFFICES ASSUME NEW u \in Users, balance'[u] < balance[u]
               PROVE  \E c \in Clients :
                        /\ pc[c] = "debit" /\ key[c] \in Keys
                        /\ Owner[key[c]] = u /\ paid[c] = 0
                        /\ paid'[c] = balance[u] - balance'[u]
    OBVIOUS
  <2>1. RequestInv /\ RequestInv'
    BY <1>1, StepInv DEF IInv
  <2>2. balance[u] \in Int /\ balance'[u] \in Int
    BY <2>1 DEF RequestInv, Typed
  <2>3. ~Quiet /\ ~ \E c \in Clients : key[c] \in Keys /\ Admits(c)
    BY <2>2 DEF Quiet, Admits
  <2>4. PICK c \in Clients, n \in MinCharge .. MaxCost : Charges(c, n)
    BY <1>1, <2>1, <2>3, StepMoney
  <2>5. n \in Int
    BY HotPathAssumption
  <2>6. Owner[key[c]] = u /\ balance'[u] = balance[u] - n
    BY <2>1, <2>2, <2>4, <2>5 DEF Charges, RequestInv, Typed
  <2>7. paid[c] = 0 /\ paid'[c] = n /\ key[c] \in Keys
    BY <2>1, <2>4, <2>5 DEF Charges, RequestInv, Typed, PayerIsOwner,
                           NotYetPaid, Unpaid, Places
  <2>8. n = balance[u] - balance'[u]
    BY <2>2, <2>5, <2>6
  <2>9. QED
    BY <2>4, <2>6, <2>7, <2>8 DEF Charges
<1>2. IInv /\ [Next]_vars => [OneCharge]_vars
  BY <1>1
<1>3. QED
  BY <1>2, HotPathInvariant, PTL DEF Spec, EveryDebitIsOneCharge
-----------------------------------------------------------------------------
(* The price of a request, which HotPath lets be any number: it is what    *)
(* Pricing makes of the counts, raised to the same least charge.           *)

Prices == INSTANCE Pricing

\* A rule of a price table: rates, and the prefix of the models it is for.
IsRule(rule) == /\ rule.input \in Nat /\ rule.output \in Nat
                /\ rule.read \in Nat /\ rule.write \in Nat

\* pricingCost is never negative, whatever the provider reports: also not if
\* it reports more cached tokens than there are.
LEMMA CostIsNat ==
    ASSUME NEW table, \A i \in DOMAIN table : IsRule(table[i]), NEW model,
           NEW u \in Prices!Counts
    PROVE  Prices!Cost(table, model, u) \in Nat
<1>1. \A a, b \in Nat : a * b \in Nat
  OBVIOUS
<1>2. /\ u.input \in Nat /\ u.output \in Nat
      /\ u.read \in Nat /\ u.write \in Nat /\ u.excluded \in BOOLEAN
  BY DEF Prices!Counts
<1>3. ASSUME NEW rule, IsRule(rule) PROVE Prices!CostBy(rule, u) \in Nat
  <2>1. Prices!Uncached(rule, u) \in Nat
    BY <1>2 DEF Prices!Uncached
  <2>2. Prices!Rate(rule, rule.read) \in Nat /\ Prices!Rate(rule, rule.write) \in Nat
    BY <1>3 DEF Prices!Rate, IsRule
  <2>3. Prices!Cached(rule, u) \in Nat
    BY <1>1, <1>2, <1>3, <2>2 DEF Prices!Cached, IsRule
  <2>4. /\ Prices!Uncached(rule, u) * rule.input \in Nat
        /\ u.output * rule.output \in Nat
    BY <1>1, <1>2, <1>3, <2>1 DEF IsRule
  <2>5. QED
    BY <2>3, <2>4 DEF Prices!CostBy
<1>4. Prices!Best(table, model) \subseteq DOMAIN table
  BY DEF Prices!Best
<1>5. QED
  BY <1>3, <1>4 DEF Prices!Cost

\* chargeFromSession: what is debited is what the tokens cost, and the least
\* charge if that is more (charge.go:51-69): whatever the table and the
\* counts, it is one of the charges the hot path is proved about.
THEOREM ChargeIsPriced ==
    ASSUME NEW table, \A i \in DOMAIN table : IsRule(table[i]), NEW model,
           NEW u \in Prices!Counts
    PROVE  LET cost == Prices!Cost(table, model, u)
               charge == Prices!Charge(table, model, u)
           IN  /\ charge = Charge(cost)
               /\ charge \in {cost, MinCharge}
               /\ charge >= cost /\ charge >= MinCharge
<1>1. Prices!Cost(table, model, u) \in Nat
  BY CostIsNat
<1>2. QED
  BY <1>1, HotPathAssumption DEF Prices!Charge, Charge
=============================================================================
