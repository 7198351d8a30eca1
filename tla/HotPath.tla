------------------------------ MODULE HotPath -------------------------------
(***************************************************************************)
(* One proxied request from the access log's wrapper to its charge:        *)
(* requestLogger (access_log.go), bearerAuth (payments.go), the hot path   *)
(* of Proxy.ServeHTTP (proxy.go), the journal record the request carries   *)
(* its payer in (sessions.go) and chargeFromSession (charge.go).           *)
(*                                                                         *)
(* Requests run concurrently, one goroutine each.  A step is what one      *)
(* holds a lock for: the key lookup, the balance check and the debit are   *)
(* three separate sections of Wallet.mu, each journal update is one of     *)
(* sessionHub.mu.  Balances are those of Ledger, which Wallet implements.  *)
(*                                                                         *)
(* A client slot sends any number of requests one after the other; its     *)
(* finished records stay in the journal as `Old` until they are evicted.   *)
(***************************************************************************)
EXTENDS Integers, SequencesExt, FiniteSets

CONSTANTS Clients,       \* slots for concurrent requests
          Users,         \* account addresses
          Keys,          \* API keys
          Owner,         \* Owner[k]: the user key k was issued to
          NoUser,        \* "no user on the session"
          NoKey,         \* what a slot without a request holds
          Old,           \* a record in the journal whose request is over
          MinCharge,     \* minChargeMicro, what every 2xx costs at least
          MaxCost,       \* bound: no request is priced beyond this
          Credits,       \* what one topup may add
          MaxBalance,    \* bound: no topup beyond this balance
          MaxCards,      \* maxSessionCards, the size of the journal
          NumUpstreams,  \* length of the routed upstream list
          DebitMayFail   \* whether the wallet's log may refuse a debit

ASSUME HotPathAssumption ==
    /\ IsFiniteSet(Clients) /\ Clients # {}
    /\ Owner \in [Keys -> Users]
    /\ NoUser \notin Users /\ NoKey \notin Keys /\ Old \notin Clients
    /\ MinCharge \in Nat \ {0} /\ MaxCost \in Nat /\ MinCharge <= MaxCost
    /\ Credits \subseteq Nat \ {0}
    /\ MaxBalance \in Nat
    /\ MaxCards \in Nat \ {0} /\ NumUpstreams \in Nat \ {0}
    /\ DebitMayFail \in BOOLEAN

VARIABLES balance,  \* balance[u]: the wallet's balance of user u
          active,   \* keys that are not revoked
          journal,  \* hub.records, least recently seen first
          payer,    \* payer[c]: UserAddr in the record of c's request
          final,    \* final[c]: the record is in a final state
          lines,    \* lines[c]: stats lines written for c's request
          pc,       \* pc[c]: where c's request is
          key,      \* key[c]: the key it presented
          try,      \* try[c]: the upstream it is at
          gone,     \* gone[c]: its client hung up (r.Context() is cancelled)
          status,   \* status[c]: class of the status written to the client
          served,   \* served[c]: an upstream answered it with a 2xx
          paid      \* paid[c]: what it was charged in all

journalVars == <<journal, payer, final, lines>>
requestVars == <<pc, key, try, gone, status, served, paid>>
vars == <<balance, active, journalVars, requestVars>>

\* The classes of status the code tells apart; `none`: nothing was written.
Statuses == {"none", "ok", "redirect", "error"}

\* What one attempt may come to: it failed before an answer, or the upstream
\* answered 502-504, another status from 400 on, a 3xx, or a 2xx.
Answers == {"failed", "busy", "error", "redirect", "ok"}

Places == {"idle", "auth", "funds", "tag", "route", "try", "stream",
           "complete", "charge", "debit", "annotate", "done"}

Money == INSTANCE Ledger
         WITH Addrs <- Users, Amounts <- (1 .. MaxCost) \cup Credits

-----------------------------------------------------------------------------
(* The journal.                                                            *)

Recorded(c) == \E i \in DOMAIN journal : journal[i] = c

\* The record's place in the order of LastSeen.
PlaceOf(c) == CHOOSE i \in DOMAIN journal : journal[i] = c

\* A record that is updated becomes the most recently seen one.
Touched(c) == IF Recorded(c)
              THEN Append(RemoveAt(journal, PlaceOf(c)), c) ELSE journal

\* (mutant) One record too many is kept.
EvictedLate(s) == IF Len(s) > MaxCards + 1
                  THEN SubSeq(s, Len(s) - MaxCards, Len(s)) ELSE s

\* Records beyond the limit are dropped from the least recently seen end,
\* whether or not their request is over.
Evicted(s) == IF Len(s) > MaxCards
              THEN SubSeq(s, Len(s) - MaxCards + 1, Len(s)) ELSE s

\* updateRequest for a request that is still running: events, upstream,
\* body, status and streamed bytes are not told apart.
Note(c) == /\ journal' = Touched(c)
           /\ UNCHANGED <<payer, final, lines>>

-----------------------------------------------------------------------------
Init == /\ balance = [u \in Users |-> 0]
        /\ active = Keys
        /\ journal = <<>>
        /\ payer = [c \in Clients |-> NoUser]
        /\ final = [c \in Clients |-> FALSE]
        /\ lines = [c \in Clients |-> 0]
        /\ pc = [c \in Clients |-> "idle"]
        /\ key = [c \in Clients |-> NoKey]
        /\ try = [c \in Clients |-> 1]
        /\ gone = [c \in Clients |-> FALSE]
        /\ status = [c \in Clients |-> "none"]
        /\ served = [c \in Clients |-> FALSE]
        /\ paid = [c \in Clients |-> 0]

Goto(c, from, to) == pc[c] = from /\ pc' = [pc EXCEPT ![c] = to]

Writes(c, s) == status' = [status EXCEPT ![c] = s]

\* requestLogger opens a journal record, evicting what no longer fits.
Start(c, k) ==
    /\ Goto(c, "idle", "auth")
    /\ journal' = Evicted(Append(journal, c))
    /\ key' = [key EXCEPT ![c] = k]
    /\ UNCHANGED <<balance, active, payer, final, lines,
                   try, gone, status, served, paid>>

\* LookupKey.
Authenticate(c) ==
    /\ \/ /\ key[c] \in active
          /\ Goto(c, "auth", "funds")
          /\ UNCHANGED <<status, journalVars>>
       \/ /\ key[c] \notin active
          /\ Goto(c, "auth", "complete")
          /\ Writes(c, "error")
          /\ Note(c)
    /\ UNCHANGED <<balance, active, key, try, gone, served, paid>>

\* (mutant) A debt is not told apart from money.
CheckFundsLoose(c) ==
    /\ Goto(c, "funds", "tag")
    /\ balance[Owner[key[c]]] # 0
    /\ UNCHANGED <<balance, active, journalVars,
                   key, try, gone, status, served, paid>>

\* Balance: a user with nothing left is turned away.
CheckFunds(c) ==
    /\ \/ /\ Goto(c, "funds", "tag")
          /\ balance[Owner[key[c]]] > 0
          /\ UNCHANGED <<status, journalVars>>
       \/ /\ Goto(c, "funds", "complete")
          /\ balance[Owner[key[c]]] <= 0
          /\ Writes(c, "error")
          /\ Note(c)
    /\ UNCHANGED <<balance, active, key, try, gone, served, paid>>

\* setKey writes the payer into the record, if there still is one.
TagPayer(c) ==
    /\ Goto(c, "tag", "route")
    /\ payer' = IF Recorded(c)
                THEN [payer EXCEPT ![c] = Owner[key[c]]] ELSE payer
    /\ journal' = Touched(c)
    /\ UNCHANGED <<balance, active, final, lines,
                   key, try, gone, status, served, paid>>

\* The body cannot be read, no route matches, or the attempts begin.
Route(c) ==
    /\ \/ Goto(c, "route", "try") /\ UNCHANGED status
       \/ Goto(c, "route", "complete") /\ Writes(c, "error")
    /\ Note(c)
    /\ UNCHANGED <<balance, active, key, try, gone, served, paid>>

\* (mutant) The list of upstreams is gone through over and over.
NextUpstreamAround(c, a) ==
    /\ a \in {"failed", "busy"}
    /\ try' = [try EXCEPT ![c] = IF @ < NumUpstreams THEN @ + 1 ELSE 1]
    /\ UNCHANGED <<pc, status, served>>

\* An attempt that failed, or came back busy, is followed by the next one.
NextUpstream(c, a) ==
    /\ a \in {"failed", "busy"}
    /\ try[c] < NumUpstreams
    /\ try' = [try EXCEPT ![c] = @ + 1]
    /\ UNCHANGED <<pc, status, served>>

\* Nobody is left to try: 502, or no answer at all to a client that left.
Exhausted(c, a) ==
    /\ a = "failed"
    /\ try[c] = NumUpstreams
    /\ Goto(c, "try", "complete")
    /\ IF gone[c] THEN UNCHANGED status ELSE Writes(c, "error")
    /\ UNCHANGED <<try, served>>

\* The last busy answer and any other error are passed on.
PassError(c, a) ==
    /\ a = "error" \/ (a = "busy" /\ try[c] = NumUpstreams)
    /\ Goto(c, "try", "complete")
    /\ Writes(c, "error")
    /\ UNCHANGED <<try, served>>

PassAnswer(c, a) ==
    /\ a \in {"ok", "redirect"}
    /\ Goto(c, "try", "stream")
    /\ Writes(c, a)
    /\ served' = [served EXCEPT ![c] = (a = "ok")]
    /\ UNCHANGED try

Attempt(c, a) ==
    /\ pc[c] = "try"
    /\ \/ NextUpstream(c, a)
       \/ Exhausted(c, a)
       \/ PassError(c, a)
       \/ PassAnswer(c, a)
    /\ Note(c)
    /\ UNCHANGED <<balance, active, key, gone, paid>>

\* captureResponse: one more chunk went through.
Chunk(c) ==
    /\ pc[c] = "stream"
    /\ Note(c)
    /\ UNCHANGED <<balance, active, requestVars>>

\* The body ended, or it or the client's connection broke (an event).
EndStream(c) ==
    /\ Goto(c, "stream", "complete")
    /\ Note(c) \/ UNCHANGED journalVars
    /\ UNCHANGED <<balance, active, key, try, gone, status, served, paid>>

\* A status nobody wrote counts as 200.  complete() makes the record final
\* and writes its stats line; only a request past the authentication, with
\* a 2xx, goes on to be charged.
Effective(s) == IF s = "none" THEN "ok" ELSE s

Complete(c) ==
    /\ Goto(c, "complete",
            IF Effective(status[c]) = "ok" THEN "charge" ELSE "done")
    /\ journal' = Touched(c)
    /\ IF Recorded(c)
       THEN /\ final' = [final EXCEPT ![c] = TRUE]
            /\ lines' = [lines EXCEPT ![c] = IF final[c] THEN @ ELSE @ + 1]
       ELSE UNCHANGED <<final, lines>>
    /\ UNCHANGED <<balance, active, payer, key, try, gone, status, served, paid>>

\* chargeFromSession asks the record who pays; without one nobody does.
FindPayer(c) ==
    /\ Goto(c, "charge",
            IF Recorded(c) /\ payer[c] # NoUser THEN "debit" ELSE "done")
    /\ UNCHANGED <<balance, active, journalVars,
                   key, try, gone, status, served, paid>>

\* (mutant) What the price table says is charged, nothing included.
ChargeAsPriced(cost) == cost

\* What pricing makes of the usage, the minimum when that is less.
Charge(cost) == IF cost < MinCharge THEN MinCharge ELSE cost

\* (mutant) A charge that went through may be tried again.
DebitTwice(c, cost) ==
    /\ pc[c] = "debit"
    /\ \E next \in {"debit", "annotate"} : pc' = [pc EXCEPT ![c] = next]
    /\ Money!Debit(payer[c], Charge(cost))
    /\ paid' = [paid EXCEPT ![c] = @ + Charge(cost)]
    /\ UNCHANGED <<active, journalVars, key, try, gone, status, served>>

\* Debit takes the charge, or the log refuses it and nothing is taken.
Debit(c, cost) ==
    /\ \/ /\ Goto(c, "debit", "annotate")
          /\ Money!Debit(payer[c], Charge(cost))
          /\ paid' = [paid EXCEPT ![c] = @ + Charge(cost)]
       \/ /\ DebitMayFail
          /\ Goto(c, "debit", "done")
          /\ UNCHANGED <<balance, paid>>
    /\ UNCHANGED <<active, journalVars, key, try, gone, status, served>>

\* (mutant) A record that was final already gets another line.
AnnotateAgain(c) ==
    /\ Goto(c, "annotate", "done")
    /\ journal' = Touched(c)
    /\ lines' = [lines EXCEPT ![c] = IF Recorded(c) THEN @ + 1 ELSE @]
    /\ UNCHANGED <<balance, active, payer, final,
                   key, try, gone, status, served, paid>>

\* The cost goes into the record, which was final before: no second line.
Annotate(c) ==
    /\ Goto(c, "annotate", "done")
    /\ journal' = Touched(c)
    /\ IF Recorded(c)
       THEN lines' = [lines EXCEPT ![c] = IF final[c] THEN @ ELSE @ + 1]
       ELSE UNCHANGED lines
    /\ UNCHANGED <<balance, active, payer, final,
                   key, try, gone, status, served, paid>>

\* The request is over, the slot is free again.
Leave(c) ==
    /\ Goto(c, "done", "idle")
    /\ journal' = [i \in DOMAIN journal |->
                     IF journal[i] = c THEN Old ELSE journal[i]]
    /\ payer' = [payer EXCEPT ![c] = NoUser]
    /\ final' = [final EXCEPT ![c] = FALSE]
    /\ lines' = [lines EXCEPT ![c] = 0]
    /\ try' = [try EXCEPT ![c] = 1]
    /\ gone' = [gone EXCEPT ![c] = FALSE]
    /\ status' = [status EXCEPT ![c] = "none"]
    /\ served' = [served EXCEPT ![c] = FALSE]
    /\ paid' = [paid EXCEPT ![c] = 0]
    /\ key' = [key EXCEPT ![c] = NoKey]
    /\ UNCHANGED <<balance, active>>

\* The client closes the connection.
HangUp(c) ==
    /\ pc[c] \notin {"idle", "done"}
    /\ ~gone[c]
    /\ gone' = [gone EXCEPT ![c] = TRUE]
    /\ UNCHANGED <<balance, active, journalVars,
                   pc, key, try, status, served, paid>>

\* serveTopup credits a user, /v1/keys revokes a key.
Topup(u, n) ==
    /\ balance[u] + n <= MaxBalance
    /\ Money!Credit(u, n)
    /\ UNCHANGED <<active, journalVars, requestVars>>

RevokeKey(k) ==
    /\ k \in active
    /\ active' = active \ {k}
    /\ UNCHANGED <<balance, journalVars, requestVars>>

\* What the gateway does about a request, once it runs.
Handle(c) ==
    \/ Authenticate(c) \/ CheckFunds(c) \/ TagPayer(c) \/ Route(c)
    \/ \E a \in Answers : Attempt(c, a)
    \/ EndStream(c) \/ Complete(c) \/ FindPayer(c)
    \/ \E cost \in 0 .. MaxCost : Debit(c, cost)
    \/ Annotate(c) \/ Leave(c)

Next ==
    \/ \E c \in Clients :
          \/ \E k \in Keys : Start(c, k)
          \/ Handle(c) \/ Chunk(c) \/ HangUp(c)
    \/ \E u \in Users, n \in Credits : Topup(u, n)
    \/ \E k \in Keys : RevokeKey(k)

Spec == Init /\ [][Next]_vars

(***************************************************************************)
(* A request waits for its client's body, or for an upstream, as long as   *)
(* they please: the server sets no deadline.  Once the client hung up, its *)
(* context is cancelled and every such wait returns; all other steps are   *)
(* the gateway's own.                                                      *)
(***************************************************************************)
Waits(c) == pc[c] \in {"route", "try", "stream"} /\ ~gone[c]

Fairness == \A c \in Clients : WF_vars(Handle(c) /\ ~Waits(c))

FairSpec == Spec /\ Fairness

-----------------------------------------------------------------------------
(* Every variable stays within its type; the journal never outgrows        *)
(* maxSessionCards, and holds a running request at most once (evictLocked, *)
(* updateRequest).                                                         *)
TypeOK ==
    /\ balance \in [Users -> Int] /\ active \subseteq Keys
    /\ journal \in Seq(Clients \cup {Old}) /\ Len(journal) <= MaxCards
    /\ \A i, j \in DOMAIN journal :
          journal[i] = journal[j] /\ journal[i] # Old => i = j
    /\ payer \in [Clients -> Users \cup {NoUser}]
    /\ final \in [Clients -> BOOLEAN] /\ lines \in [Clients -> Nat]
    /\ pc \in [Clients -> Places] /\ key \in [Clients -> Keys \cup {NoKey}]
    /\ try \in [Clients -> 1 .. NumUpstreams]
    /\ gone \in [Clients -> BOOLEAN] /\ status \in [Clients -> Statuses]
    /\ served \in [Clients -> BOOLEAN] /\ paid \in [Clients -> Nat]

\* Past the balance check, not yet charged and not yet failed.
Owes(c) == \/ pc[c] \in {"tag", "route", "try", "stream", "charge", "debit"}
           \/ pc[c] = "complete" /\ status[c] # "error"

OwingOf(u) == {c \in Clients : Owes(c) /\ Owner[key[c]] = u}

(* The balance is checked long before it is debited and Debit lets it go   *)
(* negative: "the next call is rejected by auth middleware"                *)
(* (wallet.go:363-365).  How far it can go is bounded: a user falls into   *)
(* debt by the cost of the requests that were in flight together, and by   *)
(* no more however many requests follow.  A slot that still owes leaves    *)
(* that much more of the allowance.                                        *)
OverdraftBounded ==
    \A u \in Users :
        balance[u] + MaxCost * (Cardinality(Clients) - Cardinality(OwingOf(u))) > 0

(* A 2xx from an upstream costs at least the minimum, as long as its       *)
(* record stayed in the journal and the wallet's log took the debit        *)
(* (access_log.go:92-99, charge.go:38-75).                                 *)
ServedIsPaid ==
    \A c \in Clients :
        pc[c] = "done" /\ served[c] /\ Recorded(c) /\ ~DebitMayFail
            => paid[c] >= MinCharge

(* A request that stayed in the journal has exactly one line in the stats  *)
(* log when it is over, though its record is updated again, by the charge, *)
(* after it became final (sessions.go:474-476).                            *)
OneStatsLine ==
    \A c \in Clients :
        /\ lines[c] <= 1
        /\ pc[c] = "done" /\ Recorded(c) => lines[c] = 1

(* Money leaves an account only as the one charge of a request that was    *)
(* admitted with a key of that account (payments.go:251-284,               *)
(* charge.go:38-72): never for a stranger's request, never twice.          *)
EveryDebitIsOneCharge ==
    [][\A u \in Users : balance'[u] < balance[u] =>
          \E c \in Clients :
              /\ pc[c] = "debit" /\ key[c] \in Keys /\ Owner[key[c]] = u
              /\ paid[c] = 0 /\ paid'[c] = balance[u] - balance'[u]]_vars

(* Whoever hangs up is let go: the request of a client that left runs to   *)
(* its end (request contexts reach Client.Do and the copy of the body,     *)
(* proxy.go:1317-1386).                                                    *)
LeftRequestsEnd == \A c \in Clients : gone[c] ~> pc[c] = "idle"
=============================================================================
