-------------------------------- MODULE Stats --------------------------------
(***************************************************************************)
(* What is made of the history of requests: the statistics page            *)
(* (sessionHub.stats in stats.go) and the roll-ups per user and per key    *)
(* (/payments/users and /payments/keys in payments.go).                    *)
(*                                                                         *)
(* The statistics copy the history under the hub's lock and are then a     *)
(* function of the copy.  The roll-ups combine the hub with the wallet,    *)
(* one lock after the other: the page of the keys copies the history and   *)
(* lists the keys afterwards, the page of the users lists the users and    *)
(* goes through the history once for each of them.  Requests end, and      *)
(* keys are issued and revoked, in between.  Loading a page changes        *)
(* nothing, so one load at a time is enough, and what holds of the         *)
(* statistics is stated when none is going on.                             *)
(*                                                                         *)
(* Numbers stand for addresses and for the order of key prefixes.          *)
(***************************************************************************)
EXTENDS Chart, FiniteSetsExt, SequencesExt

CONSTANTS Users,       \* addresses, in their order
          Keys,        \* API keys, in the order of their prefixes
          Owner,       \* Owner[k]: whom key k would be issued to
          NoKey,       \* the key of a request that was refused without one
          Kinds,       \* what requests are like: status class, state,
                       \* upstream, model, tokens, key, duration
          Other,       \* the label of the row for everything else
          Rate,        \* Rate[m]: what a token of model m costs
          Windows,     \* the windows a page offers, 0 is all of the time
          Anyone,      \* no owner is asked for
          TopN,        \* rows of a breakdown (statsTopN)
          MaxDays,     \* rows of the table of days (30)
          Early,       \* keys the wallet knows from its file
          Times,       \* bound: times there are, no two in between
          Balances,    \* bound: balances of a listed user
          MaxEntries   \* bound: requests in the history

ASSUME StatsAssumption ==
    /\ Users \subseteq Nat /\ Keys \subseteq Nat
    /\ Owner \in [Keys -> Users]
    /\ NoKey \notin Keys /\ Anyone \notin Users
    /\ TopN \in Nat \ {0} /\ MaxDays \in Nat \ {0}
    /\ Early \in SUBSET Keys /\ IsFiniteSet(Early)
    /\ Times \subseteq Nat /\ 0 \in Times
    /\ Balances \subseteq Int /\ MaxEntries \in Nat
    /\ \A kind \in Kinds :
          /\ kind.input \in Nat /\ kind.output \in Nat /\ kind.cached \in Nat
          /\ kind.took \in Nat /\ kind.key \in Keys \cup {NoKey}
          /\ Rate[kind.model] \in Nat

VARIABLES now,      \* the time
          history,  \* hub.history: [kind, started], in the order they ended
          issued,   \* keys the wallet knows
          active,   \* keys that are not revoked
          page      \* the roll-up that is being loaded

vars == <<now, history, issued, active, page>>

Registered == {Owner[k] : k \in issued}

-----------------------------------------------------------------------------
(* The history.                                                            *)

Kind(i) == history[i].kind

IsError(kind) ==
    kind.status \in {"4xx", "5xx"}
        \/ kind.state \in {"client closed", "timed out", "interrupted"}

\* statsCutoff: the earliest start a window includes; no start is before 0.
Cutoff(window) == IF window = 0 \/ window > now THEN 0 ELSE now - window

\* The entries a view with that cutoff looks at.
Since(cutoff) == {i \in DOMAIN history : history[i].started >= cutoff}

\* pricingCost, with one rate for all tokens of a model (see Pricing).
Cost(kind) == Rate[kind.model] * (kind.input + kind.output + kind.cached)

Tokens(kind) == kind.input + kind.output

Errors(E) == Cardinality({i \in E : IsError(Kind(i))})

Total(E, Of(_)) == SumFunction([i \in E |-> Of(Kind(i))])

-----------------------------------------------------------------------------
(* The statistics page, as functions of the entries E.                     *)

Group(E, field, name) == {i \in E : Kind(i)[field] = name}

Names(E, field) == {Kind(i)[field] : i \in E}

Counts(E, field) ==
    [n \in Names(E, field) |-> Cardinality(Group(E, field, n))]

\* What may be left of a set when it is sorted by weight and cut off: equal
\* weights come in any order.
Top(S, Weight(_)) ==
    {K \in SUBSET S :
        /\ Cardinality(K) = IF Cardinality(S) > TopN THEN TopN
                                                     ELSE Cardinality(S)
        /\ \A n \in K, m \in S \ K : Weight(m) <= Weight(n)}

\* (mutant) What is not in the list is dropped.
BarsOfTop(counts, K) == [shown |-> [n \in K |-> counts[n]], others |-> 0]

\* makeBars: the names K that made it, and a row for the others, which takes
\* the place of a name that is called like it.
Bars(counts, K) ==
    LET others == SumFunctionOnSet(counts, DOMAIN counts \ K)
    IN  [shown |-> [n \in K |-> IF n = Other /\ others > 0 THEN others
                                                          ELSE counts[n]],
         others |-> others]

\* statusBreakdown, stateBreakdown, nameBreakdown.
Breakdowns(E, field) ==
    LET counts == Counts(E, field)
    IN  {Bars(counts, K) : K \in Top(DOMAIN counts, LAMBDA n : counts[n])}

\* upstreamRows.
UpstreamRows(E) ==
    [u \in Names(E, "upstream") |->
        LET G == Group(E, "upstream", u)
        IN  [requests |-> Cardinality(G), errors |-> Errors(G),
             cost |-> Total(G, Cost)]]

\* dailyRows: the latest days that had a request.
DayOf(i) == history[i].started \div Day

DailyRows(E) ==
    LET days == {DayOf(i) : i \in E}
        late == {d \in days : Cardinality({e \in days : e > d}) < MaxDays}
    IN  [d \in late |->
            LET G == {i \in E : DayOf(i) = d}
            IN  [requests |-> Cardinality(G), errors |-> Errors(G),
                 cost |-> Total(G, Cost)]]

\* modelRows: models by the tokens of their requests; the row for the others
\* is there only if they used any.
ModelRows(E, K) ==
    LET Row(G) == [requests |-> Cardinality(G), tokens |-> Total(G, Tokens),
                   cost |-> Total(G, Cost)]
        rest == Row({i \in E : Kind(i).model \notin K})
    IN  [shown |-> [m \in K |-> Row(Group(E, "model", m))],
         others |-> IF rest.tokens > 0 THEN {rest} ELSE {}]

ModelTables(E) ==
    LET Used(m) == Total(Group(E, "model", m), Tokens)
    IN  {ModelRows(E, K) :
            K \in Top({m \in Names(E, "model") : Used(m) > 0}, Used)}

\* bucketSeries.
First(E) == Min({history[i].started : i \in E})

Span(E) == Max({history[i].started : i \in E}) - First(E)

Buckets(E) ==
    LET first == First(E)
        span == Span(E)
        width == PickWidth(span)
    IN  [b \in 0..(NumBars(span, width) - 1) |->
            LET G == {i \in E :
                         BarOf(history[i].started - first, span, width) = b}
            IN  [from |-> first + b * width, members |-> G,
                 requests |-> Cardinality(G), errors |-> Errors(G)]]

\* nearestRankPercentile of a sorted list (95 for the p95): the ceiling of
\* p hundredths of its length, and the first at least.
Percentile(sorted, p) ==
    LET rank == (p * Len(sorted) + 99) \div 100
    IN  sorted[IF rank < 1 THEN 1 ELSE rank]

Durations(E) ==
    LET timed == {i \in E : Kind(i).took > 0}
        order == CHOOSE s \in SetToSeqs(timed) :
                    \A m, n \in DOMAIN s :
                       m < n => Kind(s[m]).took <= Kind(s[n]).took
    IN  [n \in DOMAIN order |-> Kind(order[n]).took]

-----------------------------------------------------------------------------
(* The roll-ups.                                                           *)

\* (mutant) A key that was revoked is not listed.
ListedActive(owner) ==
    {k \in active : owner \in Users => Owner[k] = owner}

\* Wallet.ListKeys: revoked ones too; of everybody if no address is given.
Listed(owner) == {k \in issued : owner \in Users => Owner[k] = owner}

LastUsed(G) == IF G = {} THEN 0
               ELSE Max({history[i].started + Kind(i).took : i \in G})

\* One row of /payments/keys: what the copy C of the history has of a key.
KeyRow(k, C) ==
    LET G == Group(C, "key", k)
    IN  [key |-> k, active |-> k \in active,
         requests |-> Cardinality(G), errors |-> Errors(G)]

\* One row of /payments/users, from the history at that moment.
UserEntries(u, cutoff) ==
    {i \in Since(cutoff) : Kind(i).key # NoKey /\ Owner[Kind(i).key] = u}

UserRow(u, balance, cutoff) ==
    LET G == UserEntries(u, cutoff)
    IN  [user |-> u, balance |-> balance, last |-> LastUsed(G),
         requests |-> Cardinality(G), errors |-> Errors(G)]

\* Whether row r has to go behind row s.
KeysSwap(r, s) ==
    IF r.active # s.active THEN ~r.active
    ELSE IF r.requests # s.requests THEN r.requests < s.requests
    ELSE r.key > s.key

UsersSwap(r, s) ==
    IF r.last # s.last THEN r.last < s.last
    ELSE IF r.balance # s.balance THEN r.balance < s.balance
    ELSE r.user > s.user

\* The pairs of rows of which the first has to go behind the second.
KeysBehind(rows) ==
    {p \in ToSet(rows) \X ToSet(rows) : KeysSwap(p[1], p[2])}

UsersBehind(rows) ==
    {p \in ToSet(rows) \X ToSet(rows) : UsersSwap(p[1], p[2])}

\* Place i is compared with every later one, and changes places with it at
\* once.
Pass(rows, i, behind) ==
    LET after[j \in i .. Len(rows)] ==
          IF j = i THEN rows
          ELSE LET s == after[j - 1]
               IN  IF <<s[i], s[j]>> \in behind
                   THEN [s EXCEPT ![i] = s[j], ![j] = s[i]] ELSE s
    IN  after[Len(rows)]

\* The sort of both pages.
ExchangeSort(rows, behind) ==
    LET sorted[i \in 0 .. Len(rows)] ==
          IF i = 0 THEN rows ELSE Pass(sorted[i - 1], i, behind)
    IN  sorted[Len(rows)]

-----------------------------------------------------------------------------
Idle == [at |-> "idle"]

Init == /\ now = 0
        /\ history = <<>>
        /\ issued = Early /\ active = Early
        /\ page = Idle

Tick == \E t \in Times :
           /\ t > now /\ \A u \in Times : u > now => t <= u
           /\ now' = t
           /\ UNCHANGED <<history, issued, active, page>>

\* A request ends and is counted, whenever it started; its key was accepted
\* before, so the wallet knows it.
Count(kind, started) ==
    /\ Len(history) < MaxEntries
    /\ started <= now
    /\ kind.key \in issued \cup {NoKey}
    /\ history' = Append(history, [kind |-> kind, started |-> started])
    /\ UNCHANGED <<now, issued, active, page>>

IssueKey(k) ==
    /\ k \notin issued
    /\ issued' = issued \cup {k} /\ active' = active \cup {k}
    /\ UNCHANGED <<now, history, page>>

RevokeKey(k) ==
    /\ k \in active
    /\ active' = active \ {k}
    /\ UNCHANGED <<now, history, issued, page>>

\* /payments/keys copies the entries of the window and of the owner ...
CopyHistory(window, owner) ==
    /\ page = Idle
    /\ page' = [at |-> "copied", owner |-> owner,
                copy |-> {i \in Since(Cutoff(window)) :
                             owner = Anyone
                             \/ /\ Kind(i).key # NoKey
                                /\ Owner[Kind(i).key] = owner}]
    /\ UNCHANGED <<now, history, issued, active>>

\* ... asks the wallet for its keys, and sorts the rows.
ListKeys ==
    /\ page.at = "copied"
    /\ \E order \in SetToSeqs(Listed(page.owner)) :
          LET rows == [n \in DOMAIN order |-> KeyRow(order[n], page.copy)]
          IN  page' = [at |-> "keys", owner |-> page.owner, copy |-> page.copy,
                       rows |-> ExchangeSort(rows, KeysBehind(rows))]
    /\ UNCHANGED <<now, history, issued, active>>

\* /payments/users asks the wallet for its users and what they have ...
\* (due is for the properties: the requests counted by now.)
ListUsers(window) ==
    /\ page = Idle
    /\ \E balance \in [Registered -> Balances] :
          page' = [at |-> "listed", cutoff |-> Cutoff(window),
                   todo |-> Registered, balance |-> balance, rows |-> <<>>,
                   due |-> {i \in Since(Cutoff(window)) :
                               Kind(i).key # NoKey}]
    /\ UNCHANGED <<now, history, issued, active>>

\* ... counts the requests of one after the other ...
CountUser ==
    /\ page.at = "listed" /\ page.todo # {}
    /\ \E u \in page.todo :
          page' = [page EXCEPT !.todo = @ \ {u},
                               !.rows = Append(@, UserRow(u, page.balance[u],
                                                          page.cutoff))]
    /\ UNCHANGED <<now, history, issued, active>>

\* ... and sorts the rows.
SortUsers ==
    /\ page.at = "listed" /\ page.todo = {}
    /\ page' = [at |-> "users", due |-> page.due,
                rows |-> ExchangeSort(page.rows, UsersBehind(page.rows))]
    /\ UNCHANGED <<now, history, issued, active>>

Answered ==
    /\ page.at \in {"keys", "users"}
    /\ page' = Idle
    /\ UNCHANGED <<now, history, issued, active>>

Next ==
    \/ Tick
    \/ \E kind \in Kinds, t \in Times : Count(kind, t)
    \/ \E k \in Keys : IssueKey(k) \/ RevokeKey(k)
    \/ \E w \in Windows :
          \/ ListUsers(w)
          \/ \E owner \in Users \cup {Anyone} : CopyHistory(w, owner)
    \/ ListKeys \/ CountUser \/ SortUsers \/ Answered

Spec == Init /\ [][Next]_vars

-----------------------------------------------------------------------------
(* Properties.                                                             *)

SumOf(rows, field) == SumFunction([x \in DOMAIN rows |-> rows[x][field]])

\* Every way the statistics page breaks its requests down counts each of
\* them once: the bars (unless something is called like the label of the
\* rest), the upstreams and the chart add up to the requests, errors and
\* cost at the top, and the days to those of the days that are shown.
BreakdownsAddUp ==
    page = Idle => \A w \in Windows :
        LET E == Since(Cutoff(w)) IN E # {} =>
        /\ \A field \in {"status", "state", "upstream", "model"} :
              Other \in Names(E, field) \/
                 \A bars \in Breakdowns(E, field) :
                    SumFunction(bars.shown) + bars.others = Cardinality(E)
        /\ SumOf(UpstreamRows(E), "requests") = Cardinality(E)
        /\ SumOf(UpstreamRows(E), "errors") = Errors(E)
        /\ SumOf(UpstreamRows(E), "cost") = Total(E, Cost)
        /\ SumOf(Buckets(E), "requests") = Cardinality(E)
        /\ SumOf(Buckets(E), "errors") = Errors(E)
        /\ LET rows == DailyRows(E)
               shown == {i \in E : DayOf(i) >= Min(DOMAIN rows)}
           IN  /\ SumOf(rows, "requests") = Cardinality(shown)
               /\ SumOf(rows, "cost") = Total(shown, Cost)
               /\ shown = E \/ Cardinality(DOMAIN rows) = MaxDays

\* The table of models shows every token of a prompt or an answer, and what
\* it leaves out of the cost is that of models of which only cached tokens
\* were reported.
ModelTableAddsUp ==
    page = Idle => \A w \in Windows :
        LET E == Since(Cutoff(w))
            CachedOnly == {i \in E :
                Total(Group(E, "model", Kind(i).model), Tokens) = 0}
        IN  \A table \in ModelTables(E) :
               LET Both(field) ==
                       SumOf(table.shown, field)
                       + SumFunction([r \in table.others |-> r[field]])
               IN  /\ Both("tokens") = Total(E, Tokens)
                   /\ Both("cost") <= Total(E, Cost)
                   /\ Both("cost") >= Total(E \ CachedOnly, Cost)

\* The chart never has more bars than fit, a request is drawn in the bar of
\* the time it started at, so that clamping it never moves it, and at least
\* 95 of 100 requests took no longer than the p95.
ChartFits ==
    page = Idle => \A w \in Windows :
        LET E == Since(Cutoff(w)) IN E # {} =>
        LET bars == Buckets(E)
            width == PickWidth(Span(E))
            took == Durations(E)
        IN  /\ Cardinality(DOMAIN bars) <= MaxBars
            /\ \A b \in DOMAIN bars : \A i \in bars[b].members :
                  /\ bars[b].from <= history[i].started
                  /\ history[i].started < bars[b].from + width
            /\ took # <<>> =>
                  100 * Cardinality({n \in DOMAIN took :
                                        took[n] <= Percentile(took, 95)})
                     >= 95 * Len(took)

\* The roll-ups miss no request.  On the page of the keys each request it
\* copied is in the row of its key, although the keys are listed later; on
\* the page of the users are at least those that were counted when the page
\* was asked for.
RollupsCoverHistory ==
    /\ page.at = "keys" =>
          SumOf(page.rows, "requests")
             = Cardinality({i \in page.copy : Kind(i).key # NoKey})
    /\ page.at = "users" =>
          SumOf(page.rows, "requests")
             >= Cardinality(page.due)

\* Both pages are sorted when they are answered, in whatever order the maps
\* of the wallet gave their rows: active keys first, then by the number of
\* requests and by prefix; users by their last use, balance and address.
RowsAreRanked ==
    /\ page.at = "keys" =>
          \A m, n \in DOMAIN page.rows : m < n =>
             LET r == page.rows[m]
                 s == page.rows[n]
             IN  /\ s.active => r.active
                 /\ r.active = s.active => r.requests >= s.requests
                 /\ r.active = s.active /\ r.requests = s.requests =>
                       r.key < s.key
    /\ page.at = "users" =>
          \A m, n \in DOMAIN page.rows : m < n =>
             LET r == page.rows[m]
                 s == page.rows[n]
             IN  /\ r.last >= s.last
                 /\ r.last = s.last => r.balance >= s.balance
                 /\ r.last = s.last /\ r.balance = s.balance =>
                       r.user < s.user

\* Nothing is lost or counted twice on the statistics page, whichever way it
\* breaks down its requests (stats.go:840-1152, 1346-1409).
StatisticsAddUp == BreakdownsAddUp /\ ModelTableAddsUp

\* The pages of the keys and of the users miss no request that was counted
\* in time, and show their rows in their order (payments.go:136-232, 334-450).
RollupsAddUp == RollupsCoverHistory /\ RowsAreRanked
=============================================================================
