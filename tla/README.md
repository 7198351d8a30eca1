# Verification of avarouter

avarouter is a single-process HTTP gateway in front of LLM providers. A user
tops up a prepaid balance with a signed USDC payment, mints API keys, and sends
requests with them; the gateway forwards each request to the first upstream that
answers, records it in a journal, and charges the owner of the key for what the
answer used. This directory holds TLA+ models of that program, the TLC runs that
check them and the theorems TLAPS proves about them. Line numbers refer to
`src/`.

## 1. Inventory

| Component | Code | State | Operations | What is hard about it |
|---|---|---|---|---|
| Wallet | `wallet.go` | `users`, `keys`, the log `wallet.jsonl` | RegisterUser, Credit, Debit, GenerateKey, RotateKey, RevokeByPrefix, replay | each write may fail and is rolled back, or ignored, differently; memory and replay follow different rules; restarts |
| Login sessions | `session.go`, `auth.go` | `sessions`, lines in `wallet.jsonl` | Create, Lookup, Revoke, Sweep, Replay | lines are written after the lock was released, uses are not written; two expiry times |
| Management calls | `manage_auth.go`, `keys.go` | none: a call acts on the wallet | prove by signature or token, issue, rotate, revoke | proved first, acted on later: the time window, the session and the account are not looked at again |
| Hot path | `access_log.go`, `payments.go`, `proxy.go`, `charge.go` | per request: status, attempt, payer; shared: wallet, journal | authenticate, check funds, try upstreams, stream, complete, charge | check and charge far apart; concurrent requests of one user; clients that leave; journal records evicted meanwhile |
| Journal and hub | `sessions.go`, `payload.go` | records, stats history, subscribers, payload files | start, updateRequest, complete, evict, publish, subscribe | updates out of order with eviction; coalesced wake-ups; files written outside the lock |
| Topup and settlement | `topup.go`, `usdc.go` | none of its own: wallet and chain | register, verify, settle, credit | a transaction may be mined after its answer was lost; equal nonces; the same payment again |
| Usage and prices | `stats.go` | scanner state, history, price table | scan, merge, cost, load, backfill | keys and numbers split over chunks; records counted twice |
| Statistics and roll-ups | `stats.go`, `payments.go` | none: views of history and wallet | stats, /payments/users, /payments/keys | cut-offs, clamped indices, rows for the rest; hub and wallet read one after the other |
| Configuration | `proxy.go`, `run.go` | settings, price table, secrets, file | updateConfig, updatePricing, updateSecrets | read, edit and replace are separate lock sections |
| Routing | `proxy.go` | per request: a copy of the lists | routeUpstreams, selectors, rewrites, retries | compiled rules shared with a save that validates them; secrets read late; what may be sent again |
| Log hub | `logs.go` | history, subscribers' channels, `logs.jsonl` | Write, subscribe, unsubscribe | full channels drop lines; a page replays the history while lines arrive |
| Pages, start-up, clients | `page.go`, `templates.go`, `assets.go`, `init_payment.go`, `run.go`, `cmd/`, `demo/`, `skills/` | none | rendering, wiring, examples | - |

How they interact: `requestLogger` opens a journal record and puts it into the
request's context; `ServeHTTP` dispatches to an endpoint or to the hot path;
`bearerAuth` asks the wallet and writes the payer into the journal record; when
the handler has returned, `requestLogger` completes the record (which writes its
stats line) and calls `chargeFromSession`, which reads the payer *from the
record* and debits the wallet. `serveTopup` registers, settles on chain and
credits. Login sessions live beside the wallet and share its log file; a
management call asks them, or checks a signature, and then changes the wallet's
keys. The saves of the configuration page replace the lists that requests are
routed by. The statistics page and the roll-ups read what the journal counted
and what the wallet knows.

What makes each component correct is stated by its properties (section 4);
what can go wrong, at which line, is the list of hazards in `PROJECT.json`.

## 2. Modules

| Module | Models | Notes |
|---|---|---|
| `Ledger` | what the wallet promises about money | abstract; also the balances of `HotPath` |
| `KeyRing` | what the wallet promises about keys, and what it may fail to record | abstract |
| `Wallet` | `wallet.go` | implements `Ledger` and `KeyRing`, whichever writes fail |
| `Sessions` | `session.go` and its callers | |
| `Manage` | `manage_auth.go`, `keys.go`, `POST /v1/auth` | composes calls with `Sessions` and `KeyRing` |
| `HotPath` | a proxied request from log to charge | composes bearer authentication, proxy, journal and charge over the balances of `Ledger` |
| `Topup` | `topup.go` and `usdc.go` over an external chain | |
| `Config` | the saves of `proxy.go`, the start of `run.go` | |
| `Router` | selectors, retries and rewrites of `proxy.go` | composes a request with `Config` |
| `Journal` | records, payload files and stats of `sessions.go`, `payload.go`, `stats.go` | what the hub keeps, over restarts; `HotPath` has the same records as the charge sees them |
| `Feeds` | `logs.go`, `serveLogs`, `serveSessions`, `serveStats` | what open pages get to see |
| `Pricing` | `pricingCost` of `stats.go`, the amount of `charge.go` | pure |
| `Usage` | the usage scanner of `stats.go` | an algorithm, against what an answer says; composed with `Pricing` |
| `Chart` | the time axis of the statistics page | pure |
| `Stats` | the statistics of `stats.go`, the roll-ups of `payments.go` | uses `Chart` |
| `MCWallet`, `MCSessions`, `MCHotPath`, `MCTopup`, `MCConfig`, `MCJournal`, `MCFeeds`, `MCUsage`, `MCStats` | instances for TLC | `MCSessions` is one of `Manage`, `MCConfig` one of `Router` |
| `WalletProofs`, `SessionsProofs`, `HotPathProofs`, `TopupProofs`, `ConfigProofs`, `HubProofs`, `UsageProofs`, `StatsProofs` | theorems | `SessionsProofs` also about `Manage`, `ConfigProofs` also about `Router`, `HubProofs` about `Journal` and `Feeds`, `HotPathProofs` and `UsageProofs` also about `Pricing`, `StatsProofs` also about `Chart` |

### Wallet
`mem` is the pair of maps `users` and `keys` of the process. The log is append
only and replay is a left fold over it, so the file is represented by what
replaying it now would give, `disk`: appending a line applies that line's replay
step, and `Restart` copies `disk` to `mem`. Every method holds `Wallet.mu`
throughout and is one step. `Outcomes` says what a write may do. A crash inside
a method is a method whose remaining writes fail, followed by `Restart`.
`RegisterNew`, `DebitKnown` and `RevokeByPrefix` undo their change completely
when their line fails, so that case is no step; `Credit`, `GenerateKey` and
`RotateKey` undo a part, `UpdatePayTo` and the revocations of a rotation ignore
the error. `rank` abstracts `issuedAt` to the order of key_issue lines; memory
may have an earlier time than the file (`MaxLag`), because the code reads the
clock before it takes the lock. A torn last line, which stops the gateway from
starting, is not modelled. In the refinement of `KeyRing`, `unsure` is mapped to
the keys that are active in the file and not in memory: the ones whose
revocation line `RotateKey` tried in vain.

### Sessions
`sessions` and `disk` are the table and its replay, as above. `Create` and
`Revoke` write their line after they released the lock, so a login is `Create`,
`LogCreate` and a logout `Logout` (the look-up), `Revoke`, `LogRevoke`; `Use` is
the look-up of a management call. A logout whose look-up fails is answered ok as
"already gone" (`AlreadyGone`), whoever removed the session and however far that
logout has got. `shown`, `ended`, `unwritten`, `born` and `used` are history
variables: which tokens a client got to see, for which a logout was answered ok,
which were removed from the table by a logout whose line failed or that a restart
cut off before its line, and when a token was created and last looked up. Time is a
counter.

### Manage
`call` holds how far a management call has got. `Arrive` is everything up to the
reading of the body (the headers and the time window), `ReadBody` what follows it (the
signature, the account, and for a login the session itself), `ArriveBearer` the
same for a call with a token, and `Act` the handler's call of the wallet. A message
is the record of what is asked for, when and for whom; a signature is a message
and who signed it, so the comparison of `Signs` is the recovery of the signer
from the hash. The gateway keeps nothing of a signature, so a call may `Arrive`
again. The key operations are those of `KeyRing`, which `Wallet` implements;
here their lines do not fail. `proof`, `arrived` and `gone` (the tokens logged
out by then, by a logout that was written down) are remembered for the property and
decide nothing.

### HotPath
A request is a program counter over the sections of code between two locks.
`journal` is the order of `hub.records` by last seen time, `payer`, `final` and
`lines` are what the record of a slot's request holds; a record whose request is
over becomes `Old`. Upstream answers are nondeterministic (`Answers`). A cost is
any number up to `MaxCost`: pricing is abstract here. Balances are negative when
the code lets them be.

### Topup
The request's steps are the sections between calls that wait: register, verify,
make the transaction, send it, wait for the receipt, credit. The chain is
external: a pool ordered by nonce, replacement by a higher gas price, and a
contract that executes an authorization once and before it expires. A node
accepts a transaction and its answer may be lost; `GiveUp` is any failing call,
either deadline, or the client's leaving. Whether the gateway has a settlement
key (`serverKey`) is fixed at the start of a behaviour.

### Config
A save is two steps, as in the code: it reads what it does not change under the
read lock of `Proxy.Mu` (`ReadConfig`, `ReadPricing`), and writes the file and
the running settings under the write lock (`SaveConfig`, `SavePricing`). The
upstreams and the app selectors are handled alike and stand together as one
list, told apart by the secret it refers to. A failing write leaves the file as
it was or truncated. `stale` is a history variable: whether anything was saved
since a save read. The debug flag, and the rewriting of literal credentials a
hand-written file may hold at start, are left out.

### Router
`request` is a request between `ServeHTTP`'s copy of the lists under the lock
(`Copy`) and its answer. It keeps the name of the list it copied; `Table` says what
is in it. `Route` evaluates the selectors, and a rule's compiled regex may be
missing at that moment if a save that keeps the list is validating it
(`Validated`); the matchers then compile the rule themselves. Each
attempt at an upstream is a step that reads the secrets of that moment. A text is a
sequence of letters, so that prefixes and case are real; a JSON document maps the
paths of its fields to values; a rewrite whose field has an empty part ("a..b") makes
the objects before it and then gives up, as `setJSONPath` does; a regular expression is the set of texts it matches
within the instance. What the upstream answers is nondeterministic: fine, an error
of its own kind, or one of 502, 503 and 504.

### Journal
A record of the journal holds one request, so a record, its request and its
file share an identifier. `records`, `nextID`, `indexed` and `history` are the
hub's memory, `disk`, `bodies`, `answers` and `log` what is on disk. A step is a
section of code under the hub's lock; `setRequestBody` has three (look up the
key, write the file, note the size), and the record may be evicted between
them. `saveRecordLocked` and `persistStatsEntryLocked` ignore errors: a record's
file is left as it was, torn or written, and a torn line of `stats.jsonl`
swallows the line that follows. `Restart` reads first the stats (or, if there are
none, the final requests of the journal) and then the records, in the code's
order. Which record is the oldest is left open, except that it is never the new
one. `evicted` and `lost` are history variables.

### Feeds
Lines and changes are numbered. A log page (`reader`) replays the history it was
subscribed with and then shows what its channel holds; a page of sessions or
stats renders everything and waits for its channel of size one. A page may stall
for ever at every step. `dropped` and `since` are history variables, and `shown`
is what the browser has. Its definitions that would share a name with one of
`Journal` are called `FeedsInit`, `FeedsNext`, `FeedsTyped` and so on, because
`HubProofs` extends both.

### Usage and Pricing
An answer of one of three providers is a sequence of pieces, some of which report
usage the way that provider does, so the reference
(`Reported`) needs no scanning. Bytes are a few symbols and the keys two and three
symbols long; the scanner stays back by one less than the longer key, as in the
code (14 of 15). `Chunk` is one `feed`; `Round` is one turn of the loop of `scan`,
and `Scan` the loop, a recursive function of the position and the counts. `split` remembers whether a chunk ended within a key. `Pricing` has the
rates in micro-dollars for a token, so that costs are whole numbers; rounding is
left out.

### Chart and Stats
`history` is what the journal has counted, in the order requests ended; the
start of one is any earlier time. The statistics page copies it under the hub's
lock and is a function of the copy, so its properties are stated for every
history and window rather than as steps. Where the code sorts with equal weights,
or goes through a map, the model has every order (`Top`, `SetToSeqs`). The roll-ups
are steps, one per lock: `CopyHistory` and `ListKeys`, or `ListUsers`, one
`CountUser` for each and `SortUsers`. Their hand-written exchange sort is modelled
as it is written. `Chart` is in seconds of its own; days are the widest rung of its
ladder, and time zones are left out.

## 3. Runs

All passing runs check for deadlock.

| Run | Instance | Shows |
|---|---|---|
| `wallet_books` | 2 addresses, 3 keys, two with one prefix, stale clock, any write fails | what survives failing writes and restarts; `Ledger` and `KeyRing` are implemented |
| `sessions_restarts` | a token, 2 handlers, a management call, 2 users, 2 keys, 3 ticks, lifetime 2, idle time and window 1, logins until 1 or 3 | how long a token is good, what a logout and a restart leave; whose keys a call changes |
| `hot_path_charges` | 2 requests, 2 users, a journal of 2, top-ups and revocations | who is charged, how often, how far a balance falls |
| `hot_path_hang_up` | 2 requests, 2 upstreams, failing debits, fair | a request whose client left ends |
| `topup_settled` | with and without a key, 2 requests, 2 signed payments and one that is not, 2 account nonces, 2 gas prices, fair | a payment is credited at most once, after it moved the money; an unsigned one never; requests end |
| `config_saves` | 2 overlapping saves, 2 secrets, 2 price tables; a request over 3 lists of up to 2 selectors and 2 upstreams | the prices agree everywhere; a save nobody overtook loses nothing; a request keeps to one configuration, is sent on only unanswered, with its body rewritten |
| `journal_restarts` | 3 requests, 2 records, any write fails, restarts | who is counted, how often; what an eviction leaves |
| `feeds_shown` | a log page and a session page, a history of 2, a channel of 2, 5 lines, 3 changes | order and gaps of what is shown; wake-ups |
| `usage_scanned` | 3 providers, answers of up to 3 pieces, chunks of 1 to 4 bytes, a buffer of 13, 5 price tables | what is counted, and charged, is what is reported, unless a key was split |
| `stats_pages` | 3 requests of 4 kinds, 3 keys of 2 users, a chart of 3 bars, 1 row for a breakdown | every breakdown adds up, the chart fits, the roll-ups miss nothing |
| `topup_uncredited` | violation | section 6 |
| `usage_split_key` | violation | section 6 |

**Bounds.** Two addresses are enough to tell an operation's account from
another's; three keys give rotation and prefix revocation a key to hit, one to
spare and one with another prefix. Balances are bounded by `MaxBalance` on the
crediting side only where debts are the subject (`HotPath`), on both sides in
`Wallet`. Two concurrent requests over a journal of two records show eviction of
a running record (a third request of a freed slot pushes it out), debts of two
requests in flight, and two settlements with one nonce; two account nonces and two
gas prices allow a replacement and a retry after it. Of login tokens one is enough: each
operation of the session store touches the token it is given and no other (a
sweep is the same for each), and the theorems are about any number; two handlers
let a logout come between the login and its line, or overtake another, and a third
logout may find the session gone meanwhile. Of the times a login may ask for, 1 is
before the longest lifetime and 3 is beyond it. `MaxTime`
3 passes both session limits and the window of a signature, and leaves time for a
restart in between. One management call is enough for the same reason: calls meet
only in the wallet and the store, which others change at every step. One request
for the `Router`: requests share nothing that routing writes. Its three lists have
selectors in both orders, an upstream for one selector only, and one that needs a
secret which may be missing; its two requests have every kind of value a rule can
look at. For `Stats`, three requests give a row for the largest group, one for the
rest, and one left over by the table of days; times 0, 2 and 9 need bars of
one, of three and of six units, and put a request on the edge of a bar. Three requests
over two records evict one that runs and one that is over, and leave sequence numbers
that a restart gives out again. Five lines overflow a history and a channel of
two while a page replays. A buffer of 13
for pieces of at most 10 bytes, of which 4 arrive at once, drops bytes and loses no
piece, as the 256 KiB of the code do for objects of 64 KiB and chunks of 32 KiB.
`MaxPieces`, `MaxChunk`, `Cap`, `MaxLines`, `MaxChanges`, `MaxTxs`, `MaxCredits`, `MaxTime`, `Untils`,
`MaxBalance`, `MaxLag`, `MaxEntries`, `Times`, `Balances` and `MaxCost` are bounds of the instances, not of the
code; the proofs keep them as arbitrary parameters.

**Symmetry** is used for interchangeable slots (and tokens, users, keys, price tables) in runs
without liveness properties only.

**Fairness.** `HotPath!Fairness` is weak fairness of the gateway's own steps of
each request (a goroutine that can run does run), except while it waits for
a client or an upstream that still may take for ever: no deadline is set on
`Client.Do` or on reading a body. Once the client has left, its context is
cancelled and those waits return. `Topup!FairSpec` is weak fairness of each
request's own steps; what it waits for outside is bounded by the 60 and 90
second contexts. No fairness is assumed of clients, upstreams, or the chain.

## 4. Properties

* `Wallet`: `BalancesDurable` (a restart is invisible to money),
  `KeyOwnersRegistered` (a charge finds an account), `ImplementsLedger`,
  `ImplementsKeyRing` (a key has one owner for good, revoking it is final, and a
  restart brings back only what a rotation failed to record).
* `Sessions`: `AcceptedIsFresh` (a token is never accepted past its lifetime or
  idle time, over restarts), `LogoutIsFinal` (a token for which a logout was
  answered ok, also as "already gone", is not accepted again, over restarts, unless
  the logout that removed it was cut off before its line or could not write it),
  `SessionsDurable`.
* `Manage`: `KeysChangeAsProved` (a user's keys change only by a call that asked for
  this very change, which the user signed for a time around its arrival or which
  came with a session of the user that was neither too old then nor logged out by a
  logout that was written down). It does not say that a
  signed request acts once, or inside its window: it may act twice, and later.
* `HotPath`: `OverdraftBounded` (a balance never falls below the cost of the
  requests in flight together), `ServedIsPaid`, `OneStatsLine`,
  `EveryDebitIsOneCharge`, `LeftRequestsEnd` (liveness).
* `Topup`: `CreditedOnce` (with a key), `CreditedIsSigned`, `TopupsEnd`
  (liveness).
* `Config`: `PricesAgree` (running prices, the ones of the stats and the ones in
  the file are one table), `FreshSaveLosesNothing` (only a save that another one
  overtook can lose a secret or a list).
* `Router`: `RoutedAsConfigured` (a request tries the upstreams of the one
  configuration it started with, in order, each once, and is refused only if there
  are none), `RetriedOnlyUnanswered`, `ExhaustedHasCause` (the last error, which is
  read unchecked, exists), `RewritesTakeEffect`.
* `Journal`: `CountedOnce` and `FinalIsCounted` (the stats have every finished
  request once, over restarts and backfills, unless its line was lost),
  `EvictedIsGone` (nothing brings a record back); `TypeOK` includes
  that no two records share a sequence number.
* `Feeds`: `ShownInOrder` (no line twice or late), `NothingElseMissed` (no line is
  missed but for a full channel), `HistorySurvives` (a restart), `NoWakeupLost`
  (a page that waits shows what was last published).
* `Usage`: `NeverOvercounts` (nothing is counted that has not arrived or is only
  quoted), `WholeKeysAreCounted` (unless a key was split, everything is counted,
  however the answer was cut), `ChargedAsReported` (each reported token is charged
  once, at the rate of the longest matching rule).
* `Stats`: `StatisticsAddUp` (bars, upstreams, days, models and chart count each
  request, error and cost of the window once), `ChartFits` (no more bars than fit,
  each request in the bar of its time, and what p95 means), `RollupsAddUp` (no
  request counted in time is missing from the roll-ups, although a key may be
  issued or revoked while they load, and rows come in their order).

Each has a mutant of the code it is about, listed in `PROJECT.json`, that breaks
it; the mutated forms stand beside the definitions they replace.

## 5. Proofs

The theorems hold for every value of the constants that satisfies the named
assumption of the module.

* **Wallet.** The invariant `IInv` says that memory and file are well formed,
  agree on balances and key owners, and that every key active in memory is
  active in the file. It follows lemma by lemma from what each replay step and
  each in-memory step does to a well-formed map. From it: `TypeOK`,
  `BalancesDurable`, `KeysDurable` (a restart locks no key out),
  `KeyOwnersRegistered`, and the refinements of `Ledger` and of `KeyRing`, for any
  `Outcomes`. The step to see in the latter is the rotation: what stays in the
  file of the owner's old keys is what `KeyRing` calls unsure.
* **Sessions.** None of the properties is inductive: a restart makes the file's
  entry the accepted one, and the file gets its entry from a login half done.
  `IInv` says of all three copies that they promise no more than was given, and
  of every handler what it may assume about its token. For `LogoutIsFinal` it has
  `Final`: a token that was shown and is not accepted is `Over`, in the file as in the
  table, or a logout is about to write its removal, or its removal is `unwritten`;
  so what "already gone" was said of is one of these. It rests on `Kept`, that the file
  never grants a session more time than the table. From it: `TypeOK`,
  `AcceptedIsFresh`, `LogoutIsFinal`, `SessionsDurable`. `Manage` implements
  `Sessions` (each of its steps is one of the store's, or leaves the store
  alone), so all four hold of it; `KeysChangeAsProved` needs, besides, that
  every admitted call is still proved (`CallsProved`): a token's holder and time of
  birth stay what they were while a call with it is under way.
  `Manage` implements `KeyRing` too: so what is proved of the wallet's keys and
  what calls do to them fit together.
* **HotPath.** Requests meet in the balances and in the journal, and `IInv` has a part
  for each. `RequestInv`: a record carries the owner of the key its request
  presented, and nothing is paid before the debit. `RecordInv`: no record is in the
  journal twice, and as long as a request has one, it says how far the request is (past
  `setKey` it has a payer, completed it is final), whatever other requests add, touch
  and evict meanwhile. The overdraft bound is inductive because every request that
  passes the balance check joins the owing ones of its user, and leaves them by
  paying at most `MaxCost`. From it: `TypeOK`, `OverdraftBounded` for any number of
  slots, `EveryDebitIsOneCharge`, `ServedIsPaid`, `OneStatsLine`, and that balances
  move as in `Ledger`, which is what `Wallet` is proved to implement.
* **Topup.** `IInv` relates each credit, and each request about to credit, to a
  mined transaction that used the authorization, and shows that two requests
  never wait for the same transaction: the node refuses one it knows. `Gapless` says
  that the next nonce never falls, so that what a request sends after a long pause
  replaces a pending transaction or comes right after the last. From them: `TypeOK`,
  `CreditedOnce` and `CreditedIsSigned`, with or without a settlement key.
* **Config.** `PricesAgree` is inductive with the types;
  `FreshSaveLosesNothing` needs `DraftsAreFresh`, what a save nobody overtook
  may assume of the settings it read before it let go of the lock. From them:
  `TypeOK`, `PricesAgree`, `FreshSaveLosesNothing`. `Router` implements `Config`.
  Its own invariant relates what a request has tried, what it has left and whether
  it has a cause; from it `RoutedAsConfigured`, `RetriedOnlyUnanswered` and
  `ExhaustedHasCause`, for any lists, requests and rules. The missing regex is why
  the first is not obvious: it holds because a rule means the same without it.
  `RewritesTakeEffect` is an induction over the rewrites: `OneMoreRewrite` says what
  the next one keeps of what the earlier ones did, and rests on what `SetPath` does
  to any document (it leaves a document, leaves what is neither above nor below the
  field, and sets a field that has no empty part).
* **Journal.** None of the properties is inductive. `IInv` adds that sequence
  numbers identify records and that no indexed one is ahead of `nextID`
  (`Numbered`: a start may give old numbers out again), that a file is never
  ahead of its record (`NotAhead`: so a restart loads nothing that is not
  counted), and that a running request is in neither the index nor the stats
  (`Running`: so it is counted when it ends, and only then). From it: `TypeOK`,
  `CountedOnce`, `FinalIsCounted`, `EvictedIsGone` and `CardsBounded`.
* **Feeds.** For the log, `FeedsIInv` is about one sequence per reader: what it showed, then
  what it has yet to replay, then its channel. It is increasing, and it has every
  line since the subscription that was not dropped. A restart loses nothing because
  the history is the end of the file as long as the file has every line. For the
  session pages, a page with an empty channel has rendered what was published, also
  while it still sends what it rendered. From it: `FeedsTyped`, `ShownInOrder`,
  `NothingElseMissed`, `HistorySurvives`, `NoWakeupLost`.
* **Pricing.** `TokensPricedOnce` is arithmetic: the two ways to count cached tokens
  and the rates that may be missing come to the same sum, token by token, as long
  as a provider reports no more cached tokens than tokens. `ChargeIsPriced` puts the
  minimum under it, for any price table: what is debited is a charge as `HotPath` has it.
* **Usage.** What the scanner counts next depends on bytes that came earlier, so the
  invariant `IInv` ties its state to places in the answer. `BufInv`: the buffer holds
  the last bytes that arrived, and is full if any were dropped. `ScanInv`: the scanner
  rests behind the last byte, one before it, or at the key of a piece that has not
  ended; and what it counted is the most that some set of ended pieces reports, a set
  that has every piece with a key before the place unless a key was split. Three
  facts keep it. An unescaped key is always the beginning of a piece, wherever the
  buffer begins (`KeysOfPieces`; the scanner never goes on right behind a backslash
  that was dropped), so text that quotes an object and the rest of one
  whose beginning was dropped are never taken for a report. The colon, the brace and
  the closing brace that are found behind a key are those of its piece, or those of a
  piece that is not complete yet (`ValueOfPiece`, `EndOfPiece`). And with a buffer
  larger than an object and a chunk, no byte is dropped that the scanner still waits
  at (`FedPlace`). The loop is an induction on the bytes that are left
  (`ScanOutcome`); `MergedIsMost` says what merging one more object does to the counts.
  From it: `TypeOK`, `NeverOvercounts`, `WholeKeysAreCounted`. `ChargedAsReported` adds
  `TokensPricedOnce`, and that of the rules that match a model one is the longest
  (`BestIsOne`), so that a table and a model give one price.
* **Chart.** `BarsFit` and `BarOfItsTime` for every span and every ladder of
  widths, from facts about integer division: the last rung, several days a bar,
  always fits, and the index of a request is never clamped.
* **Stats.** Of the history the invariant says only that no request started later
  than now. `StatisticsAddUp` is then about any finite set of requests: each table is a
  partition of it, with a row for what the largest ones leave, and a sum over the
  whole is the sum over the parts. `ChartFits` adds that enough of the sorted
  latencies lie at or before the place of the percentile. `RollupsAddUp` needs an invariant of a page
  that is being loaded (`RollupInv`): the keys that were copied are still to be
  listed, and a user with requests that are due is to be counted or has a row with at
  least as many, whatever ends and whatever keys change in between; and that the
  exchange sort sorts, by an induction on the pass.

**Induction over data.** The induction theorems of the library take an operator
and cannot be used, but well-founded induction takes a set: the set of the numbers
(`SetOfNaturals`), or of the subsets of a finite set (`SetOfSubsets`), of which a
formula holds. That treats the folds of the community modules and recursive functions:
first that the function exists, then what it computes. So the sums, the sort and the
rewrites are proved for any length.

Every safety property and every refinement that a passing run checks is stated by
a theorem. Only model-checked are the liveness properties `LeftRequestsEnd` and
`TopupsEnd`, because the prover can treat neither fairness nor `ENABLED`; and the two
violations of section 6 are counterexamples. `TypeOK` of `Wallet`, `Sessions` and
`Config`, `KeysDurable` and `CardsBounded` are proved, and no run repeats them.

## 6. Where comments and code part

Shown by violation runs:

* `SettledIsCredited`: a transaction mined after the gateway gave up moves the
  money and credits nobody (topup.go:168).
* `SplitKeysAreCounted`: when no more than 14 bytes are left unscanned, the scanner
  moves past them, and a key that began in them is never found (stats.go:273,
  although stats.go:270 keeps the tail for it); the request is charged the minimum.

Seen while modelling, without a run: a changed `payTo` is lost at the next
restart, because replay skips a second `user_register` (wallet.go:241 and 638,
although wallet.go:220 calls it allowed); a running request whose record was
evicted is not charged (sessions.go:345, although charge.go:8 has the hot path
never free; `ServedIsPaid` says when it is); a price save that read the settings
before another save wrote them puts the old upstreams back into `config.yaml`,
where the next start finds them (proxy.go:1629-1642, although proxy.go:1612 has
them preserved; `FreshSaveLosesNothing` says when they are); a client that leaves while every
upstream fails gets no status, which counts as 200, and is charged the minimum
(access_log.go:72, although access_log.go:92 charges on a 2xx of an upstream
only); the request body of a record that was evicted between look-up and write
stays on disk for ever (sessions.go:390-394, although sessions.go:325 says the
files cannot grow without bound); the stats log has neither key nor user of a
request, so the stats per key start again at a restart (stats.go:571-590 and
718-720); a use extends a session in memory only, so
a restart refuses a session in use once its login is older than the idle time
(session.go:191, although session.go:41 has sessions survive restarts); secrets
the browser injects while a configuration save is under way are dropped from
memory by it (proxy.go:1543); a revocation line of `RotateKey` that fails
is ignored, so the key returns after a restart (wallet.go:518); a debit of an
unknown user logs the full amount although the comment says zero
(wallet.go:381), which no caller in the gateway can reach
(`KeyOwnersRegistered`); an account is registered before its payment is verified
(topup.go:151); a logout is answered ok as "already gone" while the logout that
removed the session has yet to write its line, and if the process stops before that
line, replay brings the session back, although its end was confirmed
(auth.go:135-141 calls it an idempotent success, session.go:204-209 writes the line
after the lock; `AlreadyGone` is that answer, and what `LogoutIsFinal` excepts as
`unwritten`); the second of two concurrent logouts is answered 500 although
logging out is meant to be idempotent (auth.go:142); the hash of the body in a
signed message is a sha256, although the comment says keccak256
(manage_auth.go:29 and 236); a key request of an address without an account is
answered 401 (manage_auth.go:217, although keys.go:3-5 has it registered then);
requests do extend the idle time of a session (session.go:191, as session.go:73 says,
although session.go:48-49 says that none does); the operator of a rule is checked
without the blanks around it, and compared with them when the rule is compiled, so
that a rule for " regex " is taken and never gets its regex (proxy.go:469 and 479);
a status, model or path that is called "其他" loses its own count to the row for the
rest (stats.go:1116-1149), and the cost of models that used cached tokens only is in
no row of the table of models, whose row for the rest needs other tokens (stats.go:1347-1421; `StatisticsAddUp` leaves both
out); the costs in `/payments/users` and `/payments/keys` are always 0, because
the cost of an entry is computed on the copies of the statistics page only
(stats.go:771, payments.go:150-188 and 343-397); `/payments/keys` with a filter
that is no address lists everybody's keys, with counts of 0
(wallet.go:579-608); selector names are trimmed for the check of the
configuration and compared untrimmed for routing (proxy.go:211-339 and 1045).

## 7. Not modelled

In `Journal`: payloads in memory, `hub.close`, an unreadable stats file, files
that cannot be removed, a crash between removing a record's payloads and its
file, and content (a running request that a restart restores stays running for
ever). In `Feeds`: messages of several lines, which a restart splits. In
`Usage`: objects above usageScanMaxObject, which block the scanner until they are
dropped, `"usage"` as a string value, and answers that mix the reports of two providers.

In `Stats`: paths, the heat map, the latencies of bars, byte counts, labels, the
series for the browser and the export, which are further sums over the same
entries; time zones; entries without a start, which the code skips in the table
of days and the chart. In `Router`: the URL that is built for an upstream, headers,
the order of the fields of a document, arrays, and operators with blanks around
them (section 6). In `Config`: a failing write that leaves the beginning of a file
which still parses. In `Manage`: bodies of a login that the two readers of auth.go
take differently (json.Unmarshal for the signature in line 279, a Decoder that stops
at the end of the object in line 82), so that what is asked is what was signed; keys with one prefix
(they are in `Wallet`) and writes of keys that fail (there too).

`Amounts`: parsePositiveInt wraps in 64 bits (topup.go:213-230) and formatInt
renders a negative number empty (topup.go:233-245). A wrapped amount is more than
all the USDC there is, which no chain pays, and what an answer says of a balance is
wording, so both are left out of `Topup`. A torn last line of the wallet's file
stops the start (wallet.go:631), and a gateway that does not run has no
properties.

The component list of `PROJECT.json` has four parts that are not modelled at all:
the example clients, and three of the gateway. `init_payment.go` reads environment variables once, `run.go` and
`cmd/` parse flags and wire the parts together (what a start restores is in the
`Restart` of each module), and `page.go`, `templates.go` and `assets.go` render.
None of them has a state that changes or an order to get wrong.

Cryptography (signatures are "made by their payer" or not), HTTP parsing, JSON,
logging, static pages and the example clients. The read-only endpoints change
nothing. Listing sessions, keys and the balance of an account is the same.

## 8. What could come next

* The migration of literal credentials at the first start (`run.go`), as a step of
  `Config`: it rewrites the file before anything else reads it.
* Answers of `Usage` that mix the reports of two providers, and objects above
  usageScanMaxObject; both need another reference than `Reported`.
* A finer `Journal`, in which a crash may come between removing a record's payloads
  and its file.
