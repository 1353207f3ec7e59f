# Servo: a TLA+ verification project

This directory holds TLA+ models of the agent-paymaster repository (the Servo
API, paymaster and ERC-4337 bundler), the TLC configurations that check them,
and proofs for TLAPS. Paths below are relative to `packages/` unless they start
with `README.md` or `docs/`.

## 1. The system

| Part | Code | State it keeps | Operations | Talks to |
|---|---|---|---|---|
| **API gateway** | `api/src/index.ts` | none of its own | `/rpc`: churn record, rate limit, `pm_*` locally, the rest forwarded | rate limiter, paymaster service, bundler client |
| **Rate limiting** | `api/src/rate-limit.ts` | buckets per key in four layers, senders per address | `consume`, `record`, sweep, eviction | gateway |
| **Bundler client** | `api/src/bundler-client.ts` | circuit breaker (failures, open until) | `rpc`: up to three attempts per call | bundler over HTTP |
| **Price provider** | `api/src/price-provider.ts` | cached price, round in flight, decimals of the feeds | quorum of Chainlink, Coinbase, Kraken; median, deviation | paymaster service, node |
| **Gas price oracle** | `api/src/gas-price-oracle.ts` | last guidance and its time | `getGasPriceGuidance` | paymaster service, node |
| EntryPoint monitor | `api/src/entrypoint-monitor.ts` | none | one call per health report | node |
| **Paymaster quoting** | `api/src/paymaster-service.ts`, `paymaster-parsing.ts`, `shared/src/index.ts` | none | quote, sign, encode | price provider, oracle, bundler client |
| **Mempool** | `bundler/src/index.ts` | `userOperations` map | estimate, send, claim, release, record hash, finalize, fail, prune, load | tables, reputation, simulators |
| **Tables** | `bundler/src/persistence.ts` | three SQLite tables | one statement (or transaction) per method | mempool |
| **Reputation** | `bundler/src/reputation.ts` | failures, window, throttle, ban per sender | `ensureCanSubmit`, `recordDeterministicFailure`, `clear` | mempool, tables |
| **Submitter** | `bundler/src/submitter.ts` | tick in progress, start of process | recover, claim, simulate, send, confirm | mempool, node |
| **Chain and node** | external | signed transactions, account nonce | broadcast, mine, revert, evict | submitter |
| **Parsing, packing** | `bundler/src/rpc-parsing.ts`, `entrypoint.ts`, `simulators.ts` | none | parse, estimate, pack, hash | mempool, submitter |
| API persistence | `api/src/persistence.ts` | quotes | nothing instantiates it | |
| Contracts | `paymaster-contracts/src` | thin subclasses of vendored code | | chain |
| Web, scripts | `web/`, `scripts/` | none of interest | | |

Bold parts are modelled. What makes them hard:

* **One thread, many awaits.** Handlers do not preempt each other, but
  `sendUserOperation` awaits a gas estimate and an admission simulation, a tick
  awaits the node up to five times per transaction, and a quote awaits the
  bundler, the price and the guidance while others share the breaker, the round
  and the caches with it. State read before an await may be stale after it.
* **Two copies of every operation.** The map in memory and two SQLite tables.
  A handler updates memory first and then runs up to four statements, each of
  which commits by itself. The process may die between any two.
* **A chain that answers late, wrongly or not at all.** A send may fail after
  the node took the transaction, a transaction may vanish from the pool and be
  mined after all, any call may throw.
* **Sources that fail, lie or are stale**, and tables of counters that forget.
* **Bytes that several parties must agree on.** What the paymaster signs, the
  caller fills in, the bundler parses, completes and packs must be the same
  operation to the last byte.

What must hold, per part:

* Mempool and tables: one open operation per sender and nonce; an included
  operation stays included; a restart restores what memory held, and nothing
  else; retention is respected; a retry can be submitted. To its clients all of
  it is one status per operation (`Ledger`).
* Reputation: a penalty ends by time or by an inclusion only, and survives a
  restart.
* Submitter: reports agree with the chain; no operation is in two transactions
  that can both take effect; the in-flight limit; orphaned claims are left
  alone; every other claim ends.
* Gateway and rate limiting: budgets over any stretch of time; bounded tables;
  counts are forgotten only when there is no room.
* Client: every call ends; the breaker opens and closes again.
* Prices and guidance: never older than the times they are kept; one source at
  fault cannot move the price.
* Quoting: a quote is still valid when it is handed over, never undercharges,
  keeps its cost ceiling, and is admitted as it was signed.

## 2. Modules

```
Reputation   UserOps                 RateLimit   BundlerClient   PriceProvider
        \   /   |   \                      \     /    |          /  GasPriceOracle
       Mempool  |    Chain                 Gateway    |         /  / UserOpWire
      /   |  \  |     /                       |        Quoting -----
MCMempool |  Ledger  /                   MCGateway    MCQuoting
          |     |   /
          |  Submitter --- MCSubmitter
```

The proofs are in modules beside these:

```
MempoolProofs   LedgerProofs   ClientProofs   ArithmeticProofs
      |                         /        \      /          |
RefinementProofs      GatewayProofs   QuotingProofs        |
      |                                                    |
SubmitterProofs -------------------------------------------
```

* `Reputation` is `SenderReputationTracker`. The map and its rows are one
  variable: each mutation is followed by the one statement that writes the same
  row, so a crash between them is the crash before both.
* `UserOps` declares what all know of an operation: hash, sender, nonce, entry
  point.
* `Mempool` is `BundlerService` over `BundlerPersistenceStore`. `mem` is the
  map, `pendingDb` and `finalizedDb` the tables. A handler is one action that
  leaves memory as the handler leaves it and puts the statements still to run
  into `tail`; each statement is an action; no other handler starts before
  they are done. So crashes fall between statements while handlers stay atomic
  towards each other, which is what one thread and synchronous SQLite calls
  give. `request[r]` is the operation a caller waits to have simulated.
  Abstracted: the payload (a row is kept as the operation it loads as), the
  gas fields (`packable` says whether they are there), receipts' numbers.
  The gas estimate comes before anything is read, so its await is not a state.
* `Chain` is the node and the submitter's account: external, as far as
  `ViemSubmissionClient` can tell the difference.
* `Submitter` composes both. `pc` is the await the tick is stopped at, or the
  loop it is in; other callers get their turn only at an await. `snapshot`
  is the list recovery works on. `RpcThrows` is an RPC error that no handler
  of `submitClaim` catches: the tick is abandoned.
* `Ledger` is the abstract specification of the mempool: a status per operation
  and one atomic step per handler; no memory, table, simulation, statement or
  crash. `Mempool!ImplementsLedger` maps an operation's status to its state in
  memory, and while the process is down to the state it will be loaded in, so
  a crash and a restart are stutters.
* `RateLimit` has a limiter as a function from every key it could hold, with
  `NoBucket` for those it does not. Instants are kept as ages, and a window that
  is over stays at the age `WindowMs`: only whether it is over is ever asked, so
  no clock needs a bound. The sweep of every 256th operation may come at any.
* `BundlerClient` has one state per call: fetching, reading the body, sleeping
  before the next attempt. Failures are counted up to the threshold, which is
  all the code compares them with.
* `Gateway` composes the two as `POST /rpc` does: record, limit, dispatch, and
  the breaker's check are one turn, the attempts are turns of their own.
  `granted` and `forgotten` are history, for the properties only; a budget
  counts the requests they stand for (`GrantsOf`).
* `PriceProvider` has the cache, the shared round with each source's report, and
  the state of the cached `decimals()` promise. A price carries its history: how
  old the feed's answer is, and whether at most one source was at fault.
  The ETH and the USDC feed are one source here as they are in the code's
  `Promise.all`; one chain is modelled, chains share nothing but the sources.
* `GasPriceOracle` has the cached guidance's age and a request per caller.
* `UserOpWire` is pure: byte strings are sequences of digits of base `Base`, a
  `Word` is a number in so many of them, `GasBytes` for a uint128 and twice that
  for the rate. It has `paymasterAndData` in its layouts, the
  bundler's parsing, its gas estimate and preparation, and the packing. Hashes
  are stood for by what they cover.
* `Quoting` composes client, prices, guidance and wire: one quote per caller
  from the request to the operation it sponsors. Signing is one turn; the
  signature, like the two timestamps it covers, is opaque, and the remaining
  validity is kept beside it as `validFor`. It runs from the second that has
  begun (`nowSeconds` is rounded down); where in that second the clock stands is
  a free choice at each pricing.

Operators whose comment begins with "Mutant" are wrong on purpose: each stands
for a plausible bug, and the property it is paired with in `PROJECT.json` fails
when it replaces the real definition.

## 3. Runs

| Run | Instance | Shows |
|---|---|---|
| `MempoolCrash` | 2 operations, 1 caller, simulation, 2 crashes anywhere, retention 1 | `RestartLosesNothing`, `OpenNeverForgotten`, `IncludedStaysIncluded`, `RetentionBounded`, `TypeOK` |
| `MempoolSlots` | 3 operations, 2 of one nonce, no simulator, crash between handlers, ban of 2 units | `OneOpenPerSlot`, `RestartInventsNothing`, `PenaltyEndsByTimeOrInclusion`, `RestartKeepsPenalties`, `ImplementsLedger` |
| `SubmitterCrash` | bundles of 2, 2 transactions, both may be in flight, a crash anywhere | `FailureSound`, `NoDuplicateSubmission`, `OrphansUntouched`, `SubmitterTypeOK` |
| `SubmitterHostile` | competing operations, crash anywhere, lost acknowledgements, forgotten transactions that return, retention 1 | `InclusionSound`, `RefinesMempool` |
| `SubmitterLive` | bundles of 2, 2 transactions, no crash, fairness | `InflightBounded`, `ClaimsEnd` |
| `Gateway` | 3 addresses for 2 buckets and 1 churn window, 1 sender, limits 3, 2, 1, 1 | `GlobalBudget`, `IpBudget`, `TablesBounded`, `ForgetsOnlyWhenFull`, `GatewayTypeOK` |
| `Quoting` | 2 quotes, 3 sources, 2 attempts, breaker after 2 failures, fairness | `OneFaultTolerated`, `PriceFresh`, `GuidanceFresh`, `QuoteStillValid`, `NeverUnderCollects`, `CostCeiling`, `SignedIsAdmitted` (as signed and with the limits of the quote), `QuotesEnd`, `BreakerReopens`, `QuotingTypeOK` |

Bounds. Two operations are enough for everything between two operations
(a bundle, its fallback, two groups in recovery, which takes the limit of two
in `SubmitterCrash`; elsewhere the limit is the default, one); the third in `MempoolSlots`
lets retention prune one row while two operations compete. `Txs` bounds the
transactions the account ever signs: two allow a resubmission. `MaxTime` bounds
the clock (one unit is any duration that windows and timeouts are compared
with); two to four units let a timeout or a penalty expire before and after a
restart, which itself takes a unit. `SubmitterLive` has two, since
a third takes longer than five minutes: `ClaimsEnd` is about claims whose timeout
the clock still reaches, those dated zero or one. `MaxCrashes` of two lets a crash fall into
the recovery from another. `MaxFinalized` is at least the number of operations
where `FailureSound` is checked: a mempool that has forgotten an included
operation accepts it again, and then rightly reports that it failed.
In `Gateway` two senders, or a call slot more, add no new case: the sender layer
is a third limiter of the same kind, and calls only meet in the breaker, which
`Quoting` has with two. Its limits are the smallest that differ. In `Quoting`
two callers are what it takes to share a round, to overwrite guidance, and to
meet an open breaker, and a threshold of two what it takes to count; a faulty
rate is one basis point beyond the allowance of 5%; rates within it, rates of
zero, which an exchange may report, and rates too large for their word are left
to the theorems, which are for any rates. A unit of time is a second there, so
that `OfSecond` is only zero; the theorem is for any `SecondMs`. The estimator of
call gas is configured, as in production. Sixteen values to a byte, one-byte addresses and two-byte words
let an estimate be too wide; the requests cover a deployment by factory, an
ambiguous one and none, and the simulations no answer, one too wide and a good
one. The surcharge of 555 makes the rate's division inexact. `FetchMs` bounds a
round (the longest of the sources' timeouts). Neither run bounds a clock.
A crash is not taken at the last instant of the clock, so that every model may
restart; no run turns deadlock checking off.

Serial admission. `MempoolCrash` has one caller at a time, because concurrent admission
does break the mempool: that is what `MempoolRace` shows.
So does the same operation sent twice, which the API's retries do
(`api/src/bundler-client.ts:130`): both calls find nothing under its hash (707)
and await the simulation, the first is queued and broadcast, the second
overwrites it as pending (743), and the next tick broadcasts it again. With
`Requests = {r1, r2}`, `HasAdmissionSimulator = TRUE` and this invariant alone,
`SubmitterCrash` finds `NoDuplicateSubmission` violated that way; no run is kept for it, because the
cause is that of `MempoolRace`. Without a simulator (`MempoolSlots`, the submitter
runs) there is no await between the checks and the insertion, and one caller
stands for any number.

Fairness (`SubmitterLive`, `Quoting`). A tick always goes on, because every node call
ends in an answer or an error and `tick` reschedules itself in `finally`
(`bundler/src/submitter.ts:354-361`): weak fairness of `SubmitterStep`.
Synchronous statements run: weak fairness of `ExecuteStatement`. A node that is
asked again and again answers sometimes: strong fairness of `RecoverReceipt(t)`
and `RecoverLookup`, which compete with `RpcThrows`. Time passes. A waiting
transaction is mined, reverts or is evicted: an assumption on the chain that
the code cannot enforce (it never raises the fee of a waiting transaction).
In `Quoting` each quote that is under way goes on and the round does: every
fetch ends by its timeout, every sleep by its timer. The timeout of the
client does not cover the body (`api/src/bundler-client.ts:100-117`); that
reading it ends is left to the HTTP library. Nothing is assumed of callers, and
the outcome of a step is never fair: every answer may be an error.

### Where code and documentation disagree

| Run | What happens |
|---|---|
| `MempoolRace` | Two `eth_sendUserOperation` calls for one sender and nonce both pass the conflict check (`bundler/src/index.ts:689-705`), both await the simulation, both are inserted (743). |
| `MempoolZombie` | A crash between `saveFinalizedOperation` and `removePendingOperation` (966-967) leaves a pending row behind a finalized one; retention prunes the latter; the next restart reopens the finished operation beside a newer one of its nonce. |
| `MempoolRequeue` | `requeueFailedOperation` stores the caller's fields (710, 1109), without the gas fields filled in for the first attempt; `packUserOperation` throws. |
| `SubmitterLostAck` | The operations of a send that threw are released (`bundler/src/submitter.ts:580`) although the node may have the transaction; the next tick sends a second one. A crash between broadcast and recording has the same effect on the limit: an orphaned claim has no hash to count. |
| `OracleRecovery` | `createChainlinkFeedReader` caches the promise of `decimals()` (`api/src/price-provider.ts:231`), a rejected one too: after one failed request Chainlink counts as unavailable until the process restarts, and the median of Coinbase and Kraken is used although the node answers. |

## 4. Proofs

Every invariant and every safety property of a step that a passing run checks
is also a theorem, for all values of the constants. `MempoolProofs`,
`RefinementProofs` and `SubmitterProofs` are about the bundler, `GatewayProofs`
and `QuotingProofs` about the API; `ClientProofs` has what the last two share.

What the theorems assume, beside the `ASSUME`s of the models:

| Assumption | Why the code justifies it |
|---|---|
| `SequentialAdmission` | One request at a time, or no simulator. The code is not right without it: `MempoolRace`. |
| `CrashBetweenHandlers` | The two properties it is for do not hold without it: `MempoolZombie`. |
| `FaithfulNode` | A send that threw did not arrive, what the node forgot is gone: `SubmitterLostAck`, `SubmitterHostile`. |
| `NothingPruned`, `NoCrash` | See the theorems that need them. |
| `FiniteHashes`, `FiniteTxs` | Maps, tables and pools are finite. |
| `BansLast` | A ban has a length, two minutes by default (`bundler/src/index.ts:341`); with none, the failure that should ban would end a throttle. |
| `TwoFallbacks` | What `createApp` configures: Chainlink, Coinbase, Kraken. |
| `LegacyRecognised` | The limit the bundler estimates for the paymaster is below 2^120; it is 200000 by default (`bundler/src/index.ts:350`). |

The models' own assumptions are types: gas settings are natural numbers
(`parseBigIntWithFallback` refuses negative ones, `bundler/src/index.ts:287-298`),
requests have the fields of `bundler/src/types.ts:3-18`, a byte has more than
three values (the paymaster's mode byte is 3), and `Absent` and `Refused` are
neither numbers, bytes nor requests.

### Mempool

`MempoolProofs` proves `MempoolTypeCorrect`: `MempoolSpec => []TypeOK`, one
lemma per group of actions, over lemmas that say that the operators that set
columns keep an operation an operation. Then three theorems for any set of
operations, any retention limit, any number of crashes between any two
statements:

* `RestartsAreLossless`: `RestartLosesNothing` always holds.
* `InclusionIsFinal`: `IncludedStaysIncluded`.
* `OpenSurvives`: `OpenNeverForgotten`.

They assume `SequentialAdmission` (one request, or no simulator), which is what
the code needs to be right: see `MempoolRace`.
`RestartLosesNothing` speaks only of moments when no handler runs, so it is not
inductive. The invariant `Durability` says what holds between two statements:

* `OpenKept`: an open operation has no finalized row in its way unless its
  deletion is due, and its pending row agrees with memory unless a statement is
  due for it;
* `FinalKept`: a finished operation has its finalized row unless the INSERT is
  due;
* `UnknownUnfinalized`: what memory does not know has no finalized row, so that
  inserting it later is not overridden at the next load;
* `TailSound`: the statement that is due makes the row equal to memory (for
  instance `mem[h] = AsSubmitting(pendingDb[h], ...)` while
  `markPendingOperationSubmitting` is due);
* `RowsSound`, `SimulatedUnknown`, `DownIdle`: which states a table may hold,
  that an operation under simulation is still unknown, and that a process that
  is down has no memory.

`RetentionHolds` proves `RetentionBounded` for finitely many
operations. Its invariant adds to `Durability` that the table exceeds the
limit only between the INSERT of a result, or a restart, and the pruning that
ends either handler (`RowsBounded`); what memory holds beside it follows from
`FinalKept`.

`PenaltiesLast` proves `PenaltyEndsByTimeOrInclusion`, without any assumption on
crashes or callers. It is not enough that rows have their types:
`recordDeterministicFailure` drops both penalties before it sets a new one
(`bundler/src/reputation.ts:85-90`), so a failure of an operation that was already
under way could shorten a ban. The invariant `PenaltiesOK` says why it does
not: a row with a ban has failures enough for the next one to renew it, and no
penalty reaches further ahead than a new one would.
`RestartsKeepPenalties` proves `RestartKeepsPenalties`: the rows a restart drops
are those whose penalties are over.

### Ledger

`RefinementProofs` proves two more, for crashes that fall between handlers
(`CrashBetweenHandlers`; a crash between two statements does break both, see
`MempoolZombie`), again with admissions one at a time:

* `OneOpenOperation`: `OneOpenPerSlot`, although the check is made before the
  simulation is awaited and a restart loads two tables;
* `RestartsInventNothing`: `RestartInventsNothing`.

`OneOpenPerSlot` says nothing of the rows a restart turns into open operations,
so `Slots` adds, on top of `Durability`:

* `PendingRowsOpen`: a pending row belongs to an open operation unless its
  deletion is due;
* `DownRowsSound`: while the process is down, a pending row has no finalized
  one over it, and no two pending rows share sender and nonce;
* `SimulatedFree`: an operation under simulation still has no conflict.

On top of that, `MempoolImplementsLedger`: every step of the mempool,
mapped through `StatusOf`, is a step of `Ledger` or a stutter. `Slots` is what
makes it go through: `Free` of the ledger is the conflict check made before the
simulation, and a restart is a stutter because what is loaded is what was
promised. `LedgerProofs` proves `LedgerKeepsSlots` for the ledger; the two
together say it of what clients see, also while the process is down.

### Submitter

`SubmitterProofs` is about the whole bundler: mempool, tables, submitter, node
and chain, for finitely many operations (`FiniteHashes`), any bundle size,
limits and timeouts, and crashes between any two statements unless it says
otherwise.

* `BundlerRefinesMempool`: every step of the bundler is a step of the mempool by
  itself. The mempool's callers must hand back only what is open; that the
  submitter does is the invariant `TickSound`: what `snapshot`, `claim` and `rest`
  hold is open and held once, and nothing but the tick closes it.
* `BundlerKeepsPromises` and `BundlerImplementsLedger`: so all that was proved of
  the mempool alone is so in the bundler, under the same assumptions.
* `BundlerKeepsPenalties`: the same for throttles and bans.
* `InclusionsAreReal`: `InclusionSound`, without any assumption on node, chain,
  crashes or overlapping simulations (`Backed`: it holds of both tables too).
* `NothingIsSentTwice`: `NoDuplicateSubmission`, and `FailuresAreReal`:
  `FailureSound`. Both assume admissions one at a time and `FaithfulNode`: a send
  that threw did not reach the node, and what the node forgot is gone
  (`SubmitterLostAck` and `SubmitterHostile` are about the rest). The second
  also assumes that retention has room for every operation (`NothingPruned`).
* `InflightIsBounded`: `InflightBounded`, as long as the process does not stop
  (`NoCrash`: an orphaned claim has no hash to count).
* `OrphansStay`: `OrphansUntouched`.
* `SubmitterTypesHold`: `SubmitterTypeOK`. What it takes is that the nonce the
  node answers with exists: `NextNonce` is the first number from `height` on that
  no waiting transaction has, and `FirstGap` finds it by counting, since fewer
  transactions wait than there are numbers to look at.

The invariant behind the four before the last has three parts. `HoldsOwn`: what the tick
handles before the record is a claim of this process without a transaction
(`Fresh`), and after it one with the transaction at hand. `TimesPast`: no claim is
dated in the future, so a restart's claims are older than the process and
become orphans. `WaitingHeld`: every operation of a waiting transaction has
a row that would be loaded as a claim, and is claimed in memory: with that
transaction, as an orphan, or as the claim whose broadcast the tick awaits.
So what is `Fresh` waits nowhere, and may be released, failed or sent.
`HeldStep` shows that an operation stays held until the chain decides;
`ResultHeld` carries this on for what succeeded, up to the row of its result.

### Gateway

`GatewayProofs` is for any number of addresses, senders and calls, any limits and
capacities.

* `TablesStayBounded`: `TablesBounded`, by counting what `WithRoom` leaves.
* `EvictionIsLastResort`: `ForgetsOnlyWhenFull`, from the same invariant and the
  fact that the sweep drops ended windows only.
* `GatewayTypesHold`: `GatewayTypeOK`, with the client's own invariant: a call
  that sleeps has an attempt left.
* `GlobalBudgetHolds` and `IpBudgetHolds`: `GlobalBudget`, `IpBudget`.

A budget is a statement on history, and not inductive: the window that runs says
nothing of the requests of the one before. `Budget` says what a bucket tells of the
requests granted within `WindowMs`: those since its window began are no more than
its count; those before fell into one window, whose first request is
out of reach by now, so they are at most one less than the limit.
Requests are numbered (`GrantsOf`), so that the sum over addresses and ages is
the size of a set and an argument on finite sets carries it.

### Quotes

`QuotingProofs` is for any number of callers, any times, attempts and thresholds,
any rates that a source at fault reports (zero included), with and without an
estimator of call gas, any requests and answers of the node,
and any widths of bytes, words and addresses.

* `OneFaultIsTolerated`, `PricesAreFresh`, `GuidanceStaysFresh`, `QuotesStayValid`,
  `UnderCollectsNever`, `QuotingTypeCorrect`: `OneFaultTolerated`, `PriceFresh`,
  `GuidanceFresh`, `QuoteStillValid`, `NeverUnderCollects`, `QuotingTypeOK`.
* `CostsUnderCeiling`: `CostCeiling`.
* `SignedOnesAreAdmitted`: `SignedIsAdmitted`.
* `RoundsUp`, on the signed rate, and `ReadBack`, on the uint128 words.

The invariant `QuotingInv` ties each quote to what it waits for and carries the
sums that add up to the bounds: a feed's answer is at most `MaxFeedAgeMs` old
when the round began; a cached price's age and remaining time add up to at most
`MaxFeedAgeMs + FetchMs + CacheTtlMs`; a quote's validity and the time its
request for guidance has taken add up to the time to live but for less than a
second. `OneFaultTolerated`
rests on three lemmas on the median: of two it lies in what they report, of
three of which two agree it is what these say, and a rate within the allowance
of the market in whole basis points is `Tolerable`.

`AskedInv` adds what is known of a quote's request and estimate: that the
request parses and is for this chain, that its limits are those the bundler
estimated, and, once it is priced, that every value fits its width. The first
is checked by two programs: the API resolves the `initCode` before it asks, the
bundler again when it is asked. From it follow the last two invariants.
`CostCeiling` is then arithmetic on products and quotients, the billed overhead
being part of the limits because each part of it is capped by one.
`SignedIsAdmitted` follows the bytes: a word determines its number
(`WordsDiffer`, by induction over its digits), so the limits that the bundler
reads out of `paymasterAndData` are those that were put in (`ReadBack`); the three layouts
are read as the same operation (`LayoutsAgree`); preparation finds nothing
to add (`NothingToPrepare`); what is packed is what was signed (`FilledAdmitted`).
The one case the bytes do not decide by themselves is the legacy layout, whose
data follow the address at once: `normalizePaymasterAndData`
(`shared/src/index.ts:204-216`) takes them for the packed layout when the words it
finds there are the limits given beside it. The data begin with the mode byte, which is not
zero, and a limit that leaves the top byte of its word free cannot be mistaken
for them: this is `LegacyRecognised`, and the theorem needs it.

### Arithmetic

`ArithmeticProofs` has what the three need of numbers. Theorems of the library that
take an operator cannot be instantiated here, so induction is over
sets: a set of numbers that is not empty has a least element (the library's
`WFMin`), hence a set that has 0 and every successor is `Nat`. From this come
the first gap in a finite set, and that there is a function that satisfies the
equation of `Power`, without which nothing is known of it.

TLC checked `Durability` on the instance of `MempoolCrash`, and on one with three
operations, two callers and no simulator, and `Slots` on that of `MempoolSlots`
and one with a simulator, before they were proved, and the parts of the submitter's invariant on those of
`SubmitterCrash` and `SubmitterHostile`.

Only model-checked: the liveness properties `ClaimsEnd`, `QuotesEnd` and
`BreakerReopens`, since fairness and ENABLED are beyond the prover.

## 5. Not modelled

* The syntax of JSON, hex strings and addresses, formatting, logging, metrics,
  OpenAPI text, health and status routes: they change nothing that is modelled.
* Which chain and token a quote is for (`resolveChain`): a table lookup.
* Cryptography: signatures and hashes are opaque, the hash of an operation is
  its identity. Signing is local and takes no time.
* The wall clock's reading at a quote's timestamps: the model keeps the time
  from the answer to `validUntil`, and takes the position within the second for
  arbitrary at each pricing, which allows more than one clock does. The signed
  grace for skewed clocks (`validAfter`) needs no model.
* The arithmetic on the fee history (`parseFeeHistory`): advice that nothing
  else reads. The decoding of simulation errors and receipt logs
  (`bundler/src/entrypoint.ts:141-335`): the models take its outcome.
* `api/src/entrypoint-monitor.ts`: one call per health report, no state.
* `api/src/persistence.ts`, which nothing instantiates; so rate limits are in
  memory only, and the models start them empty.
* `createBundle` and `markBundleSubmitted`, which nothing calls; running
  without a database; the balance check of the submitter.
* The web pages and scripts; the contracts, whose substance is in submodules
  that are not part of the repository. `Charge` says what the vendored
  paymaster bills, as far as the comments in the quoting code do.

What remains worth doing: the gateway's calls composed with the mempool's
requests, so that a retried `eth_sendUserOperation` is followed from caller to
chain; what the layers of the rate limit that have no budget of their own here
(sender, expensive method) allow.
