--------------------------- MODULE PriceProvider ---------------------------
(***************************************************************************)
(* CompositePriceProvider (packages/api/src/price-provider.ts): a cached   *)
(* price, one round of requests to all sources that concurrent callers     *)
(* share, and the quorum that turns their answers into a price.            *)
(*                                                                         *)
(* Instants are kept as ages, so there is no bound on the clock.  The      *)
(* chains have caches of their own and the same sources: one is modelled.  *)
(* A round ends within FetchMs, which stands for the sources' timeouts.    *)
(***************************************************************************)
EXTENDS Naturals, Sequences, FiniteSets

CONSTANTS
  Primary, Fallbacks,       \* the names of the sources
  MarketRate,               \* the rate an honest source reports
  OtherRates,               \* rates a source at fault may report, 0 among them
  MaxPrimaryDeviationBps,
  CacheTtlMs, FetchMs,      \* cacheTtlMs, and the longest a round takes
  MaxFeedAgeMs              \* ethUsdMaxAgeMs and usdcUsdMaxAgeMs, taken as one

Sources == {Primary} \cup Fallbacks

ASSUME PriceProviderAssumption ==
  /\ Primary \notin Fallbacks
  /\ {MarketRate, CacheTtlMs, FetchMs} \subseteq Nat \ {0}
  /\ OtherRates \subseteq Nat
  /\ {MaxPrimaryDeviationBps, MaxFeedAgeMs} \subseteq Nat

VARIABLES
  cachedPrice,   \* this.cache
  round,         \* the round of requests in this.inflight
  decimals       \* Chainlink's decimalsCache: not read, read, or rejected

priceVars == <<cachedPrice, round, decimals>>

-----------------------------------------------------------------------------
(* A price is a rate and, as history, whether the primary supplied it, the *)
(* age of the feed's answer it rests on, and whether at most one of the    *)
(* sources was at fault when it was fetched.                               *)

NoPrice == [rate |-> 0, primary |-> FALSE, age |-> 0, sound |-> FALSE, left |-> 0]

Pending == [status |-> "pending", rate |-> 0, age |-> 0]
Answered(rate, age) == [status |-> "answered", rate |-> rate, age |-> age]
Failed == [status |-> "failed", rate |-> 0, age |-> 0]
\* The node answered, and the source failed all the same.
Unread == [status |-> "unread", rate |-> 0, age |-> 0]

NoRound == [running |-> FALSE, age |-> 0, report |-> [s \in Sources |-> Pending]]
NewRound == [NoRound EXCEPT !.running = TRUE]

-----------------------------------------------------------------------------
(* The quorum. *)

Below(report, S, r) == Cardinality({s \in S : report[s].rate < r})
UpTo(report, S, r) == Cardinality({s \in S : report[s].rate <= r})

\* The k-th of the rates that the sources in S reported, in ascending order.
Sorted(report, S, k) ==
  CHOOSE r \in {report[s].rate : s \in S} :
    Below(report, S, r) <= k /\ k < UpTo(report, S, r)

\* median
Median(report, S) ==
  LET n == Cardinality(S)
      midpoint == n \div 2
  IN IF n % 2 = 1
     THEN Sorted(report, S, midpoint)
     ELSE (Sorted(report, S, midpoint - 1) + Sorted(report, S, midpoint)) \div 2

\* Mutant: only a primary that is too high is noticed.
DeviationAbove(value, reference) ==
  IF value >= reference THEN ((value - reference) * 10000) \div reference ELSE 0

DeviationInBps(value, reference) ==
  ((IF value >= reference THEN value - reference ELSE reference - value) * 10000) \div reference

Successful(report) == {s \in Sources : report[s].status = "answered"}

\* The primary's rate is the one used while it answers, alone or close enough
\* to the median of all, which must be positive; without it two fallbacks are
\* needed.
HasQuorum(report) ==
  LET S == Successful(report) IN
  \/ S = {Primary}
  \/ /\ Primary \in S
     /\ Median(report, S) > 0
     /\ DeviationInBps(report[Primary].rate, Median(report, S)) <= MaxPrimaryDeviationBps
  \/ /\ Primary \notin S
     /\ Cardinality(S) >= 2

Rate(report) ==
  IF Primary \in Successful(report)
  THEN report[Primary].rate
  ELSE Median(report, Successful(report))

Faults(report) ==
  {s \in Sources : report[s].status # "answered" \/ report[s].rate # MarketRate}

\* What resolveUsdcPerEthMicros returns, and the cache keeps.
Price(report) ==
  [rate |-> Rate(report),
   primary |-> Primary \in Successful(report),
   age |-> report[Primary].age,
   sound |-> Cardinality(Faults(report)) <= 1,
   left |-> CacheTtlMs]

-----------------------------------------------------------------------------
(* One round of requests. *)

Cached == cachedPrice # NoPrice

\* A caller without a cached price joins the round in flight, or starts one.
JoinRound ==
  /\ round' = IF round.running THEN round ELSE NewRound
  /\ UNCHANGED <<cachedPrice, decimals>>

Waits(s) == round.running /\ round.report[s].status = "pending"

Reports(s, report) ==
  /\ round' = [round EXCEPT !.report[s] = report]
  /\ UNCHANGED cachedPrice

\* Coinbase and Kraken; neither's observation time is looked at.
SourceAnswers(s, rate) ==
  /\ Waits(s) /\ s # Primary
  /\ Reports(s, Answered(rate, 0))
  /\ UNCHANGED decimals

SourceFails(s) ==
  /\ Waits(s) /\ s # Primary
  /\ Reports(s, Failed)
  /\ UNCHANGED decimals

\* Mutant: the age of the feed's answer is not checked.
FreshAlways(age) == TRUE

\* assertFresh, against the instant at which the round began.
Fresh(age) == age <= MaxFeedAgeMs + round.age

\* The node answers with a round that the feed updated `age` ago.
FeedAnswers(rate, age) ==
  /\ Waits(Primary)
  /\ decimals # "rejected"
  /\ decimals' = "read"
  /\ Reports(Primary, IF Fresh(age) THEN Answered(rate, age) ELSE Failed)

\* The node fails; so may the promise of the decimals, if they were asked for.
FeedFails ==
  /\ Waits(Primary)
  /\ decimals' \in IF decimals = "none" THEN {"read", "rejected"} ELSE {decimals}
  /\ Reports(Primary, Failed)

\* The rejected promise is in the cache for good: no answer can be used.
FeedUnread ==
  /\ Waits(Primary)
  /\ decimals = "rejected"
  /\ Reports(Primary, Unread)
  /\ UNCHANGED decimals

RateAsked(s) ==
  \/ \E rate \in {MarketRate} \cup OtherRates :
       \/ SourceAnswers(s, rate)
       \/ s = Primary /\ \E age \in 0..(MaxFeedAgeMs + FetchMs + 1) : FeedAnswers(rate, age)
  \/ SourceFails(s)
  \/ s = Primary /\ (FeedFails \/ FeedUnread)

\* Promise.allSettled is through; a price is cached, an error is not.
RoundOver == round.running /\ \A s \in Sources : ~Waits(s)

EndRound ==
  /\ RoundOver
  /\ round' = NoRound
  /\ cachedPrice' = IF HasQuorum(round.report) THEN Price(round.report) ELSE cachedPrice
  /\ UNCHANGED decimals

-----------------------------------------------------------------------------
(* Time.  A cached price that has expired is never looked at again. *)

OlderPrice ==
  IF cachedPrice.left > 1
  THEN [cachedPrice EXCEPT !.left = @ - 1, !.age = @ + 1]
  ELSE NoPrice

OlderRound ==
  IF round.running
  THEN [round EXCEPT !.age = @ + 1,
          !.report[Primary].age = IF Primary \in Successful(round.report) THEN @ + 1 ELSE @]
  ELSE round

\* A source that has not answered by then is aborted first.
RoundInTime == round.running => round.age < FetchMs

PricesAge ==
  /\ RoundInTime
  /\ cachedPrice' = OlderPrice
  /\ round' = OlderRound
  /\ UNCHANGED decimals

PriceInit == cachedPrice = NoPrice /\ round = NoRound /\ decimals = "none"

PriceTypeOK ==
  /\ cachedPrice \in [rate: Nat, primary: BOOLEAN, age: Nat, sound: BOOLEAN, left: 0..CacheTtlMs]
  /\ round.running \in BOOLEAN /\ round.age \in 0..FetchMs
  /\ \A s \in Sources :
       round.report[s] \in [status: {"pending", "answered", "failed", "unread"},
                            rate: Nat, age: Nat]
  /\ decimals \in {"none", "read", "rejected"}
=============================================================================
