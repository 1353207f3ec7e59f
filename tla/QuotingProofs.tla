--------------------------- MODULE QuotingProofs ---------------------------
(***************************************************************************)
(* Prices and quotes: the proofs, for any number of callers, any timeouts  *)
(* and times to live, and any rates that a source at fault reports.        *)
(***************************************************************************)
EXTENDS Quoting, ClientProofs, ArithmeticProofs, SequenceTheorems

\* The sources of createApp: a primary and two fallbacks.
TwoFallbacks == \E a, b : a # b /\ Fallbacks = {a, b}

LEMMA Periods ==
  /\ {MarketRate, CacheTtlMs, FetchMs} \subseteq Nat \ {0}
  /\ {MaxPrimaryDeviationBps, MaxFeedAgeMs, SurchargeBps} \subseteq Nat
  /\ {GuidanceTtlMs, GuidanceFetchMs, QuoteTtlMs, SecondMs} \subseteq Nat \ {0}
  /\ OtherRates \subseteq Nat
  /\ Primary \notin Fallbacks /\ Askers = Calls
  <1>1. {QuoteTtlSeconds, SecondMs} \subseteq Nat \ {0}
    BY QuotingAssumption
  <1>2. QuoteTtlMs \in Nat \ {0}
    BY <1>1 DEF QuoteTtlMs
  <1> QED
    BY <1>1, <1>2, PriceProviderAssumption, GasPriceOracleAssumption, QuotingAssumption

\* What has passed of the second that has begun is less than a second.
LEMMA PassedOfSecond ==
  ASSUME NEW passed \in OfSecond
  PROVE  passed \in Nat /\ passed < SecondMs
  BY Periods DEF OfSecond

-----------------------------------------------------------------------------
(* Arithmetic. *)

\* The rate that is signed is never below the market's with the surcharge, for
\* any rate and any surcharge: ExchangeRate rounds up (paymaster-service.ts:361-365).
THEOREM RoundsUp ==
  \A rate \in Nat : ExchangeRate(rate) * 10000 >= rate * (10000 + SurchargeBps)
  <1> SUFFICES ASSUME NEW rate \in Nat
               PROVE  ExchangeRate(rate) * 10000 >= rate * (10000 + SurchargeBps)
    OBVIOUS
  <1> DEFINE x == rate * (10000 + SurchargeBps)
  <1>1. x \in Nat
    BY Periods
  <1> HIDE DEF x
  <1>2. ((x + 9999) \div 10000) * 10000 >= x
    BY <1>1
  <1>3. ExchangeRate(rate) = (x + 9999) \div 10000
    BY DEF ExchangeRate, x
  <1> QED
    BY <1>2, <1>3 DEF x

LEMMA RateType == \A rate \in Nat : ExchangeRate(rate) \in Nat
  <1> SUFFICES ASSUME NEW rate \in Nat
               PROVE  ExchangeRate(rate) \in Nat
    OBVIOUS
  <1> DEFINE x == rate * (10000 + SurchargeBps) + 9999
  <1>1. x \in Nat
    BY Periods
  <1> HIDE DEF x
  <1>2. x \div 10000 \in Nat
    BY <1>1
  <1> QED
    BY <1>2 DEF ExchangeRate, x

Distance(rate) == IF rate > MarketRate THEN rate - MarketRate ELSE MarketRate - rate

Tolerable(rate) == 10000 * Distance(rate) < MarketRate * (MaxPrimaryDeviationBps + 1)

LEMMA MarketTolerable == Tolerable(MarketRate)
  BY Periods DEF Tolerable, Distance

LEMMA DivisionBound ==
  ASSUME NEW a \in Nat, NEW m \in Nat \ {0}, NEW n \in Nat, a \div m <= n
  PROVE  a < m * (n + 1)
  <1> DEFINE d == a \div m
  <1>1. d \in Nat /\ a < m * (d + 1)
    OBVIOUS
  <1>2. m * (d + 1) <= m * (n + 1)
    BY <1>1
  <1> QED
    BY <1>1, <1>2

LEMMA CloseTolerable ==
  ASSUME NEW rate \in Nat, DeviationInBps(rate, MarketRate) <= MaxPrimaryDeviationBps
  PROVE  Tolerable(rate)
  <1>1. Distance(rate) \in Nat
    BY Periods DEF Distance
  <1>2. DeviationInBps(rate, MarketRate) = (Distance(rate) * 10000) \div MarketRate
    BY Periods DEF DeviationInBps, Distance
  <1>3. Distance(rate) * 10000 < MarketRate * (MaxPrimaryDeviationBps + 1)
    BY <1>1, <1>2, Periods, DivisionBound
  <1> QED
    BY <1>1, <1>3 DEF Tolerable

-----------------------------------------------------------------------------
(* The quorum. *)

\* r is the k-th of the rates in ascending order, counted from zero.
IsSorted(report, S, k, r) ==
  /\ r \in {report[s].rate : s \in S}
  /\ Below(report, S, r) <= k /\ k < UpTo(report, S, r)

LEMMA SortedFound ==
  ASSUME NEW report, NEW S, NEW k, NEW r, IsSorted(report, S, k, r)
  PROVE  IsSorted(report, S, k, Sorted(report, S, k))
  BY DEF IsSorted, Sorted

LEMMA AtMostOne ==
  ASSUME NEW S, IsFiniteSet(S), Cardinality(S) <= 1, NEW x \in S, NEW y \in S
  PROVE  x = y
  <1> SUFFICES ASSUME x # y PROVE FALSE
    OBVIOUS
  <1>1. IsFiniteSet({x}) /\ Cardinality({x}) = 1
    BY FS_Singleton
  <1>2. Cardinality({x} \cup {y}) = 2
    BY <1>1, FS_AddElement
  <1>3. Cardinality({x} \cup {y}) <= Cardinality(S)
    BY FS_Subset
  <1>4. Cardinality(S) \in Nat
    BY FS_CardinalityType
  <1> QED
    BY <1>2, <1>3, <1>4

LEMMA Pair ==
  ASSUME NEW a, NEW b, a # b
  PROVE  IsFiniteSet({a, b}) /\ Cardinality({a, b}) = 2
  <1>1. {a, b} = {a} \cup {b} /\ IsFiniteSet({a}) /\ Cardinality({a}) = 1
    BY FS_Singleton
  <1> QED
    BY <1>1, FS_AddElement

LEMMA Triple ==
  ASSUME NEW a, NEW b, NEW c, a # b, a # c, b # c
  PROVE  IsFiniteSet({a, b, c}) /\ Cardinality({a, b, c}) = 3
  <1>1. {a, b, c} = {a, b} \cup {c} /\ IsFiniteSet({a, b}) /\ Cardinality({a, b}) = 2
    BY Pair
  <1> QED
    BY <1>1, FS_AddElement

\* The median of two, whatever they report.
LEMMA MedianOfTwo ==
  ASSUME NEW a, NEW b, a # b, NEW S, S = {a, b}, NEW report,
         report[a].rate \in Nat, report[b].rate \in Nat
  PROVE  /\ Median(report, S) \in Nat
         /\ report[a].rate = report[b].rate => Median(report, S) = report[a].rate
  <1>1. Cardinality(S) = 2 /\ IsFiniteSet(S)
    BY Pair
  <1>2. Median(report, S) = (Sorted(report, S, 0) + Sorted(report, S, 1)) \div 2
    <2>1. 2 % 2 # 1 /\ 2 \div 2 = 1 /\ 1 - 1 = 0
      OBVIOUS
    <2> QED
      BY <1>1, <2>1 DEF Median
  <1>3. \E r : IsSorted(report, S, 0, r)
    <2>1. PICK s \in S : \A t \in S : report[s].rate <= report[t].rate
      OBVIOUS
    <2>2. {t \in S : report[t].rate < report[s].rate} = {}
      BY <2>1
    <2>3. /\ IsFiniteSet({t \in S : report[t].rate <= report[s].rate})
          /\ s \in {t \in S : report[t].rate <= report[s].rate}
      BY <1>1, FS_Subset
    <2>4. Cardinality({t \in S : report[t].rate <= report[s].rate}) > 0
      BY <2>3, FS_EmptySet, FS_CardinalityType
    <2>5. Below(report, S, report[s].rate) = 0
      BY <2>2, FS_EmptySet DEF Below
    <2>6. IsSorted(report, S, 0, report[s].rate)
      BY <2>4, <2>5 DEF IsSorted, UpTo
    <2> QED
      BY <2>6
  <1>4. \E r : IsSorted(report, S, 1, r)
    <2>1. PICK s \in S : \A t \in S : report[t].rate <= report[s].rate
      OBVIOUS
    <2>2. {t \in S : report[t].rate <= report[s].rate} = S
      BY <2>1
    <2>3. {t \in S : report[t].rate < report[s].rate} \subseteq S \ {s}
      OBVIOUS
    <2>4. IsFiniteSet(S \ {s}) /\ Cardinality(S \ {s}) = 2 - 1
      BY <1>1, FS_RemoveElement
    <2>5. Cardinality({t \in S : report[t].rate < report[s].rate}) <= 1
      BY <2>3, <2>4, FS_Subset
    <2>6. IsSorted(report, S, 1, report[s].rate)
      BY <1>1, <2>2, <2>5 DEF IsSorted, Below, UpTo
    <2> QED
      BY <2>6
  <1>5. /\ Sorted(report, S, 0) \in {report[a].rate, report[b].rate}
        /\ Sorted(report, S, 1) \in {report[a].rate, report[b].rate}
    BY <1>3, <1>4, SortedFound DEF IsSorted
  <1> QED
    BY <1>2, <1>5

\* Of three, two of which agree, it is what these say.
LEMMA MedianOfThree ==
  ASSUME NEW p, NEW a, NEW b, p # a, p # b, a # b, NEW S, S = {p, a, b},
         NEW report, NEW m \in Nat,
         report[p].rate \in Nat, report[a].rate = m, report[b].rate = m
  PROVE  Median(report, S) = m
  <1>1. Cardinality(S) = 3 /\ IsFiniteSet(S)
    BY Triple
  <1>2. Median(report, S) = Sorted(report, S, 1)
    <2>1. 3 % 2 = 1 /\ 3 \div 2 = 1
      OBVIOUS
    <2> QED
      BY <1>1, <2>1 DEF Median
  <1>3. Below(report, S, m) <= 1
    <2>1. {s \in S : report[s].rate < m} \subseteq {p}
      OBVIOUS
    <2>2. IsFiniteSet({p}) /\ Cardinality({p}) = 1
      BY FS_Singleton
    <2> QED
      BY <2>1, <2>2, FS_Subset DEF Below
  <1>4. 1 < UpTo(report, S, m)
    <2>1. {a, b} \subseteq {s \in S : report[s].rate <= m}
      OBVIOUS
    <2>2. IsFiniteSet({s \in S : report[s].rate <= m})
      BY <1>1, FS_Subset
    <2>3. Cardinality({a, b}) <= Cardinality({s \in S : report[s].rate <= m})
      BY <2>1, <2>2, FS_Subset
    <2>4. Cardinality({s \in S : report[s].rate <= m}) \in Nat
      BY <2>2, FS_CardinalityType
    <2>5. Cardinality({a, b}) = 2
      BY Pair
    <2> QED
      BY <2>3, <2>4, <2>5 DEF UpTo
  <1>5. ASSUME NEW r, r # m, IsSorted(report, S, 1, r)
        PROVE  FALSE
    <2>1. r = report[p].rate
      BY <1>5 DEF IsSorted
    <2>2. CASE r < m
      <3>1. {s \in S : report[s].rate <= r} = {p}
        BY <2>1, <2>2
      <3>2. UpTo(report, S, r) = 1
        BY <3>1, FS_Singleton DEF UpTo
      <3> QED
        BY <1>5, <3>2 DEF IsSorted
    <2>3. CASE r > m
      <3>1. {s \in S : report[s].rate < r} = {a, b}
        BY <2>1, <2>3
      <3>2. Below(report, S, r) = 2
        BY <3>1, Pair DEF Below
      <3> QED
        BY <1>5, <3>2 DEF IsSorted
    <2> QED
      BY <1>5, <2>1, <2>2, <2>3
  <1>6. IsSorted(report, S, 1, m)
    BY <1>3, <1>4 DEF IsSorted
  <1> QED
    BY <1>2, <1>5, <1>6, SortedFound

-----------------------------------------------------------------------------
(* What the quorum makes of a round. *)

PriceRecord == [rate: Nat, primary: BOOLEAN, age: Nat, sound: BOOLEAN, left: Nat]

ReportRecord == [status: {"pending", "answered", "failed", "unread"}, rate: Nat, age: Nat]

\* A price that is sound is tolerable, and one from the feed is in time, but for
\* a wait since.
PriceOK(p, wait) ==
  /\ p \in PriceRecord
  /\ p.sound => Tolerable(p.rate)
  /\ p.primary => p.age < MaxFeedAgeMs + FetchMs + CacheTtlMs + wait

RoundOK ==
  /\ round \in [running: BOOLEAN, age: 0..FetchMs, report: [Sources -> ReportRecord]]
  /\ round.report[Primary].status = "answered" =>
       round.report[Primary].age <= MaxFeedAgeMs + round.age

CacheOK ==
  /\ PriceOK(cachedPrice, 0)
  /\ Cached => /\ cachedPrice.left \in 1..CacheTtlMs
               /\ cachedPrice.primary =>
                    cachedPrice.age + cachedPrice.left <= MaxFeedAgeMs + FetchMs + CacheTtlMs

LEMMA QuorumRate ==
  ASSUME TwoFallbacks, NEW report \in [Sources -> ReportRecord], HasQuorum(report)
  PROVE  /\ Rate(report) \in Nat
         /\ Cardinality(Faults(report)) <= 1 => Tolerable(Rate(report))
  <1> DEFINE S == Successful(report)
  <1>1. PICK a, b : a # b /\ Fallbacks = {a, b}
    BY DEF TwoFallbacks
  <1>2. /\ Sources = {Primary, a, b} /\ Primary # a /\ Primary # b
        /\ S \subseteq Sources /\ IsFiniteSet(Sources)
    <2>1. Sources = {Primary, a, b} /\ Primary # a /\ Primary # b
      BY <1>1, Periods DEF Sources
    <2>2. IsFiniteSet({Primary, a, b})
      BY <1>1, <2>1, Triple
    <2> QED
      BY <2>1, <2>2 DEF Successful
  <1>3. \A s \in Sources : report[s].rate \in Nat
    BY DEF ReportRecord
  <1>4. MarketRate \in Nat
    BY Periods
  <1>5. ASSUME Cardinality(Faults(report)) <= 1,
               NEW s \in Sources, s \in Faults(report), NEW t \in Sources, t # s
        PROVE  t \in S /\ report[t].rate = MarketRate
    <2>1. IsFiniteSet(Faults(report))
      BY <1>2, FS_Subset DEF Faults
    <2>2. t \notin Faults(report)
      BY <1>5, <2>1, AtMostOne
    <2> QED
      BY <2>2 DEF Faults, Successful
  <1>6. CASE Primary \in S
    <2>1. Rate(report) = report[Primary].rate
      BY <1>6 DEF Rate
    <2>2. ASSUME Cardinality(Faults(report)) <= 1, report[Primary].rate # MarketRate
          PROVE  Tolerable(report[Primary].rate)
      <3>1. Primary \in Faults(report)
        BY <1>2, <2>2 DEF Faults
      <3>2. S = {Primary, a, b} /\ report[a].rate = MarketRate /\ report[b].rate = MarketRate
        BY <1>2, <1>5, <1>6, <2>2, <3>1
      <3>3. Median(report, S) = MarketRate
        BY <1>1, <1>2, <1>3, <1>4, <3>2, MedianOfThree
      <3>4. S # {Primary}
        BY <1>2, <3>2
      <3>5. DeviationInBps(report[Primary].rate, MarketRate) <= MaxPrimaryDeviationBps
        BY <1>6, <3>3, <3>4 DEF HasQuorum
      <3> QED
        BY <1>2, <1>3, <3>5, CloseTolerable
    <2> QED
      BY <1>2, <1>3, <2>1, <2>2, MarketTolerable
  <1>7. CASE Primary \notin S
    <2>1. Cardinality(S) >= 2
      BY <1>7 DEF HasQuorum
    <2>2. S = {a, b}
      <3>1. ASSUME NEW x, S \subseteq {x}
            PROVE  FALSE
        <4>1. IsFiniteSet({x}) /\ Cardinality({x}) = 1
          BY FS_Singleton
        <4>2. Cardinality(S) <= 1 /\ IsFiniteSet(S)
          BY <3>1, <4>1, FS_Subset
        <4>3. Cardinality(S) \in Nat
          BY <4>2, FS_CardinalityType
        <4> QED
          BY <2>1, <4>2, <4>3
      <3> QED
        BY <1>2, <1>7, <3>1
    <2>3. Rate(report) = Median(report, S)
      BY <1>7 DEF Rate
    <2>4. Rate(report) \in Nat
      BY <1>1, <1>2, <1>3, <2>2, <2>3, MedianOfTwo
    <2>5. ASSUME Cardinality(Faults(report)) <= 1
          PROVE  Tolerable(Rate(report))
      <3>1. Primary \in Faults(report)
        BY <1>2, <1>7 DEF Faults, Successful
      <3>2. report[a].rate = MarketRate /\ report[b].rate = MarketRate
        BY <1>2, <1>5, <2>5, <3>1
      <3>3. Median(report, S) = MarketRate
        BY <1>1, <1>2, <1>3, <2>2, <3>2, MedianOfTwo
      <3> QED
        BY <2>3, <3>3, MarketTolerable
    <2> QED
      BY <2>4, <2>5
  <1> QED
    BY <1>6, <1>7

\* The price that the round yields, for whoever waits and for the cache.
LEMMA QuorumPrice ==
  ASSUME TwoFallbacks, RoundOK, HasQuorum(round.report)
  PROVE  /\ PriceOK(Price(round.report), 0)
         /\ Price(round.report).left = CacheTtlMs
         /\ Price(round.report).primary =>
              Price(round.report).age <= MaxFeedAgeMs + FetchMs
  <1> DEFINE report == round.report
  <1>1. /\ report \in [Sources -> ReportRecord] /\ round.age \in 0..FetchMs
        /\ Primary \in Sources
    BY DEF RoundOK, Sources
  <1>2. /\ Rate(report) \in Nat
        /\ Cardinality(Faults(report)) <= 1 => Tolerable(Rate(report))
    BY <1>1, QuorumRate
  <1>3. report[Primary].age \in Nat
    BY <1>1 DEF ReportRecord
  <1>4. Primary \in Successful(report) => report[Primary].age <= MaxFeedAgeMs + FetchMs
    BY <1>1, <1>3, Periods DEF RoundOK, Successful
  <1>5. /\ Price(report).rate = Rate(report) /\ Price(report).age = report[Primary].age
        /\ Price(report).left = CacheTtlMs
        /\ Price(report).primary => Primary \in Successful(report)
        /\ Price(report).sound => Cardinality(Faults(report)) <= 1
    BY DEF Price
  <1>6. Price(report) \in PriceRecord
    BY <1>2, <1>3, Periods DEF Price, PriceRecord
  <1> QED
    BY <1>2, <1>3, <1>4, <1>5, <1>6, Periods DEF PriceOK

-----------------------------------------------------------------------------
(* The inductive invariant. *)

GuidanceOK ==
  /\ GuidanceTypeOK
  /\ HasGuidance => /\ cachedGuidance.left > 0
                    /\ cachedGuidance.age + cachedGuidance.left <= GuidanceFetchMs + GuidanceTtlMs

QuoteRecord(Rs, Gs) ==
  [phase: Underway \cup {"idle", "quoted"}, request: Rs, gas: Gs, price: PriceRecord,
   validFor: Int, guidanceAge: 0..(GuidanceFetchMs + GuidanceTtlMs - 1)]

IsQuote(r) == \E Rs, Gs : r \in QuoteRecord(Rs, Gs)

\* A quote waits for what its phase says; while it is guided, its price and its
\* validity have aged as long as the request for guidance.
QuoteOK(q) ==
  /\ IsQuote(quote[q])
  /\ Phase(q) = "estimating" <=> Active(q)
  /\ Phase(q) = "guiding" <=> Asking(q)
  /\ Phase(q) = "pricing" => round.running
  /\ Phase(q) = "signing" =>
       /\ quote[q].validFor > QuoteTtlMs - SecondMs
       /\ PriceOK(quote[q].price, 0)
  /\ Phase(q) = "guiding" =>
       /\ quote[q].validFor + asked[q] > QuoteTtlMs - SecondMs
       /\ PriceOK(quote[q].price, asked[q])
  /\ Phase(q) = "quoted" =>
       /\ quote[q].validFor > QuoteTtlMs - SecondMs - GuidanceFetchMs
       /\ PriceOK(quote[q].price, GuidanceFetchMs)

QuotingInv ==
  /\ ClientOK /\ RoundOK /\ CacheOK /\ GuidanceOK
  /\ decimals \in {"none", "read", "rejected"}
  /\ quote = [q \in Calls |-> quote[q]]
  /\ \A q \in Calls : QuoteOK(q)

LEMMA NoQuoteOK ==
  /\ NoPrice \in PriceRecord /\ PriceOK(NoPrice, 0)
  /\ IsQuote(NoQuote) /\ NoQuote.phase = "idle"
  <1>1. NoPrice \in PriceRecord /\ PriceOK(NoPrice, 0)
    BY Periods DEF NoPrice, PriceRecord, PriceOK
  <1>2. NoQuote \in QuoteRecord({Absent}, {Absent})
    BY <1>1, Periods DEF NoQuote, QuoteRecord, Underway
  <1> QED
    BY <1>1, <1>2 DEF IsQuote, NoQuote

LEMMA EmptyRounds ==
  ASSUME NEW r, r \in {NoRound, NewRound}
  PROVE  /\ r \in [running: BOOLEAN, age: 0..FetchMs, report: [Sources -> ReportRecord]]
         /\ r.report[Primary].status # "answered"
  <1>1. Pending \in ReportRecord /\ Pending.status = "pending" /\ 0 \in 0..FetchMs
    BY Periods DEF Pending, ReportRecord
  <1>2. Primary \in Sources
    BY DEF Sources
  <1> DEFINE reports == [s \in Sources |-> Pending]
  <1>3. reports \in [Sources -> ReportRecord] /\ reports[Primary].status = "pending"
    BY <1>1, <1>2
  <1> HIDE DEF reports
  <1> DEFINE Record == [running: BOOLEAN, age: 0..FetchMs, report: [Sources -> ReportRecord]]
  <1>4. NoRound \in Record /\ NoRound.report = reports
    BY <1>1, <1>3 DEF NoRound, reports
  <1>5. NewRound \in Record /\ NewRound.report = reports
    BY <1>4 DEF NewRound
  <1> QED
    BY <1>3, <1>4, <1>5

\* A quote whose own state this step leaves alone.
LEMMA QuoteKept ==
  ASSUME NEW q \in Calls, QuoteOK(q),
         quote'[q] = quote[q], call'[q] = call[q], asked'[q] = asked[q],
         round.running => round'.running
  PROVE  QuoteOK(q)'
  BY DEF QuoteOK, Phase, Active, Asking

\* The price is known, and the validity starts.
LEMMA PricedQuote ==
  ASSUME NEW r, IsQuote(r), NEW p, PriceOK(p, 0), NEW passed \in OfSecond
  PROVE  \/ Priced(r, p, passed) = NoQuote
         \/ /\ IsQuote(Priced(r, p, passed))
            /\ Priced(r, p, passed).phase = "signing"
            /\ Priced(r, p, passed).validFor > QuoteTtlMs - SecondMs
            /\ PriceOK(Priced(r, p, passed).price, 0)
  <1> DEFINE valid == QuoteTtlMs - passed
             new == [r EXCEPT !.phase = "signing", !.price = p, !.validFor = valid]
  <1>1. PICK Rs, Gs : r \in QuoteRecord(Rs, Gs)
    BY DEF IsQuote
  <1>2. valid \in Int /\ valid > QuoteTtlMs - SecondMs
    BY Periods, PassedOfSecond
  <1>3. p \in PriceRecord
    BY DEF PriceOK
  <1>4. Priced(r, p, passed) \in {new, NoQuote}
    BY DEF Priced
  <1> HIDE DEF valid
  <1>5. new \in QuoteRecord(Rs, Gs) /\ new.price = p /\ new.phase = "signing"
        /\ new.validFor = valid
    BY <1>1, <1>2, <1>3 DEF QuoteRecord, Underway
  <1> QED
    BY <1>2, <1>4, <1>5 DEF IsQuote

\* In any phase but those that carry a promise.
LEMMA PlainQuote ==
  ASSUME NEW q \in Calls, IsQuote(quote'[q]), quote'[q].phase \in {"idle", "estimating", "pricing"},
         quote'[q].phase = "estimating" <=> Active(q)', ~Asking(q)',
         quote'[q].phase = "pricing" => round'.running
  PROVE  QuoteOK(q)'
  BY DEF QuoteOK, Phase

LEMMA SigningQuote ==
  ASSUME NEW q \in Calls, IsQuote(quote'[q]), quote'[q].phase = "signing",
         quote'[q].validFor > QuoteTtlMs - SecondMs, PriceOK(quote'[q].price, 0),
         ~Active(q)', ~Asking(q)'
  PROVE  QuoteOK(q)'
  BY DEF QuoteOK, Phase, PriceOK

-----------------------------------------------------------------------------
(* The steps. *)

LEMMA BeginStep ==
  ASSUME QuotingInv, NEW q \in Calls, NEW request, BeginQuote(q, request)
  PROVE  QuotingInv'
  <1> DEFINE new == [NoQuote EXCEPT !.phase = "estimating", !.request = request]
             started == [phase |-> "fetching", attempt |-> 0]
  <1>0. /\ call' = [call EXCEPT ![q] = started]
        /\ quote' = [quote EXCEPT ![q] = new]
        /\ UNCHANGED <<failures, openFor, cachedPrice, round, decimals, cachedGuidance, asked>>
        /\ Phase(q) = "idle"
    BY DEF BeginQuote, BeginCall, priceVars, guidanceVars
  <1>1. IsQuote(new) /\ new.phase = "estimating"
    <2>1. PICK Rs, Gs : NoQuote \in QuoteRecord(Rs, Gs)
      BY NoQuoteOK DEF IsQuote
    <2>2. new \in QuoteRecord({request}, Gs) /\ new.phase = "estimating"
      BY <2>1 DEF QuoteRecord, Underway
    <2> QED
      BY <2>2 DEF IsQuote
  <1>2. ClientOK'
    <2>1. 0 \in 0..(MaxAttempts - 1)
      BY BundlerClientAssumption
    <2> QED
      BY <1>0, <2>1 DEF QuotingInv, ClientOK, BundlerClientTypeOK, LastAttempt
  <1>3. RoundOK' /\ CacheOK' /\ GuidanceOK'
    BY <1>0 DEF QuotingInv, RoundOK, CacheOK, Cached, GuidanceOK, GuidanceTypeOK, HasGuidance, PriceOK
  <1>4. quote' = [p \in Calls |-> quote'[p]] /\ quote'[q] = new
    BY <1>0 DEF QuotingInv
  <1>5. ~Asking(q)' /\ Active(q)'
    BY <1>0 DEF QuotingInv, QuoteOK, Asking, Active, ClientOK, BundlerClientTypeOK
  <1>6. ASSUME NEW p \in Calls
        PROVE  QuoteOK(p)'
    <2>1. CASE p = q
      BY <1>1, <1>4, <1>5, <2>1, PlainQuote
    <2>2. CASE p # q
      BY <1>0, <2>2, QuoteKept DEF QuotingInv, ClientOK, BundlerClientTypeOK
    <2> QED
      BY <2>1, <2>2
  <1> QED
    BY <1>0, <1>2, <1>3, <1>4, <1>6 DEF QuotingInv

LEMMA CallStepOK ==
  ASSUME QuotingInv, NEW q \in Calls, CallProceeds(q) \/ EstimateRefused(q)
  PROVE  QuotingInv'
  <1>0. /\ CallStep(q)
        /\ quote' = [quote EXCEPT ![q] = IF call'[q] = NoCall THEN NoQuote ELSE quote[q]]
        /\ UNCHANGED <<cachedPrice, round, decimals, cachedGuidance, asked>>
    <2>1. CASE CallProceeds(q)
      BY <2>1 DEF QuotingInv, CallProceeds, CallStep, priceVars, guidanceVars
    <2>2. CASE EstimateRefused(q)
      <3>1. call'[q] = NoCall
        BY <2>2 DEF EstimateRefused, AnswerArrives, Leave, QuotingInv, ClientOK, BundlerClientTypeOK
      <3> QED
        BY <2>2, <3>1 DEF EstimateRefused, CallStep, priceVars, guidanceVars
    <2> QED
      BY <2>1, <2>2
  <1>1. /\ ClientOK' /\ Active(q) /\ (call'[q] = NoCall <=> ~Active(q)')
        /\ \A p \in Calls \ {q} : call'[p] = call[p]
    BY <1>0, ClientStep DEF QuotingInv
  <1>2. RoundOK' /\ CacheOK' /\ GuidanceOK'
    BY <1>0 DEF QuotingInv, RoundOK, CacheOK, Cached, GuidanceOK, GuidanceTypeOK, HasGuidance, PriceOK
  <1>3. /\ quote' = [p \in Calls |-> quote'[p]]
        /\ quote'[q] = IF call'[q] = NoCall THEN NoQuote ELSE quote[q]
        /\ \A p \in Calls \ {q} : quote'[p] = quote[p]
    BY <1>0 DEF QuotingInv
  <1>4. Phase(q) = "estimating" /\ ~Asking(q)' /\ IsQuote(quote[q])
    BY <1>0, <1>1 DEF QuotingInv, QuoteOK, Asking
  <1>5. ASSUME NEW p \in Calls
        PROVE  QuoteOK(p)'
    <2>1. CASE p = q
      BY <1>1, <1>3, <1>4, <2>1, NoQuoteOK, PlainQuote DEF Phase
    <2>2. CASE p # q
      BY <1>0, <1>1, <1>3, <2>2, QuoteKept DEF QuotingInv
    <2> QED
      BY <2>1, <2>2
  <1> QED
    BY <1>0, <1>1, <1>2, <1>3, <1>5 DEF QuotingInv

LEMMA EstimateStep ==
  ASSUME QuotingInv, NEW q \in Calls, NEW simulation, EstimateArrives(q, simulation)
  PROVE  QuotingInv'
  <1>0. PICK gas : LET estimated == [quote[q] EXCEPT !.phase = "pricing", !.gas = gas] IN
          /\ AnswerArrives(q)
          /\ IF Cached
             THEN /\ \E passed \in OfSecond :
                       quote' = [quote EXCEPT ![q] = Priced(estimated, cachedPrice, passed)]
                  /\ UNCHANGED priceVars
             ELSE /\ quote' = [quote EXCEPT ![q] = estimated]
                  /\ JoinRound
          /\ UNCHANGED guidanceVars
    BY DEF EstimateArrives
  <1> DEFINE estimated == [quote[q] EXCEPT !.phase = "pricing", !.gas = gas]
  <1>1. /\ ClientOK' /\ Active(q) /\ ~Active(q)'
        /\ \A p \in Calls \ {q} : call'[p] = call[p]
    BY <1>0, ClientStep DEF QuotingInv, CallStep
  <1>2. IsQuote(estimated) /\ estimated.phase = "pricing"
    <2>1. PICK Rs, Gs : quote[q] \in QuoteRecord(Rs, Gs)
      BY DEF QuotingInv, QuoteOK, IsQuote
    <2>2. estimated \in QuoteRecord(Rs, {gas}) /\ estimated.phase = "pricing"
      BY <2>1 DEF QuoteRecord, Underway
    <2> QED
      BY <2>2 DEF IsQuote
  <1>3. /\ UNCHANGED <<cachedPrice, decimals, cachedGuidance, asked>>
        /\ quote' = [p \in Calls |-> quote'[p]]
        /\ \A p \in Calls \ {q} : quote'[p] = quote[p]
        /\ round.running => round'.running
    BY <1>0 DEF QuotingInv, JoinRound, priceVars, guidanceVars
  <1>4. ~Asking(q)'
    BY <1>1, <1>3 DEF QuotingInv, QuoteOK, Asking
  <1>5. RoundOK'
    <2>1. CASE Cached
      BY <1>0, <2>1 DEF QuotingInv, RoundOK, priceVars
    <2>2. CASE ~Cached
      <3>1. round' = round \/ round' = NewRound
        BY <1>0, <2>2 DEF JoinRound
      <3>2. CASE round' = round
        BY <3>2 DEF QuotingInv, RoundOK
      <3>3. CASE round' = NewRound
        BY <3>3, EmptyRounds DEF RoundOK
      <3> QED
        BY <3>1, <3>2, <3>3
    <2> QED
      BY <2>1, <2>2
  <1>6. CacheOK' /\ GuidanceOK'
    BY <1>3 DEF QuotingInv, CacheOK, Cached, GuidanceOK, GuidanceTypeOK, HasGuidance, PriceOK
  <1>7. QuoteOK(q)'
    <2>1. CASE Cached
      <3>1. PICK passed \in OfSecond : quote'[q] = Priced(estimated, cachedPrice, passed)
        BY <1>0, <2>1 DEF QuotingInv
      <3> HIDE DEF estimated
      <3>2. PriceOK(cachedPrice, 0)
        BY DEF QuotingInv, CacheOK
      <3>3. \/ quote'[q] = NoQuote
            \/ /\ IsQuote(quote'[q]) /\ quote'[q].phase = "signing"
               /\ quote'[q].validFor > QuoteTtlMs - SecondMs /\ PriceOK(quote'[q].price, 0)
        BY <1>2, <3>1, <3>2, PricedQuote
      <3> QED
        BY <1>1, <1>4, <3>3, NoQuoteOK, PlainQuote, SigningQuote
    <2>2. CASE ~Cached
      <3>1. quote'[q] = estimated /\ round'.running
        BY <1>0, <2>2 DEF QuotingInv, JoinRound, NewRound, NoRound
      <3> HIDE DEF estimated
      <3> QED
        BY <1>1, <1>2, <1>4, <3>1, PlainQuote
    <2> QED
      BY <2>1, <2>2
  <1>8. ASSUME NEW p \in Calls \ {q}
        PROVE  QuoteOK(p)'
    BY <1>1, <1>3, <1>8, QuoteKept DEF QuotingInv
  <1> QED
    BY <1>1, <1>3, <1>5, <1>6, <1>7, <1>8 DEF QuotingInv

LEMMA SettleStep ==
  ASSUME TwoFallbacks, QuotingInv, PriceSettles
  PROVE  QuotingInv'
  <1> DEFINE price == Price(round.report)
  <1>0. /\ round.running /\ round' = NoRound
        /\ cachedPrice' = IF HasQuorum(round.report) THEN price ELSE cachedPrice
        /\ UNCHANGED <<call, failures, openFor, decimals, cachedGuidance, asked>>
        /\ \E passed \in OfSecond : quote' = [q \in Calls |->
             IF Phase(q) # "pricing" THEN quote[q]
             ELSE IF HasQuorum(round.report) THEN Priced(quote[q], price, passed)
             ELSE NoQuote]
    BY DEF PriceSettles, EndRound, RoundOver, clientVars, guidanceVars
  <1>1. HasQuorum(round.report) =>
          /\ PriceOK(price, 0)
          /\ price.left = CacheTtlMs
          /\ price.primary => price.age <= MaxFeedAgeMs + FetchMs
    BY QuorumPrice DEF QuotingInv
  <1> HIDE DEF price
  <1>2. ClientOK' /\ GuidanceOK'
    BY <1>0 DEF QuotingInv, ClientOK, BundlerClientTypeOK, LastAttempt,
                GuidanceOK, GuidanceTypeOK, HasGuidance
  <1>3. RoundOK'
    BY <1>0, EmptyRounds DEF RoundOK
  <1>4. CacheOK'
    <2>1. CASE HasQuorum(round.report)
      <3>1. cachedPrice' = price /\ price.left \in 1..CacheTtlMs /\ price.age \in Nat
        BY <1>0, <1>1, <2>1, Periods DEF PriceOK, PriceRecord
      <3>2. PriceOK(cachedPrice, 0)'
        BY <1>1, <2>1, <3>1 DEF PriceOK
      <3> QED
        BY <1>1, <2>1, <3>1, <3>2, Periods DEF CacheOK
    <2>2. CASE ~HasQuorum(round.report)
      BY <1>0, <2>2 DEF QuotingInv, CacheOK, Cached, PriceOK
    <2> QED
      BY <2>1, <2>2
  <1>5. ASSUME NEW q \in Calls
        PROVE  QuoteOK(q)'
    <2>0. Active(q)' = Active(q) /\ Asking(q)' = Asking(q) /\ asked' = asked /\ QuoteOK(q)
      BY <1>0 DEF Active, Asking, QuotingInv
    <2>1. CASE Phase(q) # "pricing"
      <3>1. quote'[q] = quote[q]
        BY <1>0, <2>1
      <3> QED
        BY <2>0, <2>1, <3>1 DEF QuoteOK, Phase
    <2>2. CASE Phase(q) = "pricing"
      <3>1. ~Active(q)' /\ ~Asking(q)' /\ IsQuote(quote[q])
        BY <2>0, <2>2 DEF QuoteOK
      <3>2. CASE HasQuorum(round.report)
        <4>1. PICK passed \in OfSecond : quote'[q] = Priced(quote[q], price, passed)
          BY <1>0, <2>2, <3>2
        <4> QED
          BY <1>1, <3>1, <3>2, <4>1, PricedQuote, NoQuoteOK, PlainQuote, SigningQuote
      <3>3. CASE ~HasQuorum(round.report)
        <4>1. quote'[q] = NoQuote
          BY <1>0, <2>2, <3>3
        <4> QED
          BY <3>1, <4>1, NoQuoteOK, PlainQuote
      <3> QED
        BY <3>2, <3>3
    <2> QED
      BY <2>1, <2>2
  <1>6. quote' = [q \in Calls |-> quote'[q]]
    BY <1>0
  <1> QED
    BY <1>0, <1>2, <1>3, <1>4, <1>5, <1>6 DEF QuotingInv

\* A step of one quote that leaves the client and the prices alone.
LEMMA OtherQuotes ==
  ASSUME QuotingInv, NEW q \in Calls, NEW r, quote' = [quote EXCEPT ![q] = r],
         UNCHANGED <<clientVars, priceVars>>,
         \A p \in Calls \ {q} : asked'[p] = asked[p],
         GuidanceOK', QuoteOK(q)'
  PROVE  QuotingInv'
  <1>1. ClientOK' /\ RoundOK' /\ CacheOK' /\ decimals' = decimals
    BY DEF QuotingInv, ClientOK, BundlerClientTypeOK, LastAttempt, RoundOK, CacheOK, Cached,
           PriceOK, clientVars, priceVars
  <1>2. ASSUME NEW p \in Calls \ {q}
        PROVE  QuoteOK(p)'
    BY <1>2, QuoteKept DEF QuotingInv, clientVars, priceVars
  <1> QED
    BY <1>1, <1>2 DEF QuotingInv

LEMMA SignStep ==
  ASSUME QuotingInv, NEW q \in Calls, Sign(q)
  PROVE  QuotingInv'
  <1>0. /\ Phase(q) = "signing" /\ cachedGuidance' = cachedGuidance
        /\ UNCHANGED <<clientVars, priceVars>>
        /\ quote[q].validFor > QuoteTtlMs - SecondMs /\ PriceOK(quote[q].price, 0)
        /\ ~Active(q) /\ ~Asking(q) /\ IsQuote(quote[q])
        /\ quote = [p \in Calls |-> quote[p]]
    BY DEF Sign, QuotingInv, QuoteOK
  <1>1. /\ GuidanceTypeOK /\ asked \in [Calls -> 0..NotAsked]
        /\ HasGuidance => cachedGuidance.age \in 0..(GuidanceFetchMs + GuidanceTtlMs - 1)
    BY Periods DEF QuotingInv, GuidanceOK, GuidanceTypeOK
  <1>2. ~Active(q)'
    BY <1>0 DEF clientVars, Active
  <1>3. PICK Rs, Gs : quote[q] \in QuoteRecord(Rs, Gs)
    BY <1>0 DEF IsQuote
  <1>4. PriceOK(quote[q].price, GuidanceFetchMs)
    BY <1>0, Periods DEF PriceOK, PriceRecord
  <1>5. CASE HasGuidance
    <2> DEFINE r == [quote[q] EXCEPT !.phase = "quoted", !.guidanceAge = cachedGuidance.age]
    <2>1. quote' = [quote EXCEPT ![q] = r] /\ asked' = asked
      BY <1>0, <1>5 DEF Sign
    <2>2. r \in QuoteRecord(Rs, Gs) /\ r.phase = "quoted"
          /\ r.price = quote[q].price /\ r.validFor = quote[q].validFor
      BY <1>1, <1>3, <1>5 DEF QuoteRecord, Underway
    <2> HIDE DEF r
    <2>3. quote'[q] = r /\ ~Asking(q)' /\ IsQuote(r)
      BY <1>0, <2>1, <2>2 DEF Asking, IsQuote
    <2>4. r.validFor > QuoteTtlMs - SecondMs - GuidanceFetchMs
      BY <1>0, <1>3, <2>2, Periods DEF QuoteRecord
    <2>5. QuoteOK(q)'
      BY <1>0, <1>2, <1>4, <2>2, <2>3, <2>4 DEF QuoteOK, Phase, PriceOK
    <2>6. GuidanceOK'
      BY <1>0, <2>1 DEF QuotingInv, GuidanceOK, GuidanceTypeOK, HasGuidance
    <2> QED
      BY <1>0, <2>1, <2>5, <2>6, OtherQuotes
  <1>6. CASE ~HasGuidance
    <2> DEFINE r == [quote[q] EXCEPT !.phase = "guiding"]
    <2>1. quote' = [quote EXCEPT ![q] = r] /\ asked' = [asked EXCEPT ![q] = 0]
      BY <1>0, <1>6 DEF Sign, AskGuidance
    <2>2. r \in QuoteRecord(Rs, Gs) /\ r.phase = "guiding"
          /\ r.price = quote[q].price /\ r.validFor = quote[q].validFor
      BY <1>3 DEF QuoteRecord, Underway
    <2> HIDE DEF r
    <2>3. /\ quote'[q] = r /\ IsQuote(r) /\ asked'[q] = 0 /\ asked' \in [Calls -> 0..NotAsked]
          /\ Asking(q)'
      BY <1>0, <1>1, <2>1, <2>2, Periods DEF Asking, IsQuote, NotAsked
    <2>4. r.validFor + asked'[q] > QuoteTtlMs - SecondMs
      BY <1>0, <1>3, <2>2, <2>3, Periods DEF QuoteRecord
    <2>5. QuoteOK(q)'
      BY <1>0, <1>2, <2>2, <2>3, <2>4 DEF QuoteOK, Phase, PriceOK
    <2>6. GuidanceOK'
      BY <1>0, <2>3, Periods DEF QuotingInv, GuidanceOK, GuidanceTypeOK, HasGuidance
    <2> QED
      BY <1>0, <1>1, <2>1, <2>5, <2>6, OtherQuotes
  <1> QED
    BY <1>5, <1>6

LEMMA GuideStep ==
  ASSUME QuotingInv, NEW q \in Calls, Guide(q)
  PROVE  QuotingInv'
  <1>0. /\ Asking(q) /\ UNCHANGED <<clientVars, priceVars>>
        /\ asked' = [asked EXCEPT ![q] = NotAsked]
    BY DEF Guide, GuidanceArrives, GuidanceFails
  <1>1. /\ asked \in [Calls -> 0..NotAsked] /\ asked[q] \in 0..GuidanceFetchMs
        /\ quote[q].validFor + asked[q] > QuoteTtlMs - SecondMs
        /\ PriceOK(quote[q].price, asked[q])
        /\ ~Active(q) /\ IsQuote(quote[q]) /\ quote = [p \in Calls |-> quote[p]]
    BY <1>0, Periods DEF QuotingInv, QuoteOK, GuidanceOK, GuidanceTypeOK, Asking, NotAsked
  <1>2. ~Active(q)' /\ asked' \in [Calls -> 0..NotAsked] /\ ~Asking(q)'
    BY <1>0, <1>1, Periods DEF clientVars, Active, Asking, NotAsked
  <1>3. PICK Rs, Gs : quote[q] \in QuoteRecord(Rs, Gs)
    BY <1>1 DEF IsQuote
  <1>4. PriceOK(quote[q].price, GuidanceFetchMs)
    BY <1>1, Periods DEF PriceOK, PriceRecord
  <1>5. quote[q].validFor > QuoteTtlMs - SecondMs - GuidanceFetchMs
    BY <1>1, <1>3, Periods DEF QuoteRecord
  <1> DEFINE Quoted(r) == /\ quote' = [quote EXCEPT ![q] = r]
                          /\ r \in QuoteRecord(Rs, Gs) /\ r.phase = "quoted"
                          /\ r.price = quote[q].price /\ r.validFor = quote[q].validFor
                          /\ GuidanceOK'
  <1>6. PICK r : Quoted(r)
    <2>1. ASSUME NEW age \in 0..GuidanceFetchMs, GuidanceArrives(q, age),
                 quote' = [quote EXCEPT ![q].phase = "quoted", ![q].guidanceAge = age]
          PROVE  \E r : Quoted(r)
      <3> DEFINE r == [quote[q] EXCEPT !.phase = "quoted", !.guidanceAge = age]
      <3>1. quote' = [quote EXCEPT ![q] = r]
        BY <1>1, <2>1
      <3>2. age \in 0..(GuidanceFetchMs + GuidanceTtlMs - 1)
        BY Periods
      <3>3. r \in QuoteRecord(Rs, Gs) /\ r.phase = "quoted"
            /\ r.price = quote[q].price /\ r.validFor = quote[q].validFor
        BY <1>3, <3>2 DEF QuoteRecord, Underway
      <3>4. cachedGuidance' = [age |-> age, left |-> GuidanceTtlMs]
        BY <2>1 DEF GuidanceArrives
      <3>5. GuidanceOK'
        BY <1>2, <3>4, Periods DEF GuidanceOK, GuidanceTypeOK
      <3> QED
        BY <3>1, <3>3, <3>5
    <2>2. ASSUME GuidanceFails(q), quote' = [quote EXCEPT ![q].phase = "quoted"]
          PROVE  \E r : Quoted(r)
      <3> DEFINE r == [quote[q] EXCEPT !.phase = "quoted"]
      <3>1. quote' = [quote EXCEPT ![q] = r]
        BY <1>1, <2>2
      <3>2. r \in QuoteRecord(Rs, Gs) /\ r.phase = "quoted"
            /\ r.price = quote[q].price /\ r.validFor = quote[q].validFor
        BY <1>3 DEF QuoteRecord, Underway
      <3>3. GuidanceOK'
        BY <1>2, <2>2, Periods DEF QuotingInv, GuidanceOK, GuidanceTypeOK, HasGuidance, GuidanceFails
      <3> QED
        BY <3>1, <3>2, <3>3
    <2> QED
      BY <2>1, <2>2 DEF Guide
  <1>7. quote'[q] = r /\ IsQuote(r)
    BY <1>1, <1>6 DEF IsQuote
  <1>8. QuoteOK(q)'
    BY <1>2, <1>4, <1>5, <1>6, <1>7 DEF QuoteOK, Phase, PriceOK
  <1> QED
    BY <1>0, <1>1, <1>6, <1>8, OtherQuotes

LEMMA EndStep ==
  ASSUME QuotingInv, NEW q \in Calls, EndQuote(q)
  PROVE  QuotingInv'
  <1>1. /\ quote' = [quote EXCEPT ![q] = NoQuote] /\ quote'[q] = NoQuote
        /\ UNCHANGED <<clientVars, priceVars>> /\ asked' = asked
        /\ cachedGuidance' = cachedGuidance /\ Phase(q) = "quoted"
    BY DEF EndQuote, QuotingInv, guidanceVars
  <1>2. ~Active(q)' /\ ~Asking(q)'
    BY <1>1 DEF QuotingInv, QuoteOK, Active, Asking, clientVars
  <1>3. QuoteOK(q)'
    BY <1>1, <1>2, NoQuoteOK, PlainQuote
  <1>4. GuidanceOK'
    BY <1>1 DEF QuotingInv, GuidanceOK, GuidanceTypeOK, HasGuidance
  <1> QED
    BY <1>1, <1>3, <1>4, OtherQuotes

LEMMA TickStep ==
  ASSUME QuotingInv, Tick
  PROVE  QuotingInv'
  <1>0. /\ \A q \in Calls : Phase(q) # "signing"
        /\ round.running => round.age < FetchMs
        /\ \A q \in Calls : Asking(q) => asked[q] < GuidanceFetchMs
        /\ UNCHANGED <<call, failures, decimals>>
        /\ round' = OlderRound /\ cachedPrice' = OlderPrice
        /\ cachedGuidance' = OlderGuidance
        /\ asked' = [q \in Calls |-> IF Asking(q) THEN asked[q] + 1 ELSE NotAsked]
        /\ openFor' = IF openFor > 0 THEN openFor - 1 ELSE 0
    BY Periods DEF Tick, PricesAge, RoundInTime, GuidanceAges, GuidanceInTime, BreakerCools
  <1>1. ClientOK'
    BY <1>0, BundlerClientAssumption DEF QuotingInv, ClientOK, BundlerClientTypeOK, LastAttempt
  <1>2. RoundOK' /\ round'.running = round.running
    <2>1. CASE ~round.running
      BY <1>0, <2>1 DEF QuotingInv, RoundOK, OlderRound
    <2>2. CASE round.running
      <3> DEFINE feed == round.report[Primary]
                 older == IF Primary \in Successful(round.report) THEN feed.age + 1 ELSE feed.age
                 newFeed == [feed EXCEPT !.age = older]
      <3>1. Primary \in Sources /\ feed \in ReportRecord /\ round.age \in 0..FetchMs
        BY DEF QuotingInv, RoundOK, Sources
      <3>2. newFeed \in ReportRecord /\ newFeed.status = feed.status /\ newFeed.age = older
        BY <3>1 DEF ReportRecord
      <3>3. round' = [round EXCEPT !.age = @ + 1, !.report = [@ EXCEPT ![Primary] = newFeed]]
        BY <1>0, <2>2, <3>1 DEF OlderRound, QuotingInv, RoundOK
      <3> DEFINE report == [round.report EXCEPT ![Primary] = newFeed]
                 age == round.age + 1
      <3>4. feed.status = "answered" => older <= MaxFeedAgeMs + (round.age + 1)
        BY <3>1, Periods DEF QuotingInv, RoundOK, Successful, ReportRecord
      <3> HIDE DEF newFeed, older
      <3>6. report \in [Sources -> ReportRecord] /\ report[Primary] = newFeed
        BY <3>1, <3>2 DEF QuotingInv, RoundOK
      <3>7. age \in 0..FetchMs /\ age = round.age + 1
        BY <1>0, <2>2, <3>1, Periods
      <3>8. round' = [round EXCEPT !.age = age, !.report = report]
        BY <3>3
      <3> HIDE DEF report, age
      <3>5. /\ round'.age = age /\ round'.running = round.running /\ round'.report = report
            /\ round' \in [running: BOOLEAN, age: 0..FetchMs, report: [Sources -> ReportRecord]]
        BY <3>6, <3>7, <3>8 DEF QuotingInv, RoundOK
      <3> QED
        BY <3>2, <3>4, <3>5, <3>6, <3>7 DEF RoundOK
    <2> QED
      BY <2>1, <2>2
  <1>3. CacheOK'
    <2>1. CASE ~(cachedPrice.left > 1)
      <3>1. cachedPrice' = NoPrice
        BY <1>0, <2>1 DEF OlderPrice
      <3> QED
        BY <3>1, NoQuoteOK DEF CacheOK, Cached, PriceOK
    <2>2. CASE cachedPrice.left > 1
      <3> DEFINE left == cachedPrice.left - 1
                 age == cachedPrice.age + 1
                 p == [cachedPrice EXCEPT !.left = left, !.age = age]
      <3>1. cachedPrice \in PriceRecord /\ Cached
        BY <2>2 DEF QuotingInv, CacheOK, PriceOK, Cached, NoPrice
      <3>3. cachedPrice' = p
        BY <1>0, <2>2 DEF OlderPrice
      <3>0. left \in Nat /\ left = cachedPrice.left - 1 /\ age \in Nat /\ age = cachedPrice.age + 1
        BY <2>2, <3>1 DEF PriceRecord
      <3> HIDE DEF left, age
      <3>2. /\ p \in PriceRecord /\ p.left = left /\ p.age = age
            /\ p.rate = cachedPrice.rate /\ p.primary = cachedPrice.primary
            /\ p.sound = cachedPrice.sound
        BY <3>0, <3>1 DEF PriceRecord
      <3> HIDE DEF p
      <3>4. cachedPrice.left \in 1..CacheTtlMs /\ cachedPrice.age \in Nat
        BY <3>1 DEF QuotingInv, CacheOK, PriceRecord
      <3>5. p.left \in 1..CacheTtlMs
        BY <2>2, <3>0, <3>2, <3>4, Periods
      <3>6. p.primary => p.age + p.left <= MaxFeedAgeMs + FetchMs + CacheTtlMs
        BY <3>0, <3>1, <3>2, <3>4, Periods DEF QuotingInv, CacheOK
      <3>7. PriceOK(p, 0)
        BY <3>1, <3>2, <3>5, <3>6, Periods DEF QuotingInv, CacheOK, PriceOK, PriceRecord
      <3>8. PriceOK(cachedPrice, 0)'
        BY <3>3, <3>7 DEF PriceOK
      <3> QED
        BY <3>3, <3>5, <3>6, <3>8 DEF CacheOK
    <2> QED
      BY <2>1, <2>2
  <1>4. GuidanceOK'
    BY <1>0, Periods
    DEF QuotingInv, GuidanceOK, GuidanceTypeOK, HasGuidance, OlderGuidance, NoGuidance,
        Asking, NotAsked
  <1>5. ASSUME NEW q \in Calls
        PROVE  QuoteOK(q)'
    <2>1. QuoteOK(q) /\ Active(q)' = Active(q) /\ asked \in [Calls -> 0..NotAsked]
      BY <1>0, Periods DEF QuotingInv, Active, GuidanceOK, GuidanceTypeOK
    <2>2. CASE Phase(q) # "guiding"
      <3>1. quote'[q] = quote[q] /\ ~Asking(q) /\ asked'[q] = NotAsked
        BY <1>0, <2>1, <2>2 DEF Tick, QuoteOK
      <3>2. ~Asking(q)'
        BY <3>1 DEF Asking, NotAsked
      <3> QED
        BY <1>0, <1>2, <2>1, <2>2, <3>1, <3>2 DEF QuoteOK, Phase, PriceOK
    <2>3. CASE Phase(q) = "guiding"
      <3> DEFINE p == [quote[q].price EXCEPT !.age = @ + 1]
                 v == quote[q].validFor - 1
                 r == [quote[q] EXCEPT !.price = p, !.validFor = v]
      <3>1. /\ Asking(q) /\ asked[q] \in Nat /\ asked'[q] = asked[q] + 1
            /\ asked'[q] <= GuidanceFetchMs /\ ~Active(q)
        BY <1>0, <2>1, <2>3, Periods DEF QuoteOK
      <3>2. PICK Rs, Gs : quote[q] \in QuoteRecord(Rs, Gs)
        BY <2>1 DEF QuoteOK, IsQuote
      <3>3. /\ p \in PriceRecord /\ p.rate = quote[q].price.rate
            /\ p.sound = quote[q].price.sound /\ p.primary = quote[q].price.primary
            /\ p.age = quote[q].price.age + 1
        BY <3>2 DEF QuoteRecord, PriceRecord
      <3>9. quote'[q] = r
        BY <1>0, <2>3, <3>2 DEF Tick, QuoteRecord
      <3>0. v \in Int /\ v = quote[q].validFor - 1
        BY <3>2 DEF QuoteRecord
      <3> HIDE DEF p, v
      <3>4. /\ r \in QuoteRecord(Rs, Gs) /\ r.phase = "guiding"
            /\ r.validFor = v /\ r.price = p
        BY <2>3, <3>0, <3>2, <3>3 DEF QuoteRecord, Phase
      <3>5. quote'[q] = r
        BY <3>9
      <3> HIDE DEF r
      <3>6. PriceOK(p, asked'[q])
        BY <2>1, <2>3, <3>1, <3>2, <3>3, Periods DEF QuoteOK, PriceOK, QuoteRecord, PriceRecord
      <3>7. r.validFor + asked'[q] > QuoteTtlMs - SecondMs
        BY <2>1, <2>3, <3>0, <3>1, <3>2, <3>4, Periods DEF QuoteOK, QuoteRecord
      <3>8. Asking(q)'
        BY <3>1, Periods DEF Asking, NotAsked
      <3> QED
        BY <2>1, <3>1, <3>4, <3>5, <3>6, <3>7, <3>8 DEF QuoteOK, Phase, IsQuote, PriceOK
    <2> QED
      BY <2>2, <2>3
  <1>6. quote' = [q \in Calls |-> quote'[q]]
    BY DEF Tick
  <1> QED
    BY <1>0, <1>1, <1>2, <1>3, <1>4, <1>5, <1>6 DEF QuotingInv

\* A source settles: what it reports, and whether the feed's answer is in time.
LEMMA ReportStep ==
  ASSUME QuotingInv, NEW s \in Sources, SourceReports(s)
  PROVE  QuotingInv'
  <1>0. UNCHANGED <<call, failures, openFor, cachedGuidance, asked, quote>>
    BY DEF SourceReports, clientVars, guidanceVars
  <1> DEFINE InTime(report) == s = Primary /\ report.status = "answered" =>
                                 report.age <= MaxFeedAgeMs + round.age
             Settles == /\ decimals' \in {"none", "read", "rejected"}
                        /\ \E report \in ReportRecord : Reports(s, report) /\ InTime(report)
  <1>1. Settles
    <2>1. round.age \in Nat /\ decimals \in {"none", "read", "rejected"}
      BY DEF QuotingInv, RoundOK
    <2>2. Failed \in ReportRecord /\ Unread \in ReportRecord
          /\ Failed.status # "answered" /\ Unread.status # "answered"
      BY DEF Failed, Unread, ReportRecord
    <2>3. ASSUME NEW rate \in Nat, NEW age \in Nat
          PROVE  Answered(rate, age) \in ReportRecord /\ Answered(rate, age).age = age
      BY DEF Answered, ReportRecord
    <2>4. ASSUME NEW rate \in {MarketRate} \cup OtherRates, SourceAnswers(s, rate)
          PROVE  Settles
      BY <2>1, <2>3, <2>4, Periods DEF SourceAnswers
    <2>5. ASSUME NEW rate \in {MarketRate} \cup OtherRates,
                 NEW age \in 0..(MaxFeedAgeMs + FetchMs + 1), s = Primary, FeedAnswers(rate, age)
          PROVE  Settles
      <3>0. rate \in Nat
        BY Periods
      <3>1. age \in Nat
        OBVIOUS
      <3>2. CASE Fresh(age)
        <4>1. Answered(rate, age) \in ReportRecord /\ InTime(Answered(rate, age))
          BY <2>3, <3>0, <3>1, <3>2 DEF Fresh
        <4> QED
          BY <2>5, <3>2, <4>1 DEF FeedAnswers
      <3>3. CASE ~Fresh(age)
        BY <2>2, <2>5, <3>3 DEF FeedAnswers
      <3> QED
        BY <3>2, <3>3
    <2>6. CASE SourceFails(s)
      BY <2>1, <2>2, <2>6 DEF SourceFails
    <2>7. CASE FeedFails /\ s = Primary
      BY <2>1, <2>2, <2>7 DEF FeedFails
    <2>8. CASE FeedUnread /\ s = Primary
      BY <2>1, <2>2, <2>8 DEF FeedUnread
    <2> QED
      BY <2>4, <2>5, <2>6, <2>7, <2>8 DEF SourceReports, RateAsked
  <1>2. PICK report \in ReportRecord : Reports(s, report) /\ InTime(report)
    BY <1>1
  <1>3. /\ round' = [round EXCEPT !.report = [@ EXCEPT ![s] = report]]
        /\ cachedPrice' = cachedPrice
    BY <1>2 DEF Reports, QuotingInv, RoundOK
  <1>4. /\ round'.age = round.age /\ round'.running = round.running
        /\ round'.report[Primary] = IF s = Primary THEN report ELSE round.report[Primary]
        /\ round' \in [running: BOOLEAN, age: 0..FetchMs, report: [Sources -> ReportRecord]]
    BY <1>3 DEF QuotingInv, RoundOK, Sources
  <1>5. RoundOK'
    BY <1>2, <1>4 DEF RoundOK, QuotingInv
  <1>6. ClientOK' /\ CacheOK' /\ GuidanceOK'
    BY <1>0, <1>3 DEF QuotingInv, ClientOK, BundlerClientTypeOK, LastAttempt, CacheOK, Cached,
                      PriceOK, GuidanceOK, GuidanceTypeOK, HasGuidance
  <1>7. ASSUME NEW q \in Calls
        PROVE  QuoteOK(q)'
    BY <1>0, <1>4, QuoteKept DEF QuotingInv
  <1> QED
    BY <1>0, <1>1, <1>5, <1>6, <1>7 DEF QuotingInv

-----------------------------------------------------------------------------
(* Bytes. *)

LEMMA Widths ==
  /\ {Base, AddressBytes, GasBytes} \subseteq Nat \ {0}
  /\ GasConfig \in GasSettings
  /\ Absent \notin Nat /\ Absent \notin ByteStrings
  /\ Refused \notin ByteStrings /\ Refused \notin NormalizedData
  /\ Refused \notin UserOperations /\ Refused # Absent
  /\ EnvelopeBytes = AddressBytes + GasBytes + GasBytes
  BY UserOpWireAssumption DEF EnvelopeBytes

LEMMA PowerEquation ==
  /\ Power[0] = 1
  /\ \A n \in Nat \ {0} : Power[n] = Base * Power[n - 1]
  <1>1. PICK f : f = [n \in Nat |-> IF n = 0 THEN 1 ELSE Base * f[n - 1]]
    BY Widths, PowersExist
  <1>2. Power = [n \in Nat |-> IF n = 0 THEN 1 ELSE Base * Power[n - 1]]
    BY <1>1 DEF Power
  <1> QED
    BY <1>2

LEMMA PowerPositive == \A n \in Nat : Power[n] \in Nat \ {0}
  <1> DEFINE T == {n \in Nat : Power[n] \in Nat \ {0}}
  <1>1. T \in SUBSET Nat /\ 0 \in T
    BY PowerEquation
  <1>2. ASSUME NEW n \in T
        PROVE  n + 1 \in T
    <2>1. Power[n + 1] = Base * Power[n]
      BY PowerEquation
    <2>2. Base * Power[n] \in Nat \ {0}
      BY Widths
    <2> QED
      BY <2>1, <2>2
  <1> HIDE DEF T
  <1>3. T = Nat
    BY <1>1, <1>2, Induction
  <1> QED
    BY <1>3 DEF T

LEMMA WordType ==
  ASSUME NEW v \in Nat, NEW width \in Nat
  PROVE  Word(v, width) \in ByteStrings /\ Len(Word(v, width)) = width
  <1>1. ASSUME NEW i \in 1..width
        PROVE  (v \div Power[width - i]) % Base \in Bytes
    <2>1. Power[width - i] \in Nat \ {0} /\ Base \in Nat \ {0}
      BY PowerPositive, Widths
    <2>2. v \div Power[width - i] \in Nat
      BY <2>1, QuotientAndRest
    <2> QED
      BY <2>1, <2>2, QuotientAndRest DEF Bytes
  <1>2. Word(v, width) \in [1..width -> Bytes]
    BY <1>1 DEF Word
  <1>3. Word(v, width) \in Seq(Bytes)
    BY <1>2, SeqDef
  <1> QED
    BY <1>2, <1>3, LenProperties DEF ByteStrings

LEMMA Uint128Type ==
  ASSUME NEW v \in Nat
  PROVE  Uint128(v) \in ByteStrings /\ Len(Uint128(v)) = GasBytes
  BY WordType, Widths DEF Uint128

\* No two numbers have the same word: quotients by the powers, from the highest
\* on, are made of the digits.
LEMMA WordsDiffer ==
  ASSUME NEW width \in Nat, NEW v \in Nat, NEW w \in Nat,
         v < Power[width], w < Power[width], Word(v, width) = Word(w, width)
  PROVE  v = w
  <1> DEFINE T == {k \in Nat : k <= width =>
                     v \div Power[width - k] = w \div Power[width - k]}
  <1>1. T \in SUBSET Nat
    OBVIOUS
  <1>2. 0 \in T
    <2>1. v \div Power[width] = 0 /\ w \div Power[width] = 0 /\ width - 0 = width
      BY PowerPositive, SmallQuotient
    <2> QED
      BY <2>1
  <1>3. ASSUME NEW k \in T
        PROVE  k + 1 \in T
    <2> SUFFICES ASSUME k + 1 <= width
                 PROVE  v \div Power[width - (k + 1)] = w \div Power[width - (k + 1)]
      OBVIOUS
    <2> DEFINE p == Power[width - (k + 1)]
    <2>1. /\ width - k \in Nat \ {0} /\ (width - k) - 1 = width - (k + 1)
          /\ width - (k + 1) \in Nat /\ k + 1 \in 1..width /\ k <= width
      OBVIOUS
    <2>2. Power[width - k] = Base * p
      BY <2>1, PowerEquation
    <2>3. p \in Nat \ {0} /\ Base \in Nat \ {0} /\ Base * p = p * Base
      BY <2>1, PowerPositive, Widths
    <2>4. Word(v, width)[k + 1] = (v \div p) % Base /\ Word(w, width)[k + 1] = (w \div p) % Base
      BY <2>1 DEF Word
    <2>5. v \div Power[width - k] = w \div Power[width - k]
      BY <2>1
    <2> HIDE DEF p
    <2>6. (v \div p) \div Base = (w \div p) \div Base
      <3>1. /\ (v \div p) \div Base = v \div (p * Base)
            /\ (w \div p) \div Base = w \div (p * Base)
        BY <2>3, DivisionTwice
      <3>2. p * Base = Power[width - k]
        BY <2>2, <2>3
      <3> QED
        BY <2>5, <3>1, <3>2
    <2>7. v \div p \in Nat /\ w \div p \in Nat
      BY <2>3, QuotientAndRest
    <2>8. /\ v \div p = Base * ((v \div p) \div Base) + ((v \div p) % Base)
          /\ w \div p = Base * ((w \div p) \div Base) + ((w \div p) % Base)
      BY <2>3, <2>7, QuotientAndRest
    <2>9. v \div p = w \div p
      BY <2>4, <2>6, <2>8
    <2> QED
      BY <2>9 DEF p
  <1> HIDE DEF T
  <1>4. T = Nat
    BY <1>1, <1>2, <1>3, Induction
  <1>5. v \div Power[width - width] = w \div Power[width - width]
    BY <1>4 DEF T
  <1>6. Power[width - width] = 1
    BY PowerEquation
  <1> QED
    BY <1>5, <1>6

\* A uint128 is read back as it was written, and by no other number: what is
\* not wider than GasBytes survives its encoding, for any base and width
\* (shared/src/index.ts:115-123).
THEOREM ReadBack ==
  ASSUME NEW v \in Nat, Fits(v)
  PROVE  FromUint128(Uint128(v)) = v
  <1>1. Power[GasBytes] \in Nat \ {0} /\ GasBytes \in Nat
    BY PowerPositive, Widths
  <1>2. v \in 0..Uint128Max
    BY <1>1 DEF Fits, Uint128Max
  <1> DEFINE w == FromUint128(Uint128(v))
  <1>3. w \in 0..Uint128Max /\ Uint128(w) = Uint128(v)
    BY <1>2 DEF FromUint128
  <1> HIDE DEF w
  <1>4. w \in Nat /\ w < Power[GasBytes] /\ v < Power[GasBytes]
    BY <1>1, <1>2, <1>3 DEF Uint128Max
  <1>5. w = v
    BY <1>1, <1>3, <1>4, WordsDiffer DEF Uint128
  <1> QED
    BY <1>5 DEF w

\* A number below the last power but one starts with a zero.
LEMMA LeadingZero ==
  ASSUME NEW v \in Nat, v < Power[GasBytes - 1]
  PROVE  Uint128(v)[1] = 0
  <1>1. 1 \in 1..GasBytes /\ GasBytes - 1 \in Nat
    BY Widths
  <1>2. v \div Power[GasBytes - 1] = 0
    BY <1>1, PowerPositive, SmallQuotient
  <1>3. 0 % Base = 0
    BY Widths
  <1> QED
    BY <1>1, <1>2, <1>3 DEF Uint128, Word

LEMMA Piece ==
  ASSUME NEW s \in ByteStrings, NEW p \in ByteStrings, NEW t \in ByteStrings
  PROVE  SubSeq(s \o p \o t, Len(s) + 1, Len(s) + Len(p)) = p
  <1> DEFINE b == (s \o p) \o t
             sub == SubSeq(b, Len(s) + 1, Len(s) + Len(p))
  <1>1. Len(s) \in Nat /\ Len(p) \in Nat /\ Len(t) \in Nat
    BY LenProperties DEF ByteStrings
  <1>2. /\ s \o p \in Seq(Bytes) /\ Len(s \o p) = Len(s) + Len(p)
        /\ \A i \in 1..(Len(s) + Len(p)) :
             (s \o p)[i] = IF i <= Len(s) THEN s[i] ELSE p[i - Len(s)]
    BY ConcatProperties DEF ByteStrings
  <1>3. \A i \in 1..(Len(s) + Len(p) + Len(t)) :
          b[i] = IF i <= Len(s) + Len(p) THEN (s \o p)[i] ELSE t[i - (Len(s) + Len(p))]
    BY <1>2, ConcatProperties DEF ByteStrings
  <1>4. ASSUME NEW i \in (Len(s) + 1)..(Len(s) + Len(p))
        PROVE  b[i] = p[i - Len(s)] /\ b[i] \in Bytes
    <2>1. /\ i \in 1..(Len(s) + Len(p) + Len(t)) /\ i \in 1..(Len(s) + Len(p))
          /\ ~(i <= Len(s)) /\ i <= Len(s) + Len(p) /\ i - Len(s) \in 1..Len(p)
      BY <1>1
    <2>2. b[i] = p[i - Len(s)]
      BY <1>2, <1>3, <2>1
    <2> QED
      BY <2>1, <2>2, ElementOfSeq DEF ByteStrings
  <1> HIDE DEF b
  <1>5. /\ sub \in Seq(Bytes)
        /\ Len(sub) = Len(p)
        /\ \A i \in 1..Len(p) : sub[i] = b[Len(s) + i]
    <2>1. Len(s) + 1 \in Int /\ Len(s) + Len(p) \in Int
          /\ (Len(s) + Len(p)) - (Len(s) + 1) + 1 = Len(p)
      BY <1>1
    <2>2. /\ sub \in Seq(Bytes)
          /\ Len(sub) = IF Len(s) + 1 <= Len(s) + Len(p)
                        THEN (Len(s) + Len(p)) - (Len(s) + 1) + 1 ELSE 0
          /\ \A i \in 1..((Len(s) + Len(p)) - (Len(s) + 1) + 1) : sub[i] = b[(Len(s) + 1) + i - 1]
      BY <1>4, <2>1, SubSeqProperties
    <2> QED
      BY <1>1, <2>1, <2>2
  <1> HIDE DEF sub
  <1>6. ASSUME NEW i \in 1..Len(p)
        PROVE  sub[i] = p[i]
    <2>1. Len(s) + i \in (Len(s) + 1)..(Len(s) + Len(p)) /\ (Len(s) + i) - Len(s) = i
      BY <1>1
    <2>2. b[Len(s) + i] = p[(Len(s) + i) - Len(s)]
      BY <1>4, <2>1
    <2> QED
      BY <1>5, <2>1, <2>2
  <1>7. sub = p
    BY <1>5, <1>6, SeqEqual DEF ByteStrings
  <1> QED
    BY <1>7 DEF sub, b

LEMMA Joined ==
  ASSUME NEW s \in ByteStrings, NEW t \in ByteStrings
  PROVE  s \o t \in ByteStrings /\ Len(s \o t) = Len(s) + Len(t) /\ Len(s) \in Nat
  BY ConcatProperties, LenProperties DEF ByteStrings

LEMMA Associative ==
  ASSUME NEW s \in ByteStrings, NEW t \in ByteStrings, NEW u \in ByteStrings
  PROVE  (s \o t) \o u = s \o (t \o u)
  BY DEF ByteStrings

\* An address and what follows it.
LEMMA Legacy ==
  ASSUME NEW a \in ByteStrings, Len(a) = AddressBytes, NEW d \in ByteStrings
  PROVE  /\ SubSeq(a \o d, 1, AddressBytes) = a
         /\ After(a \o d, AddressBytes) = d
  <1>1. <<>> \in ByteStrings /\ Len(<<>>) = 0
    BY EmptySeq DEF ByteStrings
  <1>2. (<<>> \o a) \o d = a \o d /\ (a \o d) \o <<>> = a \o d
    <2>1. a \o d \in Seq(Bytes) /\ a \in Seq(Bytes)
      BY Joined DEF ByteStrings
    <2> QED
      BY <2>1, ConcatEmptySeq
  <1>3. SubSeq((<<>> \o a) \o d, Len(<<>>) + 1, Len(<<>>) + Len(a)) = a
    BY <1>1, Piece
  <1>4. SubSeq((a \o d) \o <<>>, Len(a) + 1, Len(a) + Len(d)) = d
    BY <1>1, Piece
  <1>5. Len(a \o d) = Len(a) + Len(d)
    BY Joined
  <1> QED
    BY <1>1, <1>2, <1>3, <1>4, <1>5, Widths DEF After

\* An address, two words, and what follows them.
IsEnvelope(bytes, a, u, w, d) ==
  /\ bytes \in ByteStrings /\ Len(bytes) >= EnvelopeBytes
  /\ SubSeq(bytes, 1, AddressBytes) = a
  /\ VerificationWord(bytes) = u /\ PostOpWord(bytes) = w
  /\ After(bytes, EnvelopeBytes) = d

LEMMA Envelope ==
  ASSUME NEW a \in ByteStrings, Len(a) = AddressBytes,
         NEW u \in ByteStrings, Len(u) = GasBytes,
         NEW w \in ByteStrings, Len(w) = GasBytes,
         NEW d \in ByteStrings
  PROVE  IsEnvelope(a \o u \o w \o d, a, u, w, d)
  <1> DEFINE bytes == a \o u \o w \o d
  <1>0. a \o u \in ByteStrings /\ Len(a \o u) = AddressBytes + GasBytes
    BY Joined
  <1>1. /\ (a \o u) \o w \in ByteStrings /\ Len((a \o u) \o w) = EnvelopeBytes
        /\ w \o d \in ByteStrings
    BY <1>0, Joined, Widths
  <1>9. u \o (w \o d) \in ByteStrings /\ Len(d) \in Nat
    BY <1>1, Joined
  <1>2. bytes \in ByteStrings /\ Len(bytes) = EnvelopeBytes + Len(d)
    BY <1>1, Joined
  <1>3. bytes = (a \o u) \o (w \o d) /\ bytes = a \o (u \o (w \o d))
    <2>1. \A x, y, z \in ByteStrings : (x \o y) \o z = x \o (y \o z)
      BY Associative
    <2>2. ((a \o u) \o w) \o d = (a \o u) \o (w \o d)
      BY <1>0, <1>1, <2>1
    <2>3. (a \o u) \o (w \o d) = a \o (u \o (w \o d))
      BY <1>0, <1>1, <2>1
    <2> QED
      BY <2>2, <2>3
  <1>4. SubSeq(bytes, 1, AddressBytes) = a
    BY <1>9, <1>3, Legacy
  <1>5. VerificationWord(bytes) = u
    <2>1. SubSeq((a \o u) \o (w \o d), Len(a) + 1, Len(a) + Len(u)) = u
      BY <1>0, <1>1, Piece
    <2> QED
      BY <1>3, <2>1 DEF VerificationWord
  <1>6. PostOpWord(bytes) = w
    <2>1. SubSeq(((a \o u) \o w) \o d, Len(a \o u) + 1, Len(a \o u) + Len(w)) = w
      BY <1>0, <1>1, Piece
    <2> QED
      BY <1>0, <2>1, Widths DEF PostOpWord
  <1>7. After(bytes, EnvelopeBytes) = d
    <2>1. /\ <<>> \in ByteStrings
          /\ (((a \o u) \o w) \o d) \o <<>> = bytes
      BY <1>2, EmptySeq, ConcatEmptySeq DEF ByteStrings
    <2>2. SubSeq((((a \o u) \o w) \o d) \o <<>>, Len((a \o u) \o w) + 1,
                 Len((a \o u) \o w) + Len(d)) = d
      BY <1>1, <2>1, Piece
    <2> QED
      BY <1>1, <1>2, <2>1, <2>2 DEF After
  <1>8. Len(bytes) >= EnvelopeBytes
    BY <1>2, <1>9, Widths
  <1> QED
    BY <1>2, <1>4, <1>5, <1>6, <1>7, <1>8 DEF IsEnvelope

-----------------------------------------------------------------------------
(* Requests and their estimates. *)

GasEstimates ==
  [callGasLimit: Nat, verificationGasLimit: Nat, preVerificationGas: Nat,
   paymasterVerificationGasLimit: Nat, paymasterPostOpGasLimit: Nat]

Simulations == [preOpGas: Optional, gas: Optional]

LEMMA Resolved ==
  ASSUME NEW op \in UserOperations
  PROVE  ResolveInitCode(op) \in ByteStrings \cup {Refused}
  <1>1. <<>> \in ByteStrings
    BY EmptySeq DEF ByteStrings
  <1>2. op.initCode \in OptionalBytes /\ op.factory \in OptionalBytes
        /\ op.factoryData \in OptionalBytes
    BY DEF UserOperations
  <1>3. Given(op.initCode, <<>>) \in ByteStrings /\ Given(op.factoryData, <<>>) \in ByteStrings
    BY <1>1, <1>2 DEF Given, OptionalBytes
  <1>4. op.factory # Absent => op.factory \o Given(op.factoryData, <<>>) \in ByteStrings
    BY <1>2, <1>3, Joined DEF OptionalBytes
  <1> QED
    BY <1>1, <1>3, <1>4 DEF ResolveInitCode

LEMMA EstimationRequest ==
  ASSUME NEW request \in UserOperations, ResolveInitCode(request) # Refused
  PROVE  /\ EstimationUserOp(request) \in UserOperations
         /\ EstimationUserOp(request).chainId = request.chainId
  <1> DEFINE initCode == ResolveInitCode(request)
             signature == IF request.signature = <<>> THEN DummySignature ELSE request.signature
             op == [request EXCEPT !.initCode = initCode, !.factory = Absent,
                                   !.factoryData = Absent, !.signature = signature]
  <1>1. initCode \in OptionalBytes /\ Absent \in OptionalBytes
    BY Resolved DEF OptionalBytes
  <1>2. signature \in ByteStrings
    BY QuotingAssumption DEF UserOperations
  <1>3. EstimationUserOp(request) = op
    BY DEF EstimationUserOp, UserOperations
  <1> HIDE DEF initCode, signature
  <1>4. op \in UserOperations /\ op.chainId = request.chainId
    BY <1>1, <1>2 DEF UserOperations
  <1> QED
    BY <1>3, <1>4

\* What the bundler's parsing keeps and what it has checked.
LEMMA Parsed ==
  ASSUME NEW op \in UserOperations, NEW r, r = ParseUserOperation(op), r # Refused
  PROVE  /\ r.initCode = ResolveInitCode(op) /\ r.initCode \in ByteStrings
         /\ r.callData = op.callData /\ r.callGasLimit = op.callGasLimit
         /\ r.verificationGasLimit = op.verificationGasLimit
         /\ r.preVerificationGas = op.preVerificationGas
         /\ r.l1DataGas = op.l1DataGas
         /\ op.chainId \in {Absent, ChainId}
  <1> DEFINE initCode == ResolveInitCode(op)
             normal == NormalizePaymasterAndData(op.paymasterAndData,
                         op.paymasterVerificationGasLimit, op.paymasterPostOpGasLimit)
             parsed == [op EXCEPT !.initCode = initCode, !.factory = Absent,
                                  !.factoryData = Absent]
             Data(bytes, v, p) == [parsed EXCEPT !.paymasterAndData = bytes,
                                     !.paymasterVerificationGasLimit = v,
                                     !.paymasterPostOpGasLimit = p]
  <1>1. initCode # Refused /\ op.chainId \in {Absent, ChainId}
        /\ (r = parsed \/ \E bytes, v, p : r = Data(bytes, v, p))
    BY DEF ParseUserOperation
  <1>2. initCode \in ByteStrings
    BY <1>1, Resolved
  <1> HIDE DEF initCode, normal
  <1>3. CASE r = parsed
    BY <1>1, <1>2, <1>3 DEF UserOperations, initCode
  <1>4. ASSUME NEW bytes, NEW v, NEW p, r = Data(bytes, v, p)
        PROVE  /\ r.initCode = initCode /\ r.callData = op.callData
               /\ r.callGasLimit = op.callGasLimit
               /\ r.verificationGasLimit = op.verificationGasLimit
               /\ r.preVerificationGas = op.preVerificationGas
               /\ r.l1DataGas = op.l1DataGas
    BY <1>4 DEF UserOperations
  <1> QED
    BY <1>1, <1>2, <1>3, <1>4 DEF initCode

LEMMA Estimated ==
  ASSUME NEW op, op.callData \in ByteStrings, op.initCode \in ByteStrings,
         op.callGasLimit \in Optional, op.verificationGasLimit \in Optional,
         op.preVerificationGas \in Optional, op.l1DataGas \in Optional,
         NEW preOpGas \in Optional, NEW gas \in Optional
  PROVE  LET estimate == EstimateUserOperationGas(op, preOpGas, gas) IN
         /\ estimate \in GasEstimates
         /\ estimate.paymasterVerificationGasLimit = GasConfig.paymasterVerificationGasLimit
  <1> DEFINE callDataBytes == Len(op.callData)
             initCodeBytes == Len(op.initCode)
             callGas == GasConfig.baseCallGas + callDataBytes * GasConfig.perByteCallDataGas
             floor == GasConfig.baseVerificationGas
                      + callDataBytes * GasConfig.perByteVerificationGas
                      + initCodeBytes * 8
                      + (IF initCodeBytes > 0 THEN GasConfig.initCodeDeployGas ELSE 0)
             pre == Given(op.preVerificationGas,
                          GasConfig.basePreVerificationGas
                          + callDataBytes * GasConfig.perBytePreVerificationGas
                          + Given(op.l1DataGas, 0) * GasConfig.l1DataGasScalar)
             simulated == IF preOpGas # Absent /\ preOpGas > pre THEN preOpGas - pre ELSE 0
             callLimit == Given(op.callGasLimit,
                                IF HasCallGasEstimator
                                THEN Given(EstimateCallGas(op, gas),
                                           callGas * GasConfig.callGasHeuristicMultiplier)
                                ELSE callGas)
             limit == Larger(Given(op.verificationGasLimit, floor), simulated)
  <1>1. /\ callDataBytes \in Nat /\ initCodeBytes \in Nat
    BY LenProperties DEF ByteStrings
  <1>2. /\ GasConfig.baseCallGas \in Nat /\ GasConfig.perByteCallDataGas \in Nat
        /\ GasConfig.baseVerificationGas \in Nat /\ GasConfig.perByteVerificationGas \in Nat
        /\ GasConfig.initCodeDeployGas \in Nat /\ GasConfig.basePreVerificationGas \in Nat
        /\ GasConfig.perBytePreVerificationGas \in Nat /\ GasConfig.l1DataGasScalar \in Nat
        /\ GasConfig.callGasBufferPercent \in Nat
        /\ GasConfig.callGasHeuristicMultiplier \in Nat
        /\ GasConfig.paymasterVerificationGasLimit \in Nat
        /\ GasConfig.paymasterPostOpGasLimit \in Nat
    BY Widths DEF GasSettings
  <1> HIDE DEF callDataBytes, initCodeBytes
  <1>3. \A v \in Optional, w \in Nat : Given(v, w) \in Nat
    BY DEF Optional, Given
  <1>4. \A a, b \in Nat : a * b \in Nat /\ a + b \in Nat /\ a \div 100 \in Nat
    OBVIOUS
  <1>5. callGas \in Nat /\ callGas * GasConfig.callGasHeuristicMultiplier \in Nat
    BY <1>1, <1>2, <1>4
  <1>6. floor \in Nat
    BY <1>1, <1>2, <1>4
  <1>7. pre \in Nat
    <2>1. Given(op.l1DataGas, 0) * GasConfig.l1DataGasScalar \in Nat
      BY <1>2, <1>3, <1>4
    <2>2. callDataBytes * GasConfig.perBytePreVerificationGas \in Nat
      BY <1>1, <1>2, <1>4
    <2>3. GasConfig.basePreVerificationGas
          + callDataBytes * GasConfig.perBytePreVerificationGas
          + Given(op.l1DataGas, 0) * GasConfig.l1DataGasScalar \in Nat
      BY <1>2, <1>4, <2>1, <2>2
    <2> QED
      BY <1>3, <2>3
  <1>8. EstimateCallGas(op, gas) \in Optional
    <2>1. gas # Absent => gas \in Nat
      BY DEF Optional
    <2>2. gas # Absent => gas + (gas * GasConfig.callGasBufferPercent) \div 100 \in Nat
      BY <1>2, <1>4, <2>1
    <2> QED
      BY <2>2 DEF EstimateCallGas, Optional
  <1> HIDE DEF callGas, pre, floor
  <1>9. simulated \in Nat
    BY <1>7 DEF Optional
  <1>10. callLimit \in Nat /\ Given(op.verificationGasLimit, floor) \in Nat
    BY <1>3, <1>5, <1>6, <1>8
  <1> HIDE DEF simulated, callLimit
  <1>11. limit \in Nat
    BY <1>9, <1>10 DEF Larger
  <1> HIDE DEF limit
  <1>12. EstimateUserOperationGas(op, preOpGas, gas) =
          [callGasLimit |-> callLimit, verificationGasLimit |-> limit,
           preVerificationGas |-> pre,
           paymasterVerificationGasLimit |-> GasConfig.paymasterVerificationGasLimit,
           paymasterPostOpGasLimit |-> GasConfig.paymasterPostOpGasLimit]
    BY DEF EstimateUserOperationGas, callLimit, limit, pre, simulated, floor, callGas,
           callDataBytes, initCodeBytes
  <1> QED
    BY <1>2, <1>7, <1>10, <1>11, <1>12 DEF GasEstimates

-----------------------------------------------------------------------------
(* What the caller fills in, and what the bundler makes of it. *)

\* The configured limit is so low that its word starts with a zero, so that the
\* legacy layout, whose data starts with the mode, is not taken for packed.
LegacyRecognised == GasConfig.paymasterVerificationGasLimit < Power[GasBytes - 1]

LEMMA ConfigType ==
  ASSUME NEW gas \in GasEstimates, NEW rate \in Nat
  PROVE  /\ PaymasterConfig(gas, rate) \in ByteStrings
         /\ \A t \in ByteStrings : (PaymasterConfig(gas, rate) \o t)[1] = 3
  <1> DEFINE rest == ValidityBytes \o Token
             u == Uint128(BilledPostOpGas(gas))
             w == Word(rate, 2 * GasBytes)
             x == Uint128(BilledValidationGas(gas))
  <1>1. BilledPostOpGas(gas) \in Nat /\ BilledValidationGas(gas) \in Nat
    BY QuotingAssumption DEF BilledPostOpGas, BilledValidationGas, Smaller, GasEstimates
  <1>2. /\ u \in ByteStrings /\ w \in ByteStrings /\ x \in ByteStrings
        /\ ValidityBytes \in ByteStrings /\ Token \in ByteStrings /\ Paymaster \in ByteStrings
    BY <1>1, Uint128Type, WordType, Widths, QuotingAssumption
  <1>3. <<3, 0>> \in ByteStrings /\ Len(<<3, 0>>) = 2 /\ <<3, 0>>[1] = 3
    <2>1. 3 \in Bytes /\ 0 \in Bytes
      BY QuotingAssumption, Widths DEF Bytes
    <2> QED
      BY <2>1 DEF ByteStrings
  <1>4. PaymasterConfig(gas, rate) =
          <<3, 0>> \o ValidityBytes \o Token \o u \o w \o x \o Paymaster
    BY DEF PaymasterConfig
  <1> HIDE DEF u, w, x
  <1>5. ASSUME NEW s \in ByteStrings, NEW t \in ByteStrings, Len(s) >= 2, s[1] = 3
        PROVE  s \o t \in ByteStrings /\ Len(s \o t) >= 2 /\ (s \o t)[1] = 3
    <2>1. Len(s) \in Nat /\ Len(t) \in Nat
      BY LenProperties DEF ByteStrings
    <2>2. 1 \in 1..(Len(s) + Len(t)) /\ 1 <= Len(s)
      BY <1>5, <2>1
    <2>3. s \o t \in ByteStrings /\ Len(s \o t) = Len(s) + Len(t)
          /\ (s \o t)[1] = IF 1 <= Len(s) THEN s[1] ELSE t[1 - Len(s)]
      BY <2>2, ConcatProperties DEF ByteStrings
    <2> QED
      BY <1>5, <2>1, <2>2, <2>3
  <1> DEFINE Starts(s) == s \in ByteStrings /\ Len(s) >= 2 /\ s[1] = 3
  <1>6. \A s, t \in ByteStrings : Starts(s) => Starts(s \o t)
    BY <1>5
  <1>7. Starts(<<3, 0>>)
    BY <1>3
  <1>8. Starts(<<3, 0>>) => \A t \in ByteStrings : Starts(<<3, 0>> \o t)
    BY <1>6
  <1> HIDE DEF Starts
  <1>9. Starts(<<3, 0>> \o ValidityBytes)
    BY <1>2, <1>7, <1>8
  <1>10. \A s : Starts(s) => s \in ByteStrings /\ s[1] = 3
    BY DEF Starts
  <1>11. Starts(<<3, 0>> \o ValidityBytes \o Token)
    BY <1>2, <1>6, <1>9, <1>10
  <1>12. Starts(<<3, 0>> \o ValidityBytes \o Token \o u)
    BY <1>2, <1>6, <1>10, <1>11
  <1>13. Starts(<<3, 0>> \o ValidityBytes \o Token \o u \o w)
    BY <1>2, <1>6, <1>10, <1>12
  <1>14. Starts(<<3, 0>> \o ValidityBytes \o Token \o u \o w \o x)
    BY <1>2, <1>6, <1>10, <1>13
  <1>15. Starts(PaymasterConfig(gas, rate))
    BY <1>2, <1>4, <1>6, <1>10, <1>14
  <1> QED
    BY <1>6, <1>10, <1>15

\* What is signed, with the signature appended, is what the bundler puts
\* together from any of the three layouts.
LEMMA LayoutsAgree ==
  ASSUME LegacyRecognised, NEW gas \in GasEstimates, NEW rate \in Nat,
         gas.paymasterVerificationGasLimit = GasConfig.paymasterVerificationGasLimit,
         Fits(gas.paymasterVerificationGasLimit), Fits(gas.paymasterPostOpGasLimit)
  PROVE  LET packed == NoSig(gas, rate) \o Signature
             legacy == Paymaster \o (PaymasterConfig(gas, rate) \o Signature)
             v == gas.paymasterVerificationGasLimit
             p == gas.paymasterPostOpGasLimit
             signed == [paymasterVerificationGasLimit |-> v, paymasterPostOpGasLimit |-> p,
                        paymasterAndData |-> packed]
         IN /\ {packed, legacy} \subseteq ByteStrings \ {<<>>}
            /\ NormalizePaymasterAndData(packed, Absent, Absent) = signed
            /\ NormalizePaymasterAndData(packed, v, p) = signed
            /\ NormalizePaymasterAndData(legacy, v, p) = signed
  <1> DEFINE v == gas.paymasterVerificationGasLimit
             p == gas.paymasterPostOpGasLimit
             config == PaymasterConfig(gas, rate)
             data == config \o Signature
             packed == NoSig(gas, rate) \o Signature
             legacy == Paymaster \o data
             signed == [paymasterVerificationGasLimit |-> v, paymasterPostOpGasLimit |-> p,
                        paymasterAndData |-> packed]
             u == Uint128(v)
             w == Uint128(p)
  <1>1. /\ v \in Nat /\ p \in Nat /\ u \in ByteStrings /\ w \in ByteStrings
        /\ Len(u) = GasBytes /\ Len(w) = GasBytes
    BY Uint128Type DEF GasEstimates
  <1>2. /\ config \in ByteStrings /\ Signature \in ByteStrings /\ Paymaster \in ByteStrings
        /\ Len(Paymaster) = AddressBytes /\ data \in ByteStrings /\ data[1] = 3
    BY ConfigType, Joined, QuotingAssumption
  <1>3. u[1] = 0
    BY <1>1, LeadingZero DEF LegacyRecognised
  <1>4. FromUint128(u) = v /\ FromUint128(w) = p
    BY <1>1, ReadBack
  <1>5. NoSig(gas, rate) = Paymaster \o u \o w \o config
    BY DEF NoSig, PackPaymasterAndData
  <1>6. \A d : PackPaymasterAndData(Paymaster, v, p, d) = Paymaster \o u \o w \o d
    BY DEF PackPaymasterAndData
  <1> HIDE DEF u, w, v, p, config
  <1>7. packed = Paymaster \o u \o w \o data
    <2>1. \A x, y, z \in ByteStrings : (x \o y) \o z = x \o (y \o z)
      BY Associative
    <2>2. Paymaster \o u \in ByteStrings
      BY <1>1, <1>2, Joined
    <2>3. Paymaster \o u \o w \in ByteStrings
      BY <1>1, <2>2, Joined
    <2>4. ((Paymaster \o u \o w) \o config) \o Signature
            = (Paymaster \o u \o w) \o (config \o Signature)
      BY <1>2, <2>1, <2>3
    <2> QED
      BY <1>5, <2>4
  <1> HIDE DEF data, packed
  <1>8. /\ packed \in ByteStrings /\ Len(packed) >= EnvelopeBytes
        /\ SubSeq(packed, 1, AddressBytes) = Paymaster
        /\ VerificationWord(packed) = u /\ PostOpWord(packed) = w
        /\ After(packed, EnvelopeBytes) = data
    <2>1. IsEnvelope(Paymaster \o u \o w \o data, Paymaster, u, w, data)
      BY <1>1, <1>2, Envelope
    <2> QED
      BY <1>7, <2>1 DEF IsEnvelope
  <1>9. /\ SubSeq(legacy, 1, AddressBytes) = Paymaster /\ After(legacy, AddressBytes) = data
        /\ legacy \in ByteStrings /\ Len(legacy) = AddressBytes + Len(data) /\ Len(data) \in Nat
    BY <1>2, Legacy, Joined
  <1>10. Len(packed) \in Nat /\ Len(packed) >= AddressBytes /\ Len(legacy) >= AddressBytes
         /\ Len(legacy) \in Nat /\ Len(packed) # 0 /\ Len(legacy) # 0
         /\ AddressBytes \in Nat /\ EnvelopeBytes \in Nat
    BY <1>8, <1>9, LenProperties, Widths DEF ByteStrings
  <1>11. packed # <<>> /\ legacy # <<>>
    BY <1>10, EmptySeq
  <1>12. packed # Refused /\ v # Absent /\ p # Absent
    BY <1>1, <1>8, Widths
  <1> HIDE DEF legacy
  <1>13. Normalized(v, p, packed) = signed
    BY <1>12 DEF Normalized
  <1>14. NormalizePaymasterAndData(packed, Absent, Absent) = signed
    <2>1. NormalizePaymasterAndData(packed, Absent, Absent) = NormalizePacked(packed)
      BY <1>10 DEF NormalizePaymasterAndData
    <2>2. NormalizePacked(packed) =
            Normalized(FromUint128(VerificationWord(packed)), FromUint128(PostOpWord(packed)), packed)
      BY <1>8, <1>10 DEF NormalizePacked
    <2> QED
      BY <1>4, <1>8, <1>13, <2>1, <2>2
  <1>15. ASSUME NEW bytes, Len(bytes) \in Nat, Len(bytes) >= AddressBytes,
                SubSeq(bytes, 1, AddressBytes) = Paymaster,
                After(bytes, IF IsPacked(bytes, v, p) THEN EnvelopeBytes ELSE AddressBytes) = data
         PROVE  NormalizePaymasterAndData(bytes, v, p) = signed
    <2>1. NormalizePaymasterAndData(bytes, v, p) = NormalizeWithLimits(bytes, v, p)
      BY <1>10, <1>12, <1>15 DEF NormalizePaymasterAndData
    <2>2. NormalizeWithLimits(bytes, v, p)
            = Normalized(v, p, PackPaymasterAndData(Paymaster, v, p, data))
      BY <1>15 DEF NormalizeWithLimits
    <2> QED
      BY <1>6, <1>7, <1>13, <2>1, <2>2
  <1>16. NormalizePaymasterAndData(packed, v, p) = signed
    <2>1. IsPacked(packed, v, p)
      BY <1>8 DEF IsPacked, u, w
    <2> QED
      BY <1>8, <1>10, <1>15, <2>1
  <1>17. NormalizePaymasterAndData(legacy, v, p) = signed
    <2>1. ASSUME Len(legacy) >= EnvelopeBytes
          PROVE  VerificationWord(legacy)[1] = 3
      <3>1. /\ AddressBytes + 1 \in Int /\ AddressBytes + GasBytes \in Int
            /\ 1 \in 1..((AddressBytes + GasBytes) - (AddressBytes + 1) + 1)
            /\ AddressBytes + 1 \in 1..(AddressBytes + Len(data)) /\ 1 <= Len(data)
            /\ AddressBytes + GasBytes <= Len(legacy)
        BY <1>9, <2>1, Widths
      <3>2. \A i \in (AddressBytes + 1)..(AddressBytes + GasBytes) : legacy[i] \in Bytes
        BY <1>9, <1>10, <3>1, ElementOfSeq DEF ByteStrings
      <3>3. VerificationWord(legacy)[1] = legacy[(AddressBytes + 1) + 1 - 1]
        BY <3>1, <3>2, SubSeqProperties DEF VerificationWord
      <3>4. legacy[AddressBytes + 1] = data[(AddressBytes + 1) - AddressBytes]
        <4>1. \A i \in 1..(Len(Paymaster) + Len(data)) : legacy[i] =
                IF i <= Len(Paymaster) THEN Paymaster[i] ELSE data[i - Len(Paymaster)]
          BY <1>2, ConcatProperties DEF ByteStrings, legacy
        <4> QED
          BY <1>2, <1>10, <3>1, <4>1
      <3>5. (AddressBytes + 1) + 1 - 1 = AddressBytes + 1 /\ (AddressBytes + 1) - AddressBytes = 1
        BY <1>10
      <3> QED
        BY <1>2, <3>3, <3>4, <3>5
    <2>2. ~IsPacked(legacy, v, p)
      BY <1>3, <2>1 DEF IsPacked, u
    <2> QED
      BY <1>9, <1>10, <1>15, <2>2
  <1> QED
    BY <1>8, <1>9, <1>11, <1>14, <1>16, <1>17 DEF v, p, packed, legacy, data, config

GasFields ==
  {"callGasLimit", "verificationGasLimit", "preVerificationGas",
   "paymasterVerificationGasLimit", "paymasterPostOpGasLimit"}

\* Of an operation that has all its gas fields nothing is estimated.
LEMMA NothingToPrepare ==
  ASSUME NEW op \in UserOperations, \A f \in GasFields : op[f] # Absent,
         op.paymasterAndData # Absent, NEW preOpGas, NEW gas
  PROVE  PrepareUserOperation(op, preOpGas, gas) = op
  <1> DEFINE estimate == EstimateUserOperationGas(op, preOpGas, gas)
             prepared == PrepareUserOperation(op, preOpGas, gas)
  <1>1. DOMAIN estimate = GasFields
    BY DEF EstimateUserOperationGas, GasFields
  <1> HIDE DEF estimate
  <1>2. prepared = [f \in DOMAIN op |->
          CASE f \in DOMAIN estimate -> Given(op[f], estimate[f])
            [] f = "paymasterAndData" -> Given(op[f], <<>>)
            [] OTHER -> op[f]]
    BY DEF PrepareUserOperation, estimate
  <1>3. ASSUME NEW f \in DOMAIN op
        PROVE  prepared[f] = op[f]
    <2>1. CASE f \in GasFields
      <3>1. f # "paymasterAndData" /\ op[f] # Absent
        BY <2>1 DEF GasFields
      <3> QED
        BY <1>1, <1>2, <2>1, <3>1 DEF Given
    <2>2. CASE f \notin GasFields
      BY <1>1, <1>2, <2>2 DEF Given
    <2> QED
      BY <2>1, <2>2
  <1>4. op = [f \in DOMAIN op |-> op[f]]
    BY DEF UserOperations
  <1> HIDE DEF prepared
  <1>5. prepared = op
    BY <1>2, <1>3, <1>4
  <1> QED
    BY <1>5 DEF prepared

FilledWith(request, gas, bytes, v, p) ==
  [request EXCEPT
     !.callGasLimit = gas.callGasLimit,
     !.verificationGasLimit = gas.verificationGasLimit,
     !.preVerificationGas = gas.preVerificationGas,
     !.paymasterVerificationGasLimit = v,
     !.paymasterPostOpGasLimit = p,
     !.paymasterAndData = bytes,
     !.signature = Signature]

LEMMA SigningHashSigned ==
  ASSUME NEW request, NEW gas, NEW rate
  PROVE  [SigningHash(request, gas, rate) EXCEPT !.paymasterAndData = @ \o Signature] =
           [initCode |-> ResolveInitCode(request),
            callData |-> request.callData,
            accountGasLimits |-> Uint128Pair(gas.verificationGasLimit, gas.callGasLimit),
            preVerificationGas |-> gas.preVerificationGas,
            gasFees |-> Uint128Pair(request.maxPriorityFeePerGas, request.maxFeePerGas),
            paymasterAndData |-> NoSig(gas, rate) \o Signature]
  <1> DEFINE hash == SigningHash(request, gas, rate)
             signed == [hash EXCEPT !.paymasterAndData = @ \o Signature]
             Fields == {"initCode", "callData", "accountGasLimits", "preVerificationGas",
                        "gasFees", "paymasterAndData"}
  <1>1. /\ DOMAIN hash = Fields /\ hash = [f \in DOMAIN hash |-> hash[f]]
        /\ hash.initCode = ResolveInitCode(request) /\ hash.callData = request.callData
        /\ hash.accountGasLimits = Uint128Pair(gas.verificationGasLimit, gas.callGasLimit)
        /\ hash.preVerificationGas = gas.preVerificationGas
        /\ hash.gasFees = Uint128Pair(request.maxPriorityFeePerGas, request.maxFeePerGas)
        /\ hash.paymasterAndData = NoSig(gas, rate)
    BY DEF SigningHash
  <1> HIDE DEF hash
  <1>2. /\ signed = [f \in Fields |-> signed[f]]
        /\ signed.paymasterAndData = hash.paymasterAndData \o Signature
        /\ \A f \in Fields \ {"paymasterAndData"} : signed[f] = hash[f]
    BY <1>1
  <1> HIDE DEF signed
  <1>3. signed = [initCode |-> hash.initCode, callData |-> hash.callData,
                  accountGasLimits |-> hash.accountGasLimits,
                  preVerificationGas |-> hash.preVerificationGas, gasFees |-> hash.gasFees,
                  paymasterAndData |-> hash.paymasterAndData \o Signature]
    BY <1>2
  <1> QED
    BY <1>1, <1>3 DEF signed, hash

AsSigned(op, request, gas, packed) ==
  /\ op # Refused
  /\ Packable(op)
  /\ op.paymasterVerificationGasLimit = gas.paymasterVerificationGasLimit
  /\ op.paymasterPostOpGasLimit = gas.paymasterPostOpGasLimit
  /\ PackUserOperation(op) =
       [initCode |-> ResolveInitCode(request),
        callData |-> request.callData,
        accountGasLimits |-> Uint128Pair(gas.verificationGasLimit, gas.callGasLimit),
        preVerificationGas |-> gas.preVerificationGas,
        gasFees |-> Uint128Pair(request.maxPriorityFeePerGas, request.maxFeePerGas),
        paymasterAndData |-> packed]
  /\ PackUserOperation(op) = CanonicalUserOp(op)

\* The admitted operation, when its paymasterAndData is normalised to `packed`.
LEMMA FilledAdmitted ==
  ASSUME NEW request \in UserOperations, ResolveInitCode(request) # Refused,
         request.chainId \in {Absent, ChainId},
         NEW gas \in GasEstimates, Encodable(request, gas),
         NEW bytes \in ByteStrings \ {<<>>}, NEW packed \in ByteStrings,
         NEW v \in {Absent, gas.paymasterVerificationGasLimit},
         NEW p \in {Absent, gas.paymasterPostOpGasLimit},
         NormalizePaymasterAndData(bytes, v, p) =
           [paymasterVerificationGasLimit |-> gas.paymasterVerificationGasLimit,
            paymasterPostOpGasLimit |-> gas.paymasterPostOpGasLimit,
            paymasterAndData |-> packed],
         NEW simulation
  PROVE  AsSigned(Admitted(FilledWith(request, gas, bytes, v, p), simulation),
                  request, gas, packed)
  <1> DEFINE filled == FilledWith(request, gas, bytes, v, p)
             initCode == ResolveInitCode(request)
             gv == gas.paymasterVerificationGasLimit
             gp == gas.paymasterPostOpGasLimit
             normal == [paymasterVerificationGasLimit |-> gv, paymasterPostOpGasLimit |-> gp,
                        paymasterAndData |-> packed]
             op == [request EXCEPT
                      !.initCode = initCode, !.factory = Absent, !.factoryData = Absent,
                      !.callGasLimit = gas.callGasLimit,
                      !.verificationGasLimit = gas.verificationGasLimit,
                      !.preVerificationGas = gas.preVerificationGas,
                      !.paymasterVerificationGasLimit = gv,
                      !.paymasterPostOpGasLimit = gp,
                      !.paymasterAndData = packed,
                      !.signature = Signature]
  <1>1. /\ gv \in Nat /\ gp \in Nat /\ gas.callGasLimit \in Nat
        /\ gas.verificationGasLimit \in Nat /\ gas.preVerificationGas \in Nat
    BY DEF GasEstimates
  <1>2. /\ Signature \in ByteStrings /\ Signature # <<>>
        /\ initCode \in ByteStrings /\ initCode # Refused
    BY Resolved, QuotingAssumption
  <1>3. /\ Absent \notin Nat /\ Absent \notin ByteStrings /\ normal \in NormalizedData
        /\ Refused \notin NormalizedData /\ Refused \notin UserOperations
    BY <1>1, Widths DEF NormalizedData
  <1>4. Given(v, gv) = gv /\ Given(p, gp) = gp
    BY DEF Given
  <1>5. /\ filled.initCode = request.initCode /\ filled.factory = request.factory
        /\ filled.factoryData = request.factoryData
    BY DEF FilledWith, UserOperations
  <1>6. ResolveInitCode(filled) = initCode
    BY <1>5 DEF ResolveInitCode
  <1> HIDE DEF initCode, gv, gp
  <1>7. /\ filled.chainId = request.chainId /\ filled.signature = Signature
        /\ filled.paymasterAndData = bytes
        /\ filled.paymasterVerificationGasLimit = v /\ filled.paymasterPostOpGasLimit = p
    BY DEF FilledWith, UserOperations
  <1>8. ParseUserOperation(filled) =
          [[filled EXCEPT !.initCode = initCode, !.factory = Absent, !.factoryData = Absent]
             EXCEPT !.paymasterAndData = packed,
                    !.paymasterVerificationGasLimit = Given(@, gv),
                    !.paymasterPostOpGasLimit = Given(@, gp)]
    <2> DEFINE n == NormalizePaymasterAndData(filled.paymasterAndData,
                      filled.paymasterVerificationGasLimit, filled.paymasterPostOpGasLimit)
    <2>1. n = normal
      BY <1>7 DEF gv, gp
    <2>2. n # Refused /\ filled.paymasterAndData \notin {Absent, <<>>}
      BY <1>3, <1>7, <2>1
    <2>3. /\ filled.chainId \in {Absent, ChainId} /\ ResolveInitCode(filled) # Refused
          /\ filled.signature # <<>>
      BY <1>2, <1>6, <1>7
    <2>4. ParseUserOperation(filled) =
            [[filled EXCEPT !.initCode = ResolveInitCode(filled), !.factory = Absent,
                            !.factoryData = Absent]
               EXCEPT !.paymasterAndData = n.paymasterAndData,
                      !.paymasterVerificationGasLimit = Given(@, n.paymasterVerificationGasLimit),
                      !.paymasterPostOpGasLimit = Given(@, n.paymasterPostOpGasLimit)]
      <3> HIDE DEF filled
      <3> QED
        BY <2>2, <2>3 DEF ParseUserOperation
    <2>5. /\ n.paymasterAndData = packed /\ n.paymasterVerificationGasLimit = gv
          /\ n.paymasterPostOpGasLimit = gp
      BY <2>1
    <2> HIDE DEF n, filled
    <2> QED
      BY <1>6, <2>4, <2>5
  <1>9. ParseUserOperation(filled) = op
    BY <1>4, <1>8 DEF FilledWith, UserOperations
  <1>10. op \in UserOperations
    BY <1>1, <1>2 DEF UserOperations, OptionalBytes, Optional
  <1>11. /\ op.initCode = initCode /\ op.callData = request.callData
         /\ op.callGasLimit = gas.callGasLimit
         /\ op.verificationGasLimit = gas.verificationGasLimit
         /\ op.preVerificationGas = gas.preVerificationGas
         /\ op.paymasterVerificationGasLimit = gv /\ op.paymasterPostOpGasLimit = gp
         /\ op.paymasterAndData = packed
         /\ op.maxFeePerGas = request.maxFeePerGas
         /\ op.maxPriorityFeePerGas = request.maxPriorityFeePerGas
    BY DEF UserOperations
  <1> HIDE DEF op, filled
  <1>12. Admitted(filled, simulation) = op
    <2>1. \A f \in GasFields : op[f] # Absent
      BY <1>1, <1>3, <1>11 DEF GasFields
    <2>2. op.paymasterAndData # Absent /\ op # Refused
      BY <1>3, <1>10, <1>11
    <2>3. PrepareUserOperation(op, simulation.preOpGas, simulation.gas) = op
      BY <1>10, <2>1, <2>2, NothingToPrepare
    <2> QED
      BY <1>9, <2>2, <2>3 DEF Admitted
  <1>13. op # Refused
    BY <1>3, <1>10
  <1>14. Packable(op)
    BY <1>1, <1>3, <1>11 DEF Packable, Encodable
  <1>15. Given(op.paymasterAndData, <<>>) = packed
    BY <1>3, <1>11 DEF Given
  <1>16. /\ Given(op.verificationGasLimit, 0) = op.verificationGasLimit
         /\ Given(op.callGasLimit, 0) = op.callGasLimit
         /\ Given(op.preVerificationGas, 0) = op.preVerificationGas
    BY <1>1, <1>3, <1>11 DEF Given
  <1>17. PackUserOperation(op) = CanonicalUserOp(op)
    BY <1>16 DEF PackUserOperation, CanonicalUserOp
  <1> QED
    BY <1>11, <1>12, <1>13, <1>14, <1>15, <1>17 DEF AsSigned, PackUserOperation, filled, initCode, gv, gp

-----------------------------------------------------------------------------
(* What is known of a quote's request and estimate. *)

\* The request is one that parses.  Once the estimate is there, the chain has
\* been checked too; once the quote is priced, every value fits its width.
AskedOK(r) ==
  /\ r.phase # "idle" => r.request \in UserOperations /\ ResolveInitCode(r.request) # Refused
  /\ r.phase \in {"pricing", "signing", "guiding", "quoted"} =>
       /\ r.gas \in GasEstimates
       /\ r.gas.paymasterVerificationGasLimit = GasConfig.paymasterVerificationGasLimit
       /\ r.request.chainId \in {Absent, ChainId}
  /\ r.phase \in {"signing", "guiding", "quoted"} => Encodable(r.request, r.gas)

AskedInv == \A q \in Calls : AskedOK(quote[q])

\* Of a quote that goes on with the same request and estimate.
LEMMA AskedGoesOn ==
  ASSUME NEW r, NEW s, AskedOK(r), s.request = r.request, s.gas = r.gas,
         \/ s.phase = r.phase
         \/ s.phase \in {"guiding", "quoted"} /\ r.phase \in {"signing", "guiding"}
  PROVE  AskedOK(s)
  BY DEF AskedOK

LEMMA NoneAsked == AskedOK(NoQuote)
  BY DEF AskedOK, NoQuote

LEMMA PricedAsked ==
  ASSUME NEW r, IsQuote(r), AskedOK(r), r.phase = "pricing", NEW p, NEW passed
  PROVE  AskedOK(Priced(r, p, passed))
  <1> DEFINE valid == QuoteTtlMs - passed
             new == [r EXCEPT !.phase = "signing", !.price = p, !.validFor = valid]
  <1>1. PICK Rs, Gs : r \in QuoteRecord(Rs, Gs)
    BY DEF IsQuote
  <1>2. new.request = r.request /\ new.gas = r.gas /\ new.phase = "signing"
    BY <1>1 DEF QuoteRecord
  <1>3. Priced(r, p, passed) = IF Quotable(r, p) THEN new ELSE NoQuote
    BY DEF Priced
  <1> HIDE DEF new
  <1>4. Quotable(r, p) => AskedOK(new)
    BY <1>2 DEF AskedOK, Quotable
  <1> QED
    BY <1>3, <1>4, NoneAsked

LEMMA EstimateAsked ==
  ASSUME QuotingInv, AskedInv, NEW q \in Calls, NEW simulation \in SimulationsOf[q],
         EstimateArrives(q, simulation)
  PROVE  AskedOK(quote'[q])
  <1> DEFINE request == quote[q].request
             asking == EstimationUserOp(request)
             op == ParseUserOperation(asking)
             gas == EstimateUserOperationGas(op, simulation.preOpGas, simulation.gas)
             estimated == [quote[q] EXCEPT !.phase = "pricing", !.gas = gas]
  <1>1. Phase(q) = "estimating"
    BY ClientStep DEF QuotingInv, QuoteOK, EstimateArrives, CallStep
  <1>2. request \in UserOperations /\ ResolveInitCode(request) # Refused
    BY <1>1 DEF AskedInv, AskedOK, Phase
  <1>3. asking \in UserOperations /\ asking.chainId = request.chainId
    BY <1>2, EstimationRequest
  <1>4. op # Refused /\ \/ \E passed : quote'[q] = Priced(estimated, cachedPrice, passed)
                        \/ quote'[q] = estimated
    BY DEF EstimateArrives, QuotingInv
  <1> HIDE DEF asking
  <1>5. /\ op.initCode \in ByteStrings /\ op.callData = asking.callData
        /\ op.callGasLimit = asking.callGasLimit
        /\ op.verificationGasLimit = asking.verificationGasLimit
        /\ op.preVerificationGas = asking.preVerificationGas
        /\ op.l1DataGas = asking.l1DataGas
        /\ asking.chainId \in {Absent, ChainId}
    BY <1>3, <1>4, Parsed
  <1>6. /\ asking.callData \in ByteStrings /\ asking.callGasLimit \in Optional
        /\ asking.verificationGasLimit \in Optional /\ asking.preVerificationGas \in Optional
        /\ asking.l1DataGas \in Optional
    BY <1>3 DEF UserOperations
  <1>7. simulation.preOpGas \in Optional /\ simulation.gas \in Optional
    BY QuotingAssumption
  <1> HIDE DEF op
  <1>8. /\ gas \in GasEstimates
        /\ gas.paymasterVerificationGasLimit = GasConfig.paymasterVerificationGasLimit
    BY <1>5, <1>6, <1>7, Estimated
  <1> HIDE DEF gas
  <1>9. IsQuote(quote[q])
    BY DEF QuotingInv, QuoteOK
  <1>10. PICK Rs, Gs : quote[q] \in QuoteRecord(Rs, Gs)
    BY <1>9 DEF IsQuote
  <1>11. /\ estimated.phase = "pricing" /\ estimated.request = request /\ estimated.gas = gas
         /\ estimated \in QuoteRecord(Rs, {gas})
    BY <1>10 DEF QuoteRecord, Underway
  <1> HIDE DEF estimated, request
  <1>12. IsQuote(estimated) /\ AskedOK(estimated)
    BY <1>2, <1>3, <1>5, <1>8, <1>11 DEF IsQuote, AskedOK
  <1> QED
    BY <1>4, <1>11, <1>12, PricedAsked

LEMMA AskedKept ==
  ASSUME QuotingInv, AskedInv, [QuotingNext]_vars
  PROVE  AskedInv'
  <1>0. /\ quote = [q \in Calls |-> quote[q]]
        /\ \A q \in Calls : IsQuote(quote[q]) /\ AskedOK(quote[q])
    BY DEF QuotingInv, QuoteOK, AskedInv
  <1>1. ASSUME NEW q \in Calls, NEW r, quote' = [quote EXCEPT ![q] = r], AskedOK(r)
        PROVE  AskedInv'
    BY <1>0, <1>1 DEF AskedInv
  <1>2. ASSUME quote' = quote
        PROVE  AskedInv'
    BY <1>2 DEF AskedInv
  <1>3. ASSUME NEW q \in Calls, QuoteStep(q)
        PROVE  AskedInv'
    <2>0. PICK Rs, Gs : quote[q] \in QuoteRecord(Rs, Gs)
      BY <1>0 DEF IsQuote
    <2>1. CASE CallProceeds(q)
      BY <1>0, <1>1, <2>1, NoneAsked DEF CallProceeds
    <2>2. CASE EstimateRefused(q)
      BY <1>0, <1>1, <2>2, NoneAsked DEF EstimateRefused
    <2>3. ASSUME NEW simulation \in SimulationsOf[q], EstimateArrives(q, simulation)
          PROVE  AskedInv'
      <3>1. AskedOK(quote'[q])
        BY <2>3, EstimateAsked
      <3>2. \A p \in Calls \ {q} : quote'[p] = quote[p]
        BY <1>0, <2>3 DEF EstimateArrives
      <3> QED
        BY <1>0, <3>1, <3>2 DEF AskedInv
    <2>4. CASE Sign(q)
      <3> DEFINE s == [quote[q] EXCEPT !.phase = "quoted", !.guidanceAge = cachedGuidance.age]
                 g == [quote[q] EXCEPT !.phase = "guiding"]
      <3>1. /\ Phase(q) = "signing"
            /\ quote' = [quote EXCEPT ![q] = s] \/ quote' = [quote EXCEPT ![q] = g]
        BY <1>0, <2>4 DEF Sign
      <3>2. /\ s.request = quote[q].request /\ s.gas = quote[q].gas /\ s.phase = "quoted"
            /\ g.request = quote[q].request /\ g.gas = quote[q].gas /\ g.phase = "guiding"
        BY <2>0 DEF QuoteRecord
      <3> HIDE DEF s, g
      <3>3. AskedOK(s) /\ AskedOK(g)
        BY <1>0, <3>1, <3>2, AskedGoesOn DEF Phase
      <3> QED
        BY <1>1, <3>1, <3>3
    <2>5. CASE Guide(q)
      <3>0. Phase(q) = "guiding"
        BY <2>5 DEF Guide, GuidanceArrives, GuidanceFails, QuotingInv, QuoteOK
      <3>1. PICK r : /\ quote' = [quote EXCEPT ![q] = r] /\ r.phase = "quoted"
                     /\ r.request = quote[q].request /\ r.gas = quote[q].gas
        <4>1. ASSUME NEW age \in 0..GuidanceFetchMs,
                     quote' = [quote EXCEPT ![q].phase = "quoted", ![q].guidanceAge = age]
              PROVE  \E r : /\ quote' = [quote EXCEPT ![q] = r] /\ r.phase = "quoted"
                            /\ r.request = quote[q].request /\ r.gas = quote[q].gas
          <5> DEFINE r == [quote[q] EXCEPT !.phase = "quoted", !.guidanceAge = age]
          <5>1. quote' = [quote EXCEPT ![q] = r]
            BY <1>0, <4>1
          <5>2. r.phase = "quoted" /\ r.request = quote[q].request /\ r.gas = quote[q].gas
            BY <2>0 DEF QuoteRecord
          <5> QED
            BY <5>1, <5>2
        <4>2. ASSUME quote' = [quote EXCEPT ![q].phase = "quoted"]
              PROVE  \E r : /\ quote' = [quote EXCEPT ![q] = r] /\ r.phase = "quoted"
                            /\ r.request = quote[q].request /\ r.gas = quote[q].gas
          <5> DEFINE r == [quote[q] EXCEPT !.phase = "quoted"]
          <5>1. quote' = [quote EXCEPT ![q] = r]
            BY <1>0, <4>2
          <5>2. r.phase = "quoted" /\ r.request = quote[q].request /\ r.gas = quote[q].gas
            BY <2>0 DEF QuoteRecord
          <5> QED
            BY <5>1, <5>2
        <4> QED
          BY <2>5, <4>1, <4>2 DEF Guide
      <3>2. AskedOK(r)
        BY <1>0, <3>0, <3>1, AskedGoesOn DEF Phase
      <3> QED
        BY <1>1, <3>1, <3>2
    <2> QED
      BY <1>3, <2>1, <2>2, <2>3, <2>4, <2>5 DEF QuoteStep
  <1>4. ASSUME NEW q \in Calls, CallerStep(q)
        PROVE  AskedInv'
    <2>1. ASSUME NEW request \in RequestsOf[q], QuoteRefused(q, request)
          PROVE  AskedInv'
      BY <1>2, <2>1 DEF QuoteRefused
    <2>2. ASSUME NEW request \in RequestsOf[q], BeginQuote(q, request)
          PROVE  AskedInv'
      <3> DEFINE r == [NoQuote EXCEPT !.phase = "estimating", !.request = request]
      <3>1. r.phase = "estimating" /\ r.request = request
        BY DEF NoQuote
      <3>2. /\ quote' = [quote EXCEPT ![q] = r]
            /\ request \in UserOperations /\ ResolveInitCode(request) # Refused
        BY <2>2, QuotingAssumption DEF BeginQuote
      <3> HIDE DEF r
      <3>3. AskedOK(r)
        BY <3>1, <3>2 DEF AskedOK
      <3> QED
        BY <1>1, <3>2, <3>3
    <2>3. CASE EndQuote(q)
      BY <1>1, <2>3, NoneAsked DEF EndQuote
    <2> QED
      BY <1>4, <2>1, <2>2, <2>3 DEF CallerStep
  <1>5. CASE PriceSettles
    <2>1. ASSUME NEW q \in Calls
          PROVE  AskedOK(quote'[q])
      <3>1. \/ quote'[q] = quote[q]
            \/ /\ Phase(q) = "pricing"
               /\ \E passed : quote'[q] = Priced(quote[q], Price(round.report), passed)
            \/ quote'[q] = NoQuote
        BY <1>5 DEF PriceSettles
      <3> QED
        BY <1>0, <3>1, NoneAsked, PricedAsked DEF Phase
    <2> QED
      BY <2>1 DEF AskedInv
  <1>6. ASSUME NEW s \in Sources, SourceReports(s)
        PROVE  AskedInv'
    BY <1>2, <1>6 DEF SourceReports
  <1>7. CASE Tick
    <2>1. ASSUME NEW q \in Calls
          PROVE  AskedOK(quote'[q])
      <3> DEFINE r == [quote[q] EXCEPT !.price.age = @ + 1, !.validFor = @ - 1]
      <3>0. PICK Rs, Gs : quote[q] \in QuoteRecord(Rs, Gs)
        BY <1>0 DEF IsQuote
      <3>1. quote'[q] = quote[q] \/ quote'[q] = r
        BY <1>7 DEF Tick
      <3>2. r.phase = quote[q].phase /\ r.request = quote[q].request /\ r.gas = quote[q].gas
        BY <3>0 DEF QuoteRecord
      <3> HIDE DEF r
      <3> QED
        BY <1>0, <3>1, <3>2, AskedGoesOn
    <2> QED
      BY <2>1 DEF AskedInv
  <1>8. ASSUME UNCHANGED vars
        PROVE  AskedInv'
    BY <1>2, <1>8 DEF vars
  <1> QED
    BY <1>3, <1>4, <1>5, <1>6, <1>7, <1>8 DEF QuotingNext, RoundStep

-----------------------------------------------------------------------------
(* The theorems. *)

LEMMA InvInitially ==
  ASSUME QuotingInit
  PROVE  QuotingInv
  <1>1. ClientOK /\ \A q \in Calls : ~Active(q)
    BY BundlerClientAssumption
    DEF QuotingInit, BundlerClientInit, ClientOK, BundlerClientTypeOK, NoCall, Active
  <1>2. RoundOK /\ decimals \in {"none", "read", "rejected"}
    BY EmptyRounds DEF QuotingInit, PriceInit, RoundOK
  <1>3. CacheOK
    BY NoQuoteOK DEF QuotingInit, PriceInit, CacheOK, Cached
  <1>4. GuidanceOK /\ \A q \in Calls : ~Asking(q)
    BY Periods
    DEF QuotingInit, GuidanceInit, GuidanceOK, GuidanceTypeOK, HasGuidance, NoGuidance,
        NotAsked, Asking
  <1>5. quote = [q \in Calls |-> quote[q]] /\ \A q \in Calls : quote[q] = NoQuote
    BY DEF QuotingInit
  <1> QED
    BY <1>1, <1>2, <1>3, <1>4, <1>5, NoQuoteOK DEF QuotingInv, QuoteOK, Phase

LEMMA InvKept ==
  ASSUME TwoFallbacks, QuotingInv, [QuotingNext]_vars
  PROVE  QuotingInv'
  <1>1. ASSUME NEW q \in Calls, QuoteStep(q)
        PROVE  QuotingInv'
    BY <1>1, CallStepOK, EstimateStep, SignStep, GuideStep DEF QuoteStep
  <1>2. ASSUME UNCHANGED vars
        PROVE  QuotingInv'
    <2>1. ClientOK' /\ RoundOK' /\ CacheOK' /\ GuidanceOK'
      BY <1>2 DEF vars, clientVars, priceVars, guidanceVars, QuotingInv, ClientOK,
                  BundlerClientTypeOK, LastAttempt, RoundOK, CacheOK, Cached, PriceOK,
                  GuidanceOK, GuidanceTypeOK, HasGuidance
    <2>2. \A q \in Calls : QuoteOK(q)'
      BY <1>2, QuoteKept DEF vars, clientVars, priceVars, guidanceVars, QuotingInv
    <2> QED
      BY <1>2, <2>1, <2>2 DEF vars, priceVars, QuotingInv
  <1>3. ASSUME NEW q \in Calls, CallerStep(q)
        PROVE  QuotingInv'
    <2>1. ASSUME NEW request \in RequestsOf[q], QuoteRefused(q, request)
          PROVE  QuotingInv'
      BY <1>2, <2>1 DEF QuoteRefused, CallBlocked, vars
    <2> QED
      BY <1>3, <2>1, BeginStep, EndStep DEF CallerStep
  <1> QED
    BY <1>1, <1>2, <1>3, SettleStep, ReportStep, TickStep DEF QuotingNext, RoundStep

\* Every quote stays tied to the call, the round or the guidance it waits for,
\* and the ages and times left add up as the limits say
\* (paymaster-service.ts:308-474).
THEOREM QuotesInvariant ==
  ASSUME TwoFallbacks
  PROVE  QuotingSpec => []QuotingInv
  <1>1. QuotingInit => QuotingInv
    BY InvInitially
  <1>2. QuotingInv /\ [QuotingNext]_vars => QuotingInv'
    BY InvKept
  <1> QED
    BY <1>1, <1>2, PTL DEF QuotingSpec

\* One source at fault moves no quote further than the deviation allowed for,
\* whatever that source reports (price-provider.ts:109-136).
THEOREM OneFaultIsTolerated ==
  ASSUME TwoFallbacks
  PROVE  QuotingSpec => []OneFaultTolerated
  <1>1. QuotingInv => OneFaultTolerated
    BY DEF QuotingInv, QuoteOK, PriceOK, HasPrice, Phase, OneFaultTolerated, Tolerable, Distance
  <1> QED
    BY <1>1, QuotesInvariant, PTL

\* No quote rests on an answer of the feed older than the limits together
\* (price-provider.ts:192-205 and 71-76).
THEOREM PricesAreFresh ==
  ASSUME TwoFallbacks
  PROVE  QuotingSpec => []PriceFresh
  <1>1. QuotingInv => PriceFresh
    <2> SUFFICES ASSUME QuotingInv, NEW q \in Calls, HasPrice(q), quote[q].price.primary
                 PROVE  quote[q].price.age < MaxFeedAgeMs + FetchMs + CacheTtlMs + GuidanceFetchMs
      BY DEF PriceFresh
    <2>1. Asking(q) => asked[q] \in 0..GuidanceFetchMs
      BY Periods DEF QuotingInv, GuidanceOK, GuidanceTypeOK, Asking, NotAsked
    <2> QED
      BY <2>1, Periods DEF QuotingInv, QuoteOK, PriceOK, PriceRecord, HasPrice, Phase
  <1> QED
    BY <1>1, QuotesInvariant, PTL

\* Guidance is never older than its fetch and its time in the cache, in
\* whichever order the answers come (gas-price-oracle.ts:54-90).
THEOREM GuidanceStaysFresh ==
  ASSUME TwoFallbacks
  PROVE  QuotingSpec => []GuidanceFresh
  <1>1. QuotingInv => GuidanceFresh
    BY Periods DEF QuotingInv, QuoteOK, IsQuote, QuoteRecord, GuidanceFresh
  <1> QED
    BY <1>1, QuotesInvariant, PTL

\* A quote is handed over with all of its time but that of the guidance
\* (paymaster-service.ts:370-372 and 447-449).
THEOREM QuotesStayValid ==
  ASSUME TwoFallbacks
  PROVE  QuotingSpec => []QuoteStillValid
  <1>1. QuotingInv => QuoteStillValid
    BY DEF QuotingInv, QuoteOK, QuoteStillValid
  <1> QED
    BY <1>1, QuotesInvariant, PTL

\* No quote is signed at a rate below the market's with the surcharge
\* (paymaster-service.ts:361-365).
THEOREM UnderCollectsNever ==
  ASSUME TwoFallbacks
  PROVE  QuotingSpec => []NeverUnderCollects
  <1>1. QuotingInv => NeverUnderCollects
    BY RoundsUp
    DEF QuotingInv, QuoteOK, PriceOK, PriceRecord, NeverUnderCollects, QuotedRate
  <1> QED
    BY <1>1, QuotesInvariant, PTL

\* Every part keeps its type, and a quote waits for nothing that is not under
\* way: a call, a round or a request for guidance (paymaster-service.ts:308-474).
THEOREM QuotingTypeCorrect ==
  ASSUME TwoFallbacks
  PROVE  QuotingSpec => []QuotingTypeOK
  <1>1. ASSUME QuotingInv
        PROVE  QuotingTypeOK
    <2>1. cachedPrice.left \in 0..CacheTtlMs /\ cachedPrice \in PriceRecord
      <3>1. CASE Cached
        BY <1>1, <3>1, Periods DEF QuotingInv, CacheOK, PriceOK
      <3>2. CASE ~Cached
        <4>1. cachedPrice = NoPrice /\ NoPrice.left = 0
          BY <3>2 DEF Cached, NoPrice
        <4>2. 0 \in 0..CacheTtlMs
          BY Periods
        <4> QED
          BY <4>1, <4>2, NoQuoteOK
      <3> QED
        BY <3>1, <3>2
    <2>2. PriceTypeOK
      <3>1. cachedPrice \in [rate: Nat, primary: BOOLEAN, age: Nat, sound: BOOLEAN,
                             left: 0..CacheTtlMs]
        BY <2>1 DEF PriceRecord
      <3> QED
        BY <1>1, <3>1 DEF QuotingInv, RoundOK, ReportRecord, PriceTypeOK
    <2>3. \A q \in Calls : Phase(q) \in Underway \cup {"idle", "quoted"}
      BY <1>1 DEF QuotingInv, QuoteOK, IsQuote, QuoteRecord, Phase
    <2> QED
      BY <1>1, <2>2, <2>3 DEF QuotingInv, ClientOK, GuidanceOK, QuoteOK, QuotingTypeOK
  <1> QED
    BY <1>1, QuotesInvariant, PTL

\* What is known of a quote's request and estimate stays known while the price,
\* the signature and the guidance are awaited (rpc-parsing.ts:276-408,
\* index.ts:535-640).
THEOREM AskedInvariant ==
  ASSUME TwoFallbacks
  PROVE  QuotingSpec => []AskedInv
  <1>1. QuotingInit => AskedInv
    BY NoneAsked DEF QuotingInit, AskedInv
  <1>2. QuotingInv /\ AskedInv /\ [QuotingNext]_vars => AskedInv'
    BY AskedKept
  <1> QED
    BY <1>1, <1>2, QuotesInvariant, PTL DEF QuotingSpec

\* Whatever gas the operation uses within its limits ahead of the postOp, and
\* whatever the rate, the fee and the estimate, the charge with the billed
\* overhead stays within maxTokenCost (paymaster-service.ts:348-368, 386-393).
THEOREM CostsUnderCeiling ==
  ASSUME TwoFallbacks
  PROVE  QuotingSpec => []CostCeiling
  <1>1. ASSUME QuotingInv, AskedInv
        PROVE  CostCeiling
    <2> SUFFICES ASSUME NEW q \in Calls, Phase(q) = "quoted",
                        NEW used \in 0..(TotalGasLimit(quote[q].gas)
                                          - quote[q].gas.paymasterPostOpGasLimit)
                 PROVE  Charge(used, quote[q].gas, quote[q].request.maxFeePerGas, QuotedRate(q))
                          <= MaxTokenCost(quote[q].gas, quote[q].request.maxFeePerGas, QuotedRate(q))
      BY DEF CostCeiling
    <2> DEFINE gas == quote[q].gas
               fee == quote[q].request.maxFeePerGas
               rate == QuotedRate(q)
               total == TotalGasLimit(gas)
               billed == used + BilledPostOpGas(gas)
    <2>1. gas \in GasEstimates /\ quote[q].request \in UserOperations
      BY <1>1 DEF AskedInv, AskedOK, Phase
    <2>2. fee \in Nat
      BY <2>1 DEF UserOperations
    <2>3. rate \in Nat
      BY <1>1, RateType DEF QuotingInv, QuoteOK, PriceOK, PriceRecord, QuotedRate
    <2>4. /\ total \in Nat /\ gas.paymasterPostOpGasLimit \in Nat
          /\ total - gas.paymasterPostOpGasLimit \in Nat
      BY <2>1 DEF TotalGasLimit, GasEstimates
    <2>5. billed \in Nat /\ billed <= total
      <3> DEFINE own == BilledPostOpGas(gas)
                 limit == gas.paymasterPostOpGasLimit
      <3>1. own \in Nat /\ own <= limit
        BY <2>4, QuotingAssumption DEF BilledPostOpGas, Smaller
      <3>2. used \in 0..(total - limit)
        OBVIOUS
      <3> HIDE DEF own, limit, total
      <3>3. limit \in Nat /\ total \in Nat /\ billed = used + own
        BY <2>4 DEF limit, own
      <3> HIDE DEF billed
      <3> QED
        BY <3>1, <3>2, <3>3
    <2> HIDE DEF total, billed, fee, rate
    <2>6. billed * fee \in Nat /\ total * fee \in Nat /\ billed * fee <= total * fee
      BY <2>2, <2>4, <2>5, ProductMonotone
    <2>7. /\ (billed * fee) * rate \in Nat /\ (total * fee) * rate \in Nat
          /\ (billed * fee) * rate <= (total * fee) * rate
      BY <2>3, <2>6, ProductMonotone
    <2> DEFINE a == (billed * fee) * rate
               b == (total * fee) * rate
    <2> HIDE DEF a, b
    <2>8. a \in Nat /\ b \in Nat /\ a <= b
      BY <2>7 DEF a, b
    <2>9. /\ a \div WeiPerEth <= b \div WeiPerEth /\ a \div WeiPerEth \in Nat
          /\ b \div WeiPerEth \in Nat
      BY <2>8, DivisionMonotone, QuotingAssumption
    <2>10. /\ Charge(used, gas, fee, rate) = a \div WeiPerEth
           /\ MaxTokenCost(gas, fee, rate) = Larger(b \div WeiPerEth, 1)
      BY DEF Charge, MaxTokenCost, a, b, billed, total
    <2>11. b \div WeiPerEth <= Larger(b \div WeiPerEth, 1) /\ Larger(b \div WeiPerEth, 1) \in Nat
      BY <2>9 DEF Larger
    <2>12. a \div WeiPerEth <= Larger(b \div WeiPerEth, 1)
      BY <2>9, <2>11
    <2> QED
      BY <2>10, <2>12 DEF fee, rate
  <1> QED
    BY <1>1, QuotesInvariant, AskedInvariant, PTL

\* An operation filled in from its quote, in any of the three layouts and for
\* any request, estimate and answer of the node, is admitted as it was signed
\* (shared/src/index.ts:161-236, rpc-parsing.ts:241-408, entrypoint.ts:98-139).
THEOREM SignedOnesAreAdmitted ==
  ASSUME TwoFallbacks, LegacyRecognised
  PROVE  QuotingSpec => []SignedIsAdmitted
  <1>1. ASSUME QuotingInv, AskedInv
        PROVE  SignedIsAdmitted
    <2> SUFFICES ASSUME NEW q \in Calls, Phase(q) = "quoted", NEW filled \in FilledOps(q),
                        NEW simulation
                 PROVE  LET gas == quote[q].gas
                            signed == SigningHash(quote[q].request, gas, QuotedRate(q))
                            op == Admitted(filled, simulation) IN
                        /\ op # Refused
                        /\ Packable(op)
                        /\ op.paymasterVerificationGasLimit = gas.paymasterVerificationGasLimit
                        /\ op.paymasterPostOpGasLimit = gas.paymasterPostOpGasLimit
                        /\ PackUserOperation(op) =
                             [signed EXCEPT !.paymasterAndData = @ \o Signature]
                        /\ PackUserOperation(op) = CanonicalUserOp(op)
      BY DEF SignedIsAdmitted
    <2> DEFINE request == quote[q].request
               gas == quote[q].gas
               rate == QuotedRate(q)
               v == gas.paymasterVerificationGasLimit
               p == gas.paymasterPostOpGasLimit
               packed == NoSig(gas, rate) \o Signature
               legacy == Paymaster \o (PaymasterConfig(gas, rate) \o Signature)
               normal == [paymasterVerificationGasLimit |-> v, paymasterPostOpGasLimit |-> p,
                          paymasterAndData |-> packed]
    <2>1. /\ request \in UserOperations /\ ResolveInitCode(request) # Refused
          /\ request.chainId \in {Absent, ChainId}
          /\ gas \in GasEstimates /\ Encodable(request, gas)
          /\ gas.paymasterVerificationGasLimit = GasConfig.paymasterVerificationGasLimit
      BY <1>1 DEF AskedInv, AskedOK, Phase
    <2>2. rate \in Nat
      BY <1>1, RateType DEF QuotingInv, QuoteOK, PriceOK, PriceRecord, QuotedRate
    <2>3. Fits(v) /\ Fits(p)
      BY <2>1 DEF Encodable
    <2>4. /\ packed \in ByteStrings \ {<<>>} /\ legacy \in ByteStrings \ {<<>>}
          /\ NormalizePaymasterAndData(packed, Absent, Absent) = normal
          /\ NormalizePaymasterAndData(packed, v, p) = normal
          /\ NormalizePaymasterAndData(legacy, v, p) = normal
      BY <2>1, <2>2, <2>3, LayoutsAgree
    <2>5. filled \in {FilledWith(request, gas, packed, Absent, Absent),
                      FilledWith(request, gas, packed, v, p),
                      FilledWith(request, gas, legacy, v, p)}
      BY DEF FilledOps, Filled, FilledWith, PaymasterData
    <2>6. [SigningHash(request, gas, rate) EXCEPT !.paymasterAndData = @ \o Signature] =
            [initCode |-> ResolveInitCode(request),
             callData |-> request.callData,
             accountGasLimits |-> Uint128Pair(gas.verificationGasLimit, gas.callGasLimit),
             preVerificationGas |-> gas.preVerificationGas,
             gasFees |-> Uint128Pair(request.maxPriorityFeePerGas, request.maxFeePerGas),
             paymasterAndData |-> packed]
      BY SigningHashSigned
    <2> HIDE DEF request, gas, rate, packed, legacy
    <2>7. ASSUME NEW bytes \in ByteStrings \ {<<>>}, NEW a \in {Absent, v}, NEW b \in {Absent, p},
                 NormalizePaymasterAndData(bytes, a, b) = normal
          PROVE  AsSigned(Admitted(FilledWith(request, gas, bytes, a, b), simulation),
                          request, gas, packed)
      BY <2>1, <2>4, <2>7, FilledAdmitted
    <2> HIDE DEF v, p, normal
    <2>8. AsSigned(Admitted(filled, simulation), request, gas, packed)
      BY <2>4, <2>5, <2>7
    <2> QED
      BY <2>6, <2>8 DEF AsSigned, request, gas, rate, v, p
  <1> QED
    BY <1>1, QuotesInvariant, AskedInvariant, PTL
=============================================================================
