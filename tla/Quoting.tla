------------------------------ MODULE Quoting ------------------------------
(***************************************************************************)
(* PaymasterService.quote (packages/api/src/paymaster-service.ts) from the *)
(* request to the admission of the operation it sponsors: the gas estimate *)
(* by way of the bundler client, the price, the signature, the gas price   *)
(* guidance, and the caller's eth_sendUserOperation.  Quotes give up the   *)
(* thread at every await and share the breaker, the price round and both   *)
(* caches.                                                                 *)
(***************************************************************************)
EXTENDS BundlerClient, PriceProvider, GasPriceOracle, UserOpWire

CONSTANTS
  RequestsOf,              \* the operations that each of the callers may ask about
  SimulationsOf,           \* the node's answers for them: preOpGas and gas, or Absent
  Paymaster, Token,        \* addresses
  SurchargeBps,
  QuoteTtlSeconds,
  SecondMs,                \* the clock units in a second
  BilledValidationGasMax,  \* DEFAULT_BILLED_PAYMASTER_VALIDATION_GAS_LIMIT
  BilledPostOpGasMax,      \* DEFAULT_BILLED_PAYMASTER_POST_OP_GAS
  WeiPerEth,
  DummySignature, ValidityBytes, Signature   \* opaque byte strings

ASSUME QuotingAssumption ==
  /\ Askers = Calls
  /\ DOMAIN RequestsOf = Calls /\ DOMAIN SimulationsOf = Calls
  /\ {SurchargeBps, BilledValidationGasMax, BilledPostOpGasMax} \subseteq Nat
  /\ {QuoteTtlSeconds, SecondMs, WeiPerEth} \subseteq Nat \ {0}
  /\ \A q \in Calls :
       /\ RequestsOf[q] \subseteq UserOperations
       /\ SimulationsOf[q] \subseteq [preOpGas: Optional, gas: Optional]
  /\ {Paymaster, Token, ValidityBytes} \subseteq ByteStrings
  /\ Len(Paymaster) = AddressBytes
  /\ {DummySignature, Signature} \subseteq ByteStrings \ {<<>>}
  /\ Base > 3

VARIABLE quote           \* where the quote of each caller stands

vars == <<clientVars, priceVars, guidanceVars, quote>>

-----------------------------------------------------------------------------
(* Arithmetic. *)

TotalGasLimit(gas) ==
  gas.callGasLimit + gas.verificationGasLimit + gas.preVerificationGas
  + gas.paymasterVerificationGasLimit + gas.paymasterPostOpGasLimit

\* Mutant: rounded down.
ExchangeRateFloor(marketRate) == (marketRate * (10000 + SurchargeBps)) \div 10000

\* The signed rate: the market's with the surcharge, rounded up.
ExchangeRate(marketRate) == (marketRate * (10000 + SurchargeBps) + 9999) \div 10000

MaxTokenCost(gas, maxFeePerGas, exchangeRate) ==
  Larger((TotalGasLimit(gas) * maxFeePerGas * exchangeRate) \div WeiPerEth, 1)

\* Mutant: the billed overhead is not capped by the limit.
BilledPostOpGasFixed(gas) == BilledPostOpGasMax

\* What the paymaster bills for its own two phases.
BilledPostOpGas(gas) == Smaller(gas.paymasterPostOpGasLimit, BilledPostOpGasMax)
BilledValidationGas(gas) == Smaller(gas.paymasterVerificationGasLimit, BilledValidationGasMax)

-----------------------------------------------------------------------------
(* What is signed. *)

\* encodeServoErc20PaymasterConfig: mode 1 with all bundlers allowed, no
\* flags, validity, token, the billed gas, the rate (uint256), and the treasury.
PaymasterConfig(gas, exchangeRate) ==
  <<3, 0>> \o ValidityBytes \o Token
  \o Uint128(BilledPostOpGas(gas)) \o Word(exchangeRate, 2 * GasBytes)
  \o Uint128(BilledValidationGas(gas)) \o Paymaster

NoSig(gas, exchangeRate) ==
  PackPaymasterAndData(Paymaster, gas.paymasterVerificationGasLimit,
                       gas.paymasterPostOpGasLimit, PaymasterConfig(gas, exchangeRate))

\* packUint128Pair and packPaymasterAndData throw when a value is too wide.
Encodable(request, gas) ==
  \A v \in {gas.verificationGasLimit, gas.callGasLimit,
            gas.paymasterVerificationGasLimit, gas.paymasterPostOpGasLimit,
            request.maxPriorityFeePerGas, request.maxFeePerGas} : Fits(v)

\* What computeServoPaymasterSigningHash hashes, beside sender and nonce.
SigningHash(request, gas, exchangeRate) ==
  [initCode |-> ResolveInitCode(request),
   callData |-> request.callData,
   accountGasLimits |-> Uint128Pair(gas.verificationGasLimit, gas.callGasLimit),
   preVerificationGas |-> gas.preVerificationGas,
   gasFees |-> Uint128Pair(request.maxPriorityFeePerGas, request.maxFeePerGas),
   paymasterAndData |-> NoSig(gas, exchangeRate)]

\* The operation sent to the bundler for the estimate.
EstimationUserOp(request) ==
  [request EXCEPT !.initCode = ResolveInitCode(request),
                  !.factory = Absent, !.factoryData = Absent,
                  !.signature = IF @ = <<>> THEN DummySignature ELSE @]

-----------------------------------------------------------------------------
(* The course of a quote. *)

NoQuote ==
  [phase |-> "idle", request |-> Absent, gas |-> Absent, price |-> NoPrice,
   validFor |-> 0, guidanceAge |-> 0]

Phase(q) == quote[q].phase
Underway == {"estimating", "pricing", "signing", "guiding"}

\* parseQuoteInput throws, or the client does because of its breaker.
QuoteRefused(q, request) ==
  /\ Phase(q) = "idle"
  /\ \/ ResolveInitCode(request) = Refused /\ UNCHANGED clientVars
     \/ CallBlocked(q)
  /\ UNCHANGED <<priceVars, guidanceVars, quote>>

BeginQuote(q, request) ==
  /\ Phase(q) = "idle"
  /\ ResolveInitCode(request) # Refused
  /\ BeginCall(q)
  /\ quote' = [quote EXCEPT ![q] = [NoQuote EXCEPT !.phase = "estimating", !.request = request]]
  /\ UNCHANGED <<priceVars, guidanceVars>>

\* A step of the call that brings no answer; losing it loses the quote.
CallProceeds(q) ==
  /\ FetchFails(q) \/ HeadersArrive(q) \/ BodyUnusable(q) \/ Retry(q)
  /\ quote' = [quote EXCEPT ![q] = IF call'[q] = NoCall THEN NoQuote ELSE @]
  /\ UNCHANGED <<priceVars, guidanceVars>>

\* "Bundler gas estimate failed", for whatever reason the bundler has.
EstimateRefused(q) ==
  /\ AnswerArrives(q)
  /\ quote' = [quote EXCEPT ![q] = NoQuote]
  /\ UNCHANGED <<priceVars, guidanceVars>>

\* The price must be positive and the signed rate a uint256.
Quotable(record, price) ==
  /\ price.rate > 0
  /\ ExchangeRate(price.rate) < Power[2 * GasBytes]
  /\ Encodable(record.request, record.gas)

QuoteTtlMs == QuoteTtlSeconds * SecondMs
OfSecond == 0..(SecondMs - 1)

\* Mutant: the clock is read before the price is awaited.
PricedWithEarlyClock(record, price, passed) ==
  IF Quotable(record, price)
  THEN [record EXCEPT !.phase = "signing", !.price = price,
                      !.validFor = QuoteTtlMs - passed - round.age]
  ELSE NoQuote

\* The quote with its price.  The validity runs from the second that has begun,
\* `passed` units ago.
Priced(record, price, passed) ==
  IF Quotable(record, price)
  THEN [record EXCEPT !.phase = "signing", !.price = price, !.validFor = QuoteTtlMs - passed]
  ELSE NoQuote

EstimateArrives(q, simulation) ==
  LET request == quote[q].request
      op == ParseUserOperation(EstimationUserOp(request))
      estimated == [quote[q] EXCEPT
        !.phase = "pricing",
        !.gas = EstimateUserOperationGas(op, simulation.preOpGas, simulation.gas)]
  IN /\ AnswerArrives(q)
     /\ op # Refused
     /\ IF Cached
        THEN /\ \E passed \in OfSecond :
                  quote' = [quote EXCEPT ![q] = Priced(estimated, cachedPrice, passed)]
             /\ UNCHANGED priceVars
        ELSE /\ quote' = [quote EXCEPT ![q] = estimated]
             /\ JoinRound
     /\ UNCHANGED guidanceVars

\* The round ends for every quote that waits for it.
PriceSettles ==
  /\ EndRound
  /\ \E passed \in OfSecond :
       quote' = [q \in Calls |->
         IF Phase(q) # "pricing" THEN quote[q]
         ELSE IF HasQuorum(round.report) THEN Priced(quote[q], Price(round.report), passed)
         ELSE NoQuote]
  /\ UNCHANGED <<clientVars, guidanceVars>>

\* Once signed: guidance from the cache, or from the node.
Sign(q) ==
  /\ Phase(q) = "signing"
  /\ IF HasGuidance
     THEN /\ quote' = [quote EXCEPT ![q].phase = "quoted",
                                    ![q].guidanceAge = cachedGuidance.age]
          /\ UNCHANGED asked
     ELSE /\ quote' = [quote EXCEPT ![q].phase = "guiding"]
          /\ AskGuidance(q)
  /\ UNCHANGED <<clientVars, priceVars, cachedGuidance>>

\* With the node's guidance, or without any.
Guide(q) ==
  /\ \/ \E age \in 0..GuidanceFetchMs :
          /\ GuidanceArrives(q, age)
          /\ quote' = [quote EXCEPT ![q].phase = "quoted", ![q].guidanceAge = age]
     \/ /\ GuidanceFails(q)
        /\ quote' = [quote EXCEPT ![q].phase = "quoted"]
  /\ UNCHANGED <<clientVars, priceVars>>

-----------------------------------------------------------------------------
(* The caller fills in the quote and sends the operation: with the packed  *)
(* paymasterAndData, with the two limits beside it, or with the limits and *)
(* the legacy layout.                                                      *)

QuotedRate(q) == ExchangeRate(quote[q].price.rate)

PaymasterData(q) == PaymasterConfig(quote[q].gas, QuotedRate(q)) \o Signature

Filled(q, bytes, withLimits) ==
  LET gas == quote[q].gas IN
  [quote[q].request EXCEPT
     !.callGasLimit = gas.callGasLimit,
     !.verificationGasLimit = gas.verificationGasLimit,
     !.preVerificationGas = gas.preVerificationGas,
     !.paymasterVerificationGasLimit =
       IF withLimits THEN gas.paymasterVerificationGasLimit ELSE Absent,
     !.paymasterPostOpGasLimit = IF withLimits THEN gas.paymasterPostOpGasLimit ELSE Absent,
     !.paymasterAndData = bytes,
     !.signature = Signature]

FilledOps(q) ==
  LET packed == NoSig(quote[q].gas, QuotedRate(q)) \o Signature IN
  {Filled(q, packed, FALSE), Filled(q, packed, TRUE),
   Filled(q, Paymaster \o PaymasterData(q), TRUE)}

\* What sendUserOperation makes of it before it looks at the mempool; the node
\* is asked for the gas once more.
Admitted(filled, simulation) ==
  LET op == ParseUserOperation(filled) IN
  IF op = Refused THEN Refused
  ELSE PrepareUserOperation(op, simulation.preOpGas, simulation.gas)

EndQuote(q) ==
  /\ Phase(q) = "quoted"
  /\ quote' = [quote EXCEPT ![q] = NoQuote]
  /\ UNCHANGED <<clientVars, priceVars, guidanceVars>>

-----------------------------------------------------------------------------
\* Signing takes no time.  A quote ages until it is handed over.
Tick ==
  /\ \A q \in Calls : Phase(q) # "signing"
  /\ PricesAge
  /\ GuidanceAges
  /\ BreakerCools
  /\ quote' = [q \in Calls |->
       IF Phase(q) = "guiding"
       THEN [quote[q] EXCEPT !.price.age = @ + 1, !.validFor = @ - 1]
       ELSE quote[q]]
  /\ UNCHANGED <<call, failures>>

SourceReports(s) == RateAsked(s) /\ UNCHANGED <<clientVars, guidanceVars, quote>>

RoundStep == PriceSettles \/ \E s \in Sources : SourceReports(s)

QuoteStep(q) ==
  \/ CallProceeds(q)
  \/ EstimateRefused(q)
  \/ \E simulation \in SimulationsOf[q] : EstimateArrives(q, simulation)
  \/ Sign(q)
  \/ Guide(q)

CallerStep(q) ==
  \/ \E request \in RequestsOf[q] : QuoteRefused(q, request) \/ BeginQuote(q, request)
  \/ EndQuote(q)

QuotingInit ==
  /\ BundlerClientInit
  /\ PriceInit
  /\ GuidanceInit
  /\ quote = [q \in Calls |-> NoQuote]

QuotingNext ==
  \/ \E q \in Calls : QuoteStep(q) \/ CallerStep(q)
  \/ RoundStep
  \/ Tick

QuotingSpec == QuotingInit /\ [][QuotingNext]_vars

\* Timeouts end every fetch, timers every sleep, and time passes.
FairQuotingSpec ==
  /\ QuotingSpec
  /\ \A q \in Calls : WF_vars(QuoteStep(q))
  /\ WF_vars(RoundStep)
  /\ WF_vars(Tick)

-----------------------------------------------------------------------------
(* Properties. *)

\* The client, both caches, the round and the quotes keep their types.
QuotingTypeOK ==
  /\ BundlerClientTypeOK
  /\ PriceTypeOK
  /\ GuidanceTypeOK
  /\ \A q \in Calls :
       /\ Phase(q) \in Underway \cup {"idle", "quoted"}
       /\ Phase(q) = "estimating" <=> Active(q)
       /\ Phase(q) = "pricing" => round.running
       /\ Phase(q) = "guiding" <=> Asking(q)

HasPrice(q) == Phase(q) \in {"signing", "guiding", "quoted"}

\* One source at fault, one that fails or reports whatever it likes, moves no
\* quote away from the market by more than the deviation allowed for, but for
\* the rounding to a basis point: not the primary, and no fallback
\* (price-provider.ts:109-136, price-provider.test.ts:46-95).
OneFaultTolerated ==
  \A q \in Calls : HasPrice(q) /\ quote[q].price.sound =>
    LET rate == quote[q].price.rate
        Distance == IF rate > MarketRate THEN rate - MarketRate ELSE MarketRate - rate IN
    10000 * Distance < MarketRate * (MaxPrimaryDeviationBps + 1)

\* A quote that rests on the feed is handed over before the feed's answer is
\* older than the limit on its age, the time of a round, that of the cache,
\* and that of the guidance: `now` is read before the round (line 192), and
\* the cache is filled after it (line 74).
PriceFresh ==
  \A q \in Calls : HasPrice(q) /\ quote[q].price.primary =>
    quote[q].price.age < MaxFeedAgeMs + FetchMs + CacheTtlMs + GuidanceFetchMs

\* Guidance is never older than its fetch and its time in the cache, though
\* an older answer may replace a newer one (gas-price-oracle.ts:83-84).
GuidanceFresh ==
  \A q \in Calls : Phase(q) = "quoted" =>
    quote[q].guidanceAge < GuidanceFetchMs + GuidanceTtlMs

\* The time it takes to price a quote is not taken from its validity: when it
\* is handed over it lasts for all of its time but that of the guidance, and what
\* had passed of the second it was priced in
\* (paymaster-service.ts:370-372, after the awaits of lines 332 and 356).
QuoteStillValid ==
  \A q \in Calls : Phase(q) = "quoted" =>
    quote[q].validFor > QuoteTtlMs - SecondMs - GuidanceFetchMs

\* "Ceiling division ensures the paymaster never under-collects"
\* (paymaster-service.ts:361-363): the signed rate, in parts per ten
\* thousand, is not below the market's with the surcharge.
NeverUnderCollects ==
  \A q \in Calls : Phase(q) = "quoted" =>
    QuotedRate(q) * 10000 >= quote[q].price.rate * (10000 + SurchargeBps)

\* What the paymaster charges when the operation has used `used` gas, at the
\* price per gas it may cost at most: the contract adds the billed overhead.
Charge(used, gas, maxFeePerGas, exchangeRate) ==
  ((used + BilledPostOpGas(gas)) * maxFeePerGas * exchangeRate) \div WeiPerEth

\* README.md:43: the quote names "a USDC cost ceiling".  Whatever gas the
\* operation uses within the limits ahead of the paymaster's postOp, the charge
\* with the billed overhead stays within maxTokenCost.
CostCeiling ==
  \A q \in Calls : Phase(q) = "quoted" =>
    LET gas == quote[q].gas
        fee == quote[q].request.maxFeePerGas IN
    \A used \in 0..(TotalGasLimit(gas) - gas.paymasterPostOpGasLimit) :
      Charge(used, gas, fee, QuotedRate(q)) <= MaxTokenCost(gas, fee, QuotedRate(q))

\* docs/architecture.md:103 and 114-116: an operation filled in from its quote
\* is admitted as it was signed and with the limits of its quote, in whichever
\* layout it is sent and whatever the bundler estimates by then, and the hash
\* the bundler knows it by covers what it puts on chain.
SignedIsAdmitted ==
  \A q \in Calls : Phase(q) = "quoted" =>
    LET gas == quote[q].gas
        signed == SigningHash(quote[q].request, gas, QuotedRate(q)) IN
    \A filled \in FilledOps(q), simulation \in UNION {SimulationsOf[c] : c \in Calls} :
      LET op == Admitted(filled, simulation) IN
      /\ op # Refused
      /\ Packable(op)
      /\ op.paymasterVerificationGasLimit = gas.paymasterVerificationGasLimit
      /\ op.paymasterPostOpGasLimit = gas.paymasterPostOpGasLimit
      /\ PackUserOperation(op) = [signed EXCEPT !.paymasterAndData = @ \o Signature]
      /\ PackUserOperation(op) = CanonicalUserOp(op)

\* price-provider.test.ts:46: "falls back to the median of Coinbase and Kraken
\* when Chainlink is unavailable".  A price is the fallbacks' only in a round
\* in which the node did not answer with a fresh rate.
FallbackOnlyWhenUnavailable ==
  RoundOver /\ HasQuorum(round.report) => round.report[Primary].status # "unread"

\* A quote ends, in an answer or in an error, whatever the bundler, the
\* sources and the node answer, as long as the body of every answer ends
\* (bundler-client.ts:91-143, price-provider.ts:58-84).
QuotesEnd == \A q \in Calls : Phase(q) \in Underway ~> Phase(q) \notin Underway

\* The breaker lets calls through again and again: those it refuses do not
\* prolong the recovery (bundler-client.ts:92-94 and 137-142).
BreakerReopens == []<>(~BreakerOpen)
=============================================================================
