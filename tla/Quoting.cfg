SPECIFICATION FairQuotingSpec
CONSTANTS
  q1 = q1
  q2 = q2
  Calls = {q1, q2}
  Askers = {q1, q2}
  MaxAttempts = 2
  FailureThreshold = 2
  RecoveryMs = 2
  Primary = chainlink
  Fallbacks = {coinbase, kraken}
  MarketRate = 10000
  OtherRates = {9499}
  MaxPrimaryDeviationBps = 500
  CacheTtlMs = 2
  FetchMs = 1
  MaxFeedAgeMs = 0
  GuidanceTtlMs = 1
  GuidanceFetchMs = 1
  Base = 16
  AddressBytes = 1
  GasBytes = 2
  ChainId = 7
  Absent = Absent
  Refused = Refused
  GasConfig <- MCGasConfig
  HasCallGasEstimator = TRUE
  RequestsOf <- MCRequestsOf
  SimulationsOf <- MCSimulationsOf
  Paymaster <- MCPaymaster
  Token <- MCToken
  SurchargeBps = 555
  QuoteTtlSeconds = 2
  SecondMs = 1
  BilledValidationGasMax = 5
  BilledPostOpGasMax = 4
  WeiPerEth = 1000
  DummySignature <- MCDummySignature
  ValidityBytes <- MCValidityBytes
  Signature <- MCSignature
INVARIANTS
  QuotingTypeOK
  OneFaultTolerated
  PriceFresh
  GuidanceFresh
  QuoteStillValid
  NeverUnderCollects
  CostCeiling
  SignedIsAdmitted
PROPERTIES
  QuotesEnd
  BreakerReopens

