SPECIFICATION QuotingSpec
CONSTANTS
  q1 = q1
  q2 = q2
  Calls = {q1, q2}
  Askers = {q1, q2}
  MaxAttempts = 1
  FailureThreshold = 1
  RecoveryMs = 2
  Primary = chainlink
  Fallbacks = {coinbase, kraken}
  MarketRate = 100
  OtherRates = {}
  MaxPrimaryDeviationBps = 500
  CacheTtlMs = 1
  FetchMs = 1
  MaxFeedAgeMs = 1
  GuidanceTtlMs = 1
  GuidanceFetchMs = 1
  Base = 16
  AddressBytes = 1
  GasBytes = 2
  ChainId = 7
  Absent = Absent
  Refused = Refused
  GasConfig <- MCGasConfig
  HasCallGasEstimator = TRUE
  RequestsOf <- MCRequestsOf
  SimulationsOf <- MCSimulationsOf
  Paymaster <- MCPaymaster
  Token <- MCToken
  SurchargeBps = 555
  QuoteTtlSeconds = 2
  SecondMs = 2
  BilledValidationGasMax = 5
  BilledPostOpGasMax = 4
  WeiPerEth = 1000
  DummySignature <- MCDummySignature
  ValidityBytes <- MCValidityBytes
  Signature <- MCSignature
INVARIANTS
  FallbackOnlyWhenUnavailable

