SPECIFICATION MempoolSpec
CONSTANTS
  h1 = h1
  h2 = h2
  h3 = h3
  alice = alice
  entryPoint = entryPoint
  Hashes = {h1, h2, h3}
  SenderOf <- MCSenderOf
  NonceOf <- MCNonceOf
  EntryPointOf <- MCEntryPointOf
  Senders = {alice}
  BanFailures = 2
  ThrottleFailures = 1
  ReputationWindow = 3
  ThrottleWindow = 1
  BanWindow = 2
  Txs = {t1}
  NoTx = NoTx
  Requests = {r1}
  NoHash = NoHash
  HasAdmissionSimulator = FALSE
  MaxFinalized = 1
  CrashInHandler = FALSE
  MaxTime = 3
  MaxCrashes = 1
INVARIANTS
  OneOpenPerSlot
  RestartInventsNothing
PROPERTIES
  PenaltyEndsByTimeOrInclusion
  RestartKeepsPenalties
  ImplementsLedger
