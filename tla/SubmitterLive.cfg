SPECIFICATION FairSpec
CONSTANTS
  h1 = h1
  h2 = h2
  h3 = h3
  alice = alice
  entryPoint = entryPoint
  Hashes = {h1, h3}
  SenderOf <- MCSenderOf
  NonceOf <- MCNonceOf
  EntryPointOf <- MCEntryPointOf
  Senders = {alice}
  BanFailures = 1
  ThrottleFailures = 1
  ReputationWindow = 1
  ThrottleWindow = 1
  BanWindow = 1
  Txs = {t1, t2}
  NoTx = NoTx
  Requests = {r1}
  NoHash = NoHash
  HasAdmissionSimulator = FALSE
  MaxFinalized = 2
  CrashInHandler = FALSE
  MaxTime = 2
  MaxCrashes = 0
  MaxOperationsPerBundle = 2
  MaxInflight = 1
  TxTimeout = 1
  DroppedMayReturn = FALSE
  AckMayBeLost = FALSE
INVARIANTS
  InflightBounded
PROPERTIES
  ClaimsEnd
