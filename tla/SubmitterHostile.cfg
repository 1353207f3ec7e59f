SPECIFICATION Spec
CONSTANTS
  h1 = h1
  h2 = h2
  h3 = h3
  alice = alice
  entryPoint = entryPoint
  Hashes = {h1, h2}
  SenderOf <- MCSenderOf
  NonceOf <- MCNonceOf
  EntryPointOf <- MCEntryPointOf
  Senders = {alice}
  BanFailures = 1
  ThrottleFailures = 1
  ReputationWindow = 1
  ThrottleWindow = 1
  BanWindow = 1
  Txs = {t1, t2}
  NoTx = NoTx
  Requests = {r1}
  NoHash = NoHash
  HasAdmissionSimulator = FALSE
  MaxFinalized = 1
  CrashInHandler = TRUE
  MaxTime = 4
  MaxCrashes = 1
  MaxOperationsPerBundle = 1
  MaxInflight = 1
  TxTimeout = 1
  DroppedMayReturn = TRUE
  AckMayBeLost = TRUE
INVARIANTS
  InclusionSound
PROPERTIES
  RefinesMempool
