SPECIFICATION MempoolSpec
CONSTANTS
  h1 = h1
  h2 = h2
  h3 = h3
  alice = alice
  entryPoint = entryPoint
  Hashes = {h1, h2}
  SenderOf <- MCSenderOf
  NonceOf <- MCNonceOf
  EntryPointOf <- MCEntryPointOf
  Senders = {alice}
  BanFailures = 2
  ThrottleFailures = 1
  ReputationWindow = 2
  ThrottleWindow = 1
  BanWindow = 1
  Txs = {t1}
  NoTx = NoTx
  Requests = {r1}
  NoHash = NoHash
  HasAdmissionSimulator = FALSE
  MaxFinalized = 1
  CrashInHandler = FALSE
  MaxTime = 4
  MaxCrashes = 0
INVARIANTS
  RetriesArePackable
