SPECIFICATION GatewaySpec
SYMMETRY Symmetry
CONSTANTS
  Ips = {i1, i2, i3}
  AnyCaller = anyCaller
  Accounts = {a1}
  NoSender = NoSender
  Methods = {chainId, quote}
  Expensive = {quote}
  Local = {chainId}
  GlobalMax = 3
  IpMax = 2
  SenderMax = 1
  MethodMax = 1
  WindowMs = 2
  MaxBuckets = 2
  MaxIps = 1
  Calls = {c1}
  MaxAttempts = 1
  FailureThreshold = 1
  RecoveryMs = 1
INVARIANTS
  GatewayTypeOK
  TablesBounded
  GlobalBudget
  IpBudget
PROPERTIES
  ForgetsOnlyWhenFull
