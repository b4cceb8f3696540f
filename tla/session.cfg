\* One command, from its configuration to its answer.
CONSTANTS
  None = None
  r1 = r1
  h1 = h1
  h2 = h2
  h3 = h3
  s1 = s1
  mainnet = mainnet
  testnet = testnet
  Requests = {r1}
  Hashes = {h1, h2, h3}
  Senders = {s1}
  Profiles = {mainnet, testnet}
  SenderOf <- MCSenderOf
  NonceOf <- MCNonceOf
  MaxNonce = 2
  LockTimeout = 1
  I64Max = 15
  HourMs = 3
  Now = 8
  BatchLimit = 1
  EmptySize = 1
  MaxWrites = 1
  BaseFee = 200
  FeePerKib = 20
  ExtraInputFee = 10
  MinChange = 1
  Kib = 8
  NonceRange = 2
  MaxL2Data = 11
  DefaultCompletedRetention = 2
  DefaultFailedRetention = 3
  DefaultMaxSize = 5
  Environments <- MCEnvironments
SPECIFICATION FairSpec
CHECK_DEADLOCK FALSE
INVARIANTS
  TypeOK
  ValidationGaps
  OnlySoundConfigBuilds
  WritesThroughKaspa
  NoCandidateTwice
  EveryRoundCostsOne
  RetryRebuilds
  RetentionKept
PROPERTIES
  ImplementsFeePayment
  ImplementsOpenHandle
  SessionEnds
