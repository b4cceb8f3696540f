CONSTANTS
  Requests = {r1, r2}
  Hashes = {a0, b0}
  Senders = {alice, bob}
  Profiles = {p1}
  Keys = {k1}
  SenderOf <- MCSenderOf
  NonceOf <- MCNonceOf
  MaxNonce = 1
  LockTimeout = 1
  MaxTime = 1
  Faults = {"retry", "late", "mining", "crash"}
  None = None
  alice = alice
  bob = bob
  a0 = a0
  b0 = b0

SPECIFICATION SystemSpec
SYMMETRY SystemSymmetry
INVARIANTS
  RecordedInCache
  RecordedOnL1
PROPERTIES
  ImplementsPath
CHECK_DEADLOCK FALSE
