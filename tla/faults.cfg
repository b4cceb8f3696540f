CONSTANTS
  Requests = {r1, r2}
  Hashes = {a0, a1}
  Senders = {alice}
  Profiles = {p1}
  SenderOf <- MCSenderOf
  NonceOf <- MCNonceOf
  MaxNonce = 1
  LockTimeout = 1
  MaxTime = 4
  Faults = {"retry", "late", "config", "busy", "lock", "mark", "release", "crash"}
  None = None
  alice = alice
  bob = bob
  a0 = a0
  a0x = a0x
  a1 = a1
  b0 = b0

SPECIFICATION Spec
SYMMETRY RequestSymmetry
INVARIANTS
  TypeOK
  NoSkippedNonce
  BroadcastInOrder
  LeaseExclusion
PROPERTIES
  ImplementsLedger
CHECK_DEADLOCK FALSE
