CONSTANTS
  Requests = {r1, r2}
  Hashes = {a0}
  Senders = {alice}
  Profiles = {p1}
  SenderOf <- MCSenderOf
  NonceOf <- MCNonceOf
  MaxNonce = 5
  LockTimeout = 2
  MaxTime = 6
  Faults = {"retry", "late", "mining", "crash",
            "persist", "prune"}
  None = None
  alice = alice
  bob = bob
  a0 = a0
  a0x = a0x
  a1 = a1
  b0 = b0

SPECIFICATION Spec
SYMMETRY RequestSymmetry
INVARIANTS
  LeaseExclusion
  RecordedOnL1
PROPERTIES
  NoEarlyTakeover
  ImplementsContract
CHECK_DEADLOCK FALSE
