CONSTANTS
  Requests = {r1, r2, r3}
  Hashes = {a0, a1}
  Senders = {alice}
  Profiles = {p1}
  SenderOf <- MCSenderOf
  NonceOf <- MCNonceOf
  MaxNonce = 5
  LockTimeout = 1
  MaxTime = 4
  Faults = {}
  None = None
  alice = alice
  bob = bob
  a0 = a0
  a0x = a0x
  a1 = a1
  b0 = b0

SPECIFICATION Spec
SYMMETRY RequestSymmetry
INVARIANTS
  BroadcastInOrder
  LeaseExclusion
  NoOrphanLock
  AnsweredAdvances
  AttemptsCountFailures
  RecordMatchesAnswer
CHECK_DEADLOCK FALSE
