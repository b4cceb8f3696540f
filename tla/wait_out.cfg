CONSTANTS
  Requests = {r1, r2}
  Hashes = {a0}
  Senders = {alice}
  Profiles = {p1}
  SenderOf <- MCSenderOf
  NonceOf <- MCNonceOf
  MaxNonce = 5
  LockTimeout = 2
  MaxTime = 7
  Faults = {}
  None = None
  alice = alice
  bob = bob
  a0 = a0
  a0x = a0x
  a1 = a1
  b0 = b0

SPECIFICATION Spec
SYMMETRY RequestSymmetry
PROPERTIES
  LeaseNotWaitedOut
CHECK_DEADLOCK FALSE
