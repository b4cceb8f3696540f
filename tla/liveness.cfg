CONSTANTS
  Requests = {r1, r2}
  Hashes = {a0, a0x, a1}
  Senders = {alice}
  Profiles = {p1}
  SenderOf <- MCSenderOf
  NonceOf <- MCNonceOf
  MaxNonce = 5
  LockTimeout = 1
  MaxTime = 4
  Faults = {"busy", "crash"}
  None = None
  alice = alice
  bob = bob
  a0 = a0
  a0x = a0x
  a1 = a1
  b0 = b0

SPECIFICATION FairSpec
PROPERTIES
  RequestsEnd
CHECK_DEADLOCK FALSE
