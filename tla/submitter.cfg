CONSTANTS
  Submissions = {s1, s2}
  Keys = {k1, k2}
  None = None

SPECIFICATION Spec
SYMMETRY SubmitterSymmetry
INVARIANTS
  TypeOK
  AnsweredInCache
  InvalidatedBeforeSend
  OwnEntries
PROPERTIES
  ImplementsContract
CHECK_DEADLOCK FALSE
