CONSTANTS
  Submissions = {s1, s2}
  Keys = {k1}
  None = None

SPECIFICATION Spec
SYMMETRY SubmitterSymmetry
INVARIANTS
  NoReuseAfterOk
CHECK_DEADLOCK FALSE
