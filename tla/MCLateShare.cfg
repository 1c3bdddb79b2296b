SPECIFICATION Spec
CONSTANTS
  m1 = m1
  m2 = m2
  m3 = m3
  m4 = m4
  Names = {m1, m2, m3, m4}
  Allowlists <- MCAllowlists
  Submissions = {"a", "b", "c"}
  EmptyShares = {}
  NameIn <- MCNameIn
  Threshold = 2
INVARIANT ToldToProceed
CHECK_DEADLOCK FALSE
