SPECIFICATION Spec
CONSTANTS
  m1 = m1
  m2 = m2
  m3 = m3
  m4 = m4
  Names = {m1, m2, m3, m4}
  Allowlists <- MCAllowlists
  Submissions = {"a", "retry", "b", "empty", "c", "outsider"}
  EmptyShares = {"empty"}
  NameIn <- MCNameIn
  Threshold = 2
INVARIANTS
  TypeOK
  ResolvesWithQuorum
  AcceptedIsUsed
PROPERTIES
  SettledOnce
  EventuallySettles
CHECK_DEADLOCK FALSE
