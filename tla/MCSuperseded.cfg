SPECIFICATION Spec
CONSTANTS
  m1 = m1
  m2 = m2
  m3 = m3
  s1 = s1
  NoAccount = NoAccount
  ZeroKey = ZeroKey
  ZeroHash = h0
  Keys = {m1, m2, m3}
  MemberLists <- MCThreeMembers
  ShareLists <- MCShareLists
  Thresholds = {2}
  MaxMembers = 3
  RentCollectors = {"collector"}
  Payees = {"payee"}
  Amounts = {2}
  Hashes = {h0, h1}
  EmptyMessages = {}
  PrivateTypes = {1, 2}
  Deadlines = {1}
  MaxIndex = 2
  MaxTime = 2
  Funds = 13
  CreationFee = 1
  MultisigRent = 2
  ProposalRent = 2
  TransactionRent = 1
INVARIANT ApprovedPendingExecution
CHECK_DEADLOCK FALSE
