SPECIFICATION Spec
CONSTANTS
  m1 = m1
  m2 = m2
  m3 = m3
  s1 = s1
  NoAccount = NoAccount
  ZeroKey = ZeroKey
  ZeroHash = h0
  Keys = {m1, m2, m3}
  MemberLists <- MCMemberLists
  ShareLists <- MCShareLists
  Thresholds = {0, 2, 3}
  MaxMembers = 3
  RentCollectors = {"collector"}
  Payees = {"payee", "other"}
  Amounts = {4}
  Hashes = {h0, h1, h2}
  EmptyMessages = {h2}
  PrivateTypes = {0, 1, 2}
  Deadlines = {1}
  MaxIndex = 2
  MaxTime = 2
  Funds = 13
  CreationFee = 1
  MultisigRent = 2
  ProposalRent = 2
  TransactionRent = 1
INVARIANTS
  TypeOK
  AccountsPaired
  ApprovalTally
  QuorumBehindApproval
  SpaceForApprover
  VotesInTime
  PaidOnce
  LamportsConserved
PROPERTIES
  SupersededFrozen
  VaultPaysOnlyByQuorum
  ImplementsLifecycle
CHECK_DEADLOCK FALSE
