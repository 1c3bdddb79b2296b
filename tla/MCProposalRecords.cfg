SPECIFICATION RecordsSpec
CONSTANTS
  m1 = m1
  m2 = m2
  s1 = s1
  NoAccount = NoAccount
  ZeroKey = ZeroKey
  ZeroHash = ZeroHash
  Torn = Torn
  Keys = {m1, m2}
  MemberLists <- MCMemberLists
  ShareLists <- MCShareLists
  Thresholds = {1}
  MaxMembers = 2
  RentCollectors = {"collector"}
  Payees = {"payee"}
  Amounts = {0}
  Hashes <- MCHashes
  EmptyMessages <- MCEmptyMessages
  PrivateTypes = {1, 2}
  Deadlines = {0, 1}
  MaxIndex = 2
  MaxTime = 1
  Funds = 20
  CreationFee = 1
  MultisigRent = 1
  ProposalRent = 1
  TransactionRent = 1
  Commands = {"a", "b", "swap"}
  CreatorOf <- MCCreatorOf
  TypeOf <- MCTypeOf
  EntriesOf <- MCEntriesOf
  VotingPeriod = 0
INVARIANTS
  
  RecordMatchesChain
  OneRecordPerIndex
  DistinctHashes
SYMMETRY MCSymmetry
CHECK_DEADLOCK FALSE
