SPECIFICATION NotesSpec
CONSTANTS
  m1 = m1
  m2 = m2
  m3 = m3
  NoAccount = NoAccount
  NoShare = NoShare
  Torn = Torn
  ZeroKey = ZeroKey
  ZeroHash = ZeroHash
  Keys = {m1, m2, m3}
  MemberLists <- MCMemberLists
  ShareLists <- MCShareLists
  Thresholds = {1, 2, 3}
  MaxMembers = 4
  RentCollectors = {m1}
  Payees = {"payee", "other"}
  Amounts = {1, 2}
  Hashes = {}
  EmptyMessages = {}
  PrivateTypes = {1, 2}
  Deadlines = {0, 1}
  MaxIndex = 2
  MaxTime = 1
  Funds = 20
  CreationFee = 1
  MultisigRent = 1
  ProposalRent = 1
  TransactionRent = 1
  Base = 8
  PublicKeyOf <- MCPublicKeyOf
  Commands = {"create", "create again", "create alone", "propose", "propose too", "approve 1", "approve again", "approve 2", "execute", "execute again", "deposit"}
  Arguments <- MCArguments
  Workloads <- MCWorkloads
  VotingPeriod = 0
  Deposits = {"first", "second", "third", "fourth"}
  TypedAs <- MCTypedAs
INVARIANTS
  CommandsTypeOK
  TreasuryByThreshold
  ConfirmedVotesCount
  ToldStaysTrue
  ConfirmedProposalStands
  ConfirmedExecutionPaid
  NotesTypeOK
  UnrecordedExplained
  RecordedSpendable
PROPERTY PaidAsProposed
CHECK_DEADLOCK FALSE
