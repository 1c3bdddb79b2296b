SPECIFICATION ExecutionSpec
CONSTANTS
  m1 = m1
  m2 = m2
  s1 = s1
  n1 = n1
  n2 = n2
  n3 = n3
  alice = alice
  bob = bob
  NoAccount = NoAccount
  ZeroKey = ZeroKey
  ZeroHash = ZeroHash
  Keys = {m1, m2}
  MemberLists <- MCMemberLists
  ShareLists <- MCShareLists
  Thresholds = {1}
  MaxMembers = 2
  RentCollectors = {"collector"}
  Payees = {"payee"}
  Amounts = {}
  Hashes <- MCShortHashes
  EmptyMessages = {}
  PrivateTypes = {1, 2}
  Deadlines = {1}
  MaxIndex = 1
  MaxTime = 0
  Funds = 20
  CreationFee = 1
  MultisigRent = 1
  ProposalRent = 1
  TransactionRent = 1
  x = x
  y = y
  Executions = {x, y}
  Notes = {n1, n2, n3}
  NoteAmount <- MCNoteAmount
  RecordedNotes = {n1, n2}
  HistoryRecords <- MCShortRecords
INVARIANT PaidAsVoted
SYMMETRY MCSymmetry
CHECK_DEADLOCK FALSE
