SPECIFICATION Spec
CONSTANTS
  creator = creator
  member = member
  target = target
  system = system
  other = other
  d = d
  Data = {d}
  None = None
  Vault = vault
  Keys = {creator, member, target, system, other, vault}
  Members = {creator, member}
  Payers = {creator}
  InstructionLists <- MCInstructionLists
  Radix = 5
INVARIANTS
  TypeOK
  PrivilegesPreserved
  PayerLeads
  InvokesProposal
  NoEscalation
CHECK_DEADLOCK FALSE
