SPECIFICATION Spec
CONSTANTS
  creator = creator
  member = member
  target = target
  system = system
  other = other
  d = d
  Data = {d}
  None = None
  Vault = vault
  Keys = {creator, member, target, system, other, vault}
  Members = {creator, member}
  Payers = {creator}
  InstructionLists <- MCTransfer
  Radix = 5
INVARIANT AnyMemberFires
CHECK_DEADLOCK FALSE
