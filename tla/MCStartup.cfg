SPECIFICATION Spec
CONSTANTS
  machine = machine
  users = users
  d1 = d1
  d2 = d2
  Daemons = {d1, d2}
  Files = {machine, users}
  Invocations <- MCInvocations
  FoldOf <- MCFold
  Reserved = {"CurrentUser"}
  Versions = {1, 2}
  MaxStarts = 2
  MaxSeq = 2
  Nobody = Nobody
  NoRoot = NoRoot
INVARIANTS OwnershipInv RegisteredState
PROPERTIES DatabaseKept StartupResolves
