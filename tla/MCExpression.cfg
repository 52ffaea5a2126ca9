SPECIFICATION Spec
CONSTANTS
  Symbol = {"x", "u"}
  Value <- MCValue
  SizeOf <- MCSizeOf
  Resolved = {"x"}
  Source <- MCSource
  PageSize = 4
  StackSize = 3
INVARIANTS
  LinkedValue
  EveryLocationIsFixed
  StackIsSound
