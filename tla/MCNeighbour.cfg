SPECIFICATION Spec
CONSTANTS
  TextSize = 8
  WordSize = 2
  Image <- FourImage
  InsnLen <- FourInsnLen
  Succ <- FourSucc
  Syscalls <- FourSyscalls
  Exits <- FourExits
  Faults = {3}
  Entry = 0
  Targets <- FourTargets
  MaxSignals = 1
  MaxBreakpoints = 2
  MaxSteps = 2
  MaxOrphans = 1
PROPERTY OnlyOwnerDisarms
