SPECIFICATION Spec
CONSTANTS
  TextSize = 8
  WordSize = 2
  Image <- FourImage
  InsnLen <- FourInsnLen
  Succ <- FourSucc
  Syscalls <- FourSyscalls
  Exits <- FourExits
  Faults = {3}
  Entry = 0
  Targets <- FourTargets
  MaxSignals = 0
  MaxBreakpoints = 1
  MaxSteps = 2
  MaxOrphans = 1
PROPERTY EnabledNotPassed
