SPECIFICATION FairSpec
CONSTANTS
  TextSize = 5
  WordSize = 2
  Image <- LoopImage
  InsnLen <- ThreeInsnLen
  Succ <- LoopSucc
  Syscalls <- LoopSyscalls
  Exits = {}
  Faults = {}
  Entry = 0
  Targets = {0}
  MaxSignals = 1
  MaxBreakpoints = 1
  MaxSteps = 2
  MaxOrphans = 0
PROPERTIES
  StepReturns
  TracedContinueReturns
  EnabledStops
