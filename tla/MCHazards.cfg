SPECIFICATION Spec
CONSTANTS
  TextSize = 5
  WordSize = 2
  Image <- ThreeImage
  InsnLen <- ThreeInsnLen
  Succ <- ThreeSucc
  Syscalls <- ThreeSyscalls
  Exits <- ThreeExits
  Faults = {}
  Entry = 0
  Targets <- ThreeTargets
  MaxSignals = 1
  MaxBreakpoints = 1
  MaxSteps = 1
  MaxOrphans = 1
INVARIANTS
  MemoryFaithful
  PromptQuiescent
  FailedHasNoProcess
