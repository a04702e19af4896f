SPECIFICATION LaunchFairSpec
CONSTANTS
  TextSize = 2
  WordSize = 2
  Image <- OneImage
  InsnLen <- OneInsnLen
  Succ <- OneSucc
  Syscalls <- OneSyscalls
  Exits = {0}
  Faults = {}
  Entry = 0
  MaxSignals = 0
  MaxBreakpoints = 1
  MaxSteps = 0
  MaxOrphans = 0
  AddressBits = 6
  IntLimit = 10
  FirstDigits = 12
  Garbage = {2}
  Selected = {0}
  Asked = {3}
  Targets = {0}
  Units <- TwoUnits
  LoadBias = 0
  FirstMapping = 0
  FileSystems <- AllFileSystems
  Executable = "prog"
  MaxDepth = 4
  MaxAllocFailures = 1
  Listings = {2, 4}
INVARIANTS
  LaunchTypeOK
  EveryLibraryLoaded
  FailureIsReported
  OverflowNeedsCycle
  
  MainLoopIsAlone
  FreedIsHidden
  LaunchFailsForCause
PROPERTIES
  SessionFollows
  RunsLines
  LaunchEnds
