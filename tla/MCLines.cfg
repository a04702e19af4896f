SPECIFICATION LineSpec
CONSTANTS
  TextSize = 3
  WordSize = 2
  Image <- TwoImage
  InsnLen <- TwoInsnLen
  Succ <- TwoSucc
  Syscalls <- TwoSyscalls
  Exits <- TwoExits
  Faults = {}
  Entry = 0
  MaxSignals = 0
  MaxBreakpoints = 1
  MaxSteps = 0
  MaxOrphans = 0
  AddressBits = 6
  IntLimit = 10
  FirstDigits = 12
  Garbage <- GarbageValues
  Selected <- SelectedUnits
  Asked <- AskedLines
  Targets <- LineTargets
  Units <- LineUnits
  LoadBias = 0
  FirstMapping = 0
INVARIANTS
  LineTypeOK
  LinesFound
  FileLinesFound
PROPERTY LinePlacesLine
