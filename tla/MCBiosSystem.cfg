SPECIFICATION Spec
CONSTANTS
  Machines <- MCMachines
  Base = 2
  Rate = 1
  Day = 8
  FlagMod = 2
  Period = 977
  Toggle = 15
  MaxPolls = 1
  VideoEnd = 1
  OptionEnd = 5
  IplMax = 4
  Timeout = 2
INVARIANTS TimeTrue MemoryTrue StartsRight
PROPERTIES WaitsKept CallsEnd
CHECK_DEADLOCK FALSE
