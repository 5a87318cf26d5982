CONSTANTS
  ModeTable <- MCModeTable
  Calls <- MCCalls
  FirstModes = {3, 4, 6, 18, 19}
  LastPage = 1
  Stop = 2
  Round = 16
  CgaRow = 4
  CgaBank = 10
  CgaLines = 2
  DacSize = 4
  LastReg = 3
  Glyph <- MCGlyph
  MaxCalls = 3
SPECIFICATION Spec
INVARIANTS ColoursKept DrawnAsAsked
PROPERTIES Screen
CHECK_DEADLOCK FALSE
