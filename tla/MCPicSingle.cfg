CONSTANTS
  N = 3
  base = base
  mbase = base
  sbase = base
  Offsets = {base}
  ResetOffset = base
  ZeroOffset = base
  Cascade = 1
  MasterWired = {0, 2}
  SlaveWired = {}
  Boot <- MCBootAlone
  Commands <- SingleCommands
SPECIFICATION Spec
INVARIANTS TypeOK MasterAcknowledge
