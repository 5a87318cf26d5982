CONSTANTS
  N = 2
  base = base
  mbase = base
  sbase = base
  Offsets = {base}
  ResetOffset = base
  ZeroOffset = base
  Cascade = 1
  MasterWired = {0}
  SlaveWired = {0}
  Boot <- MCBoot
  Commands <- HandlerCommands
SPECIFICATION LiveSpec
PROPERTIES TopServed
