CONSTANTS
  N = 4
  base = base
  mbase = mbase
  sbase = sbase
  Offsets = {base, mbase, sbase}
  ResetOffset = base
  ZeroOffset = base
  Cascade = 2
  MasterWired = {0, 1}
  SlaveWired = {0}
  Boot <- MCBoot
  Commands <- CascadeCommands
SPECIFICATION Spec
INVARIANTS SlaveAcknowledge
PROPERTIES NoRequestSwallowed
