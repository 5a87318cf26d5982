SPECIFICATION Spec
CONSTANTS
  P = 3
  Handler = 0
  RealMode = FALSE
  DecFaults = {"PF"}
  RdFaults = {"GP"}
  ExeFaults = {"BR"}
  WrFaults = {"PF"}
  IrqVectors = {"DF"}
  IntVectors = {"GP"}
INVARIANTS FrontIsNext PreciseEntry ShutdownRule

