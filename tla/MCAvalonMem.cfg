CONSTANTS
  Words = 3
  CodeBurst = 8
  Content <- MCContent
  CpuWrites <- Writes
  CpuReads <- Reads
  CodeReads <- LineReads
  DmaWrites <- ByteAndWordWrites
  DmaReads <- ByteAndWordReads
SPECIFICATION Spec
PROPERTIES IsByteMemory
