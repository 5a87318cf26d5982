SPECIFICATION Spec
CONSTANTS
  Keys <- KeysMC
  Services = {"enable", "init", "rate", "identity", "scale", "hook", "unhook"}
  Slots = 3
  MaxKeys = 2
  MaxMoves = 1
  MaxCalls = 1
INVARIANTS BufferIsQueue ReadIsAtomic BytesReachReaders FlagsFollowKeys KeyboardHeard
CHECK_DEADLOCK FALSE
PROPERTY CallsEnd
