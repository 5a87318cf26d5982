CONSTANTS
  Calls <- MCCalls
  Machines <- MCMachines
  Chunks = {4, 8}
  Retries = 2
  Longer = 3
  MaxCalls = 2
  MaxStalls = 1
  MotorTicks = 4
  AnswerTicks = 1
  HostStalls = FALSE
SPECIFICATION MCSpec
INVARIANTS BootsInOrder GeometryUsable DataWhereAsked CompletionsMatched Quiet
PROPERTIES TransfersFaithful GoodTransfersSucceed Int13Ends
CHECK_DEADLOCK FALSE
