CONSTANTS
  Channels = {2, 5}
  B = 2
  Pages = {0, 1, 2, 3}
  Content <- MCContent
  Fresh = 1000
  DeviceData <- MCDeviceData
  Programs <- MCPrograms
  MinLatency = 2
  MaxLatency = 2
SPECIFICATION LiveSpec
INVARIANTS TransferFaithful RunsInStep
PROPERTIES OnlyOwnCell TransferEnds
