SPECIFICATION FairSpec
CONSTANTS
  loop = loop
  task = task
  wire = wire
  wire1 = wire1
  sensor = sensor
  display = display
  Tasks = {loop, task}
  NoTask = NoTask
  Requesters = {loop}
  Buses = {wire}
  Devices = {sensor, display}
  B = 3
  MaxRequest = 2
  Roaming = FALSE
  MidFlush = FALSE
  LateNack = FALSE
INVARIANT TransferAsAsked
INVARIANT BlocksUntilDone
INVARIANT ReadsReceived
INVARIANT GateFreed
PROPERTY TransfersReturn
CHECK_DEADLOCK FALSE
