SPECIFICATION Spec
CONSTANTS
  loop = loop
  task = task
  wire = wire
  wire1 = wire1
  sensor = sensor
  display = display
  Tasks = {loop, task}
  NoTask = NoTask
  Requesters = {loop}
  Buses = {wire}
  Devices = {sensor, display}
  B = 3
  MaxRequest = 3
  Roaming = FALSE
  MidFlush = FALSE
  LateNack = FALSE
INVARIANT ReadsReceived
CHECK_DEADLOCK FALSE
