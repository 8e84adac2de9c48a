\* The loop as a task, once more: does it always read again?
CONSTANTS
  MaxMsgs = 4
  BatchSize = 2
  StreamMaxLen = 2
  MaxFaults = 2
  CatchErrors = TRUE
  Detached = TRUE
SPECIFICATION Spec
CHECK_DEADLOCK FALSE
PROPERTY KeepsReading
