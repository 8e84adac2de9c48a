\* Position warnings on the stream, nothing else goes wrong.
CONSTANTS
  MaxMsgs = 3
  ReadSize = 2
  WriteSize = 2
  StreamMaxLen = 3
  MaxCrashes = 0
  MaxDbFaults = 0
  Poison = TRUE
SPECIFICATION Spec
CHECK_DEADLOCK FALSE
PROPERTY BufferedIsWritten
