\* Two files that are there or not at startup, and two more writes.
SPECIFICATION SensorSpec
CONSTANTS
  File = {f1, f2}
  MaxWrites = 3
  Token = {1, 2, 3}
  NoToken = 0
  TokenOf <- OwnToken
  ChannelSize = 1
INVARIANTS
  SensorTypeOK
  SeenIsApplied
  ChangeIsComing
PROPERTIES
  SensorCatchesUp
  NobodyLeftSending
\* The sensor waits for files to change, and for the server to stop.
CHECK_DEADLOCK FALSE
