\* The token is the second of the last change, and a file changes twice in it.
SPECIFICATION SensorSpec
CONSTANTS
  File = {f1}
  MaxWrites = 3
  Token = {1, 2}
  NoToken = 0
  TokenOf <- SameSecond
  ChannelSize = 1
INVARIANTS
  SeenIsApplied
\* The sensor waits for files to change, and for the server to stop.
CHECK_DEADLOCK FALSE
