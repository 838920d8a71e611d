\* A file changes between startup and the first pass, or the watch.
SPECIFICATION SensorSpec
CONSTANTS
  File = {f1}
  MaxWrites = 3
  Token = {1, 2, 3}
  NoToken = 0
  TokenOf <- OwnToken
  ChannelSize = 1
PROPERTIES
  StartupMissesNothing
\* The sensor waits for files to change, and for the server to stop.
CHECK_DEADLOCK FALSE
