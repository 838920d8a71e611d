\* A debounce timer expires after the server was told to stop.
SPECIFICATION SensorSpec
CONSTANTS
  File = {f1}
  MaxWrites = 3
  Token = {1, 2, 3}
  NoToken = 0
  TokenOf <- OwnToken
  ChannelSize = 1
INVARIANTS
  NoPanic
\* The sensor waits for files to change, and for the server to stop.
CHECK_DEADLOCK FALSE
