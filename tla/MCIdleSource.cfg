\* A source that is configured for neither watch nor poll, or whose watch fails.
SPECIFICATION SensorSpec
CONSTANTS
  File = {f1}
  MaxWrites = 3
  Token = {1, 2, 3}
  NoToken = 0
  TokenOf <- OwnToken
  ChannelSize = 1
PROPERTIES
  SourceCatchesUp
\* The sensor waits for files to change, and for the server to stop.
CHECK_DEADLOCK FALSE
