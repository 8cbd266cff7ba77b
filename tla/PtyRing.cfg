\* Reads may be larger than the buffer, as a small --scrollback-bytes allows.
CONSTANTS
  Capacity = 5
  ReadBuf = 6
  MaxBlocks = 7
SPECIFICATION RingSpec
INVARIANT ReplayComplete
PROPERTY LostStaysLost
CHECK_DEADLOCK FALSE
