\* Shutdown with errors everywhere, pruning by two workers, and reading.
SPECIFICATION FairSpec
CONSTANTS
  w = w
  v = v
  x = x
  Setups <- MCSetups
  NoJob = NoJob
  Startup = Startup
  Bytes <- MCBytes
  Newline = Newline
  Terminal <- MCTerminal
  Buffer = 2
  Window = 3
  MaxLines = 2
INVARIANTS
  TypeOK
  ChannelSuffices
  
  WholeLinesOnce
  WindowLinesArrive
PROPERTIES
  NewestKept
  ShutdownEnds
  FollowerCatchesUp
CHECK_DEADLOCK FALSE
