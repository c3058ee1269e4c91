\* stop() against what ProxyServer.h says of it.
CONSTANTS
  MaxPieces = 1
  SendCopies = TRUE
SPECIFICATION Spec
INVARIANT StopCloses
\* A session comes to its end.
CHECK_DEADLOCK FALSE
