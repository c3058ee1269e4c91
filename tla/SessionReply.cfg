\* The reply against what ProxyServer.h says of it, the buffer read late.
CONSTANTS
  MaxPieces = 1
  SendCopies = FALSE
SPECIFICATION Spec
INVARIANT ClientIsAnswered
\* A session comes to its end.
CHECK_DEADLOCK FALSE
