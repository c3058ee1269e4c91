\* Concurrent connections against what README.md says of them.
CONSTANTS
  Clients = {c1, c2}
SPECIFICATION LoopFairSpec
PROPERTY ClientsAreServed
\* A loop that an exception has left, or a crashed process, does nothing more.
CHECK_DEADLOCK FALSE
