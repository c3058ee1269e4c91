\* Four clients, so that two active sessions can surround a handshake and an accept
\* can follow it before stop() is done.
CONSTANTS
  Clients = {c1, c2, c3, c4}
SPECIFICATION FairSpec
INVARIANTS
  KeepsListening
  StopMissesAtMostOne
  
PROPERTIES
  LifePromise
  QueuedAreAccepted
\* A loop that an exception has left, or a crashed process, does nothing more.
CHECK_DEADLOCK FALSE
