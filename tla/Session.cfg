\* One session, two pieces from each peer, stop() at any time.
CONSTANTS
  MaxPieces = 2
  SendCopies = TRUE
SPECIFICATION FairSpec
INVARIANTS
  OnePumpPerDirection
  EofMeansDrained
  GrantedNeverThrows
PROPERTIES
  RelayPromise
  LifePromise
  
  PeerEndClosesBoth
  ClosedDrains
\* A session comes to its end.
CHECK_DEADLOCK FALSE
