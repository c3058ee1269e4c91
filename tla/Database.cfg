\* Two workers as in main.cpp, a producer, three entries a life, a clear, two lives.
CONSTANTS
  Workers = {w1, w2}
  Producers = {p1}
  Owner = owner
  MaxEntries = 3
  MaxClears = 1
  MaxLives = 2
SPECIFICATION DbFairSpec
INVARIANTS
  DbTypeOK
  TableFollowsQueue
PROPERTIES
  DurablePromise
  
  EntriesAreInserted
