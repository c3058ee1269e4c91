\* Two workers as in main.cpp, two producers, four entries.
CONSTANTS
  Workers = {w1, w2}
  Producers = {p1, p2}
  Owner = owner
  MaxEntries = 4
SPECIFICATION FairSpec
INVARIANTS
  NoLostWakeup
  NobodySleepsThroughStop
PROPERTIES
  QueuePromise
  EntriesAreWritten
  DestructorReturns
