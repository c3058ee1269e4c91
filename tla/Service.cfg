\* The service thread, the control thread and the control manager.
SPECIFICATION FairSpec
INVARIANTS
  TypeOK
  QuietMeansStopped
  ClosedLogIsComplete
PROPERTY
  EndIsReported
\* The service comes to its end.
CHECK_DEADLOCK FALSE
