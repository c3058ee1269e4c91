\* Every request shape and every small configuration, the handler run once.
CONSTANTS
  Sites = {"a", "b"}
  Ports = {80, 443}
  LengthOctets = {0, 1, 127, 128, 248, 249, 250, 255}
  ReadSizes = {1, 2, 4, 5, 6, 7, 8, 9, 10, 13, 21, 22, 133, 134, 135, 255, 256, 262}
SPECIFICATION Spec
INVARIANTS
  TruncatedNeverConnects
  ThrowsOnlyAtTheEdge
  ShortNamesAreUnderstood
  PolicyDecides
\* One request is handled and the session goes on elsewhere: the model stops.
CHECK_DEADLOCK FALSE
