\* A server that accepts a corrupted Client Hello, or answers BeginSession
\* with no records or a short one.
SPECIFICATION Spec
CONSTANTS
  ServerFaults = {"acceptBadHello", "emptyRecords", "shortRecords"}
  ServerVersion = "1.3"
  DrainWaits = TRUE
INVARIANT NoPanic
CHECK_DEADLOCK FALSE
