\* A conforming TLS 1.3 server and a DrainSendBuf that returns at once.
SPECIFICATION Spec
CONSTANTS
  ServerFaults = {}
  ServerVersion = "1.3"
  DrainWaits = FALSE
INVARIANT NoPanic
CHECK_DEADLOCK FALSE
