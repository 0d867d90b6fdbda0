\* A server that answers a valid Handshake with an alert record.
SPECIFICATION Spec
CONSTANTS
  ServerFaults = {"handshakeAlert"}
  ServerVersion = "1.3"
  DrainWaits = TRUE
INVARIANT ReportSound
CHECK_DEADLOCK FALSE
