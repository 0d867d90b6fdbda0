\* The driver against a TLS 1.3 server that may reject valid requests or
\* answer BeginSession with a non-handshake or non-Server-Hello record,
\* with a shim whose DrainSendBuf waits for the engine's output.
SPECIFICATION Spec
CONSTANTS
  ServerFaults = {"rejectValid", "alertRecord", "notServerHello"}
  ServerVersion = "1.3"
  DrainWaits = TRUE
INVARIANT TypeOK
INVARIANT NoPanic
INVARIANT ReportSound
INVARIANT ReportComplete
PROPERTY DriverTerminates
\* main returns after its last case; leaked handshake goroutines then stop.
CHECK_DEADLOCK FALSE
