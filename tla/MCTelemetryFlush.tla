--------------------------- MODULE MCTelemetryFlush ---------------------------
EXTENDS TelemetryFlush, TLC
=============================================================================
