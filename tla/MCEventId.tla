----------------------------- MODULE MCEventId -----------------------------
EXTENDS EventId, TLC
=============================================================================
