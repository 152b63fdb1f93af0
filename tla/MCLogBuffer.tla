----------------------------- MODULE MCLogBuffer -----------------------------
EXTENDS LogBuffer
=============================================================================
