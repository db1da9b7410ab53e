--------------------------- MODULE MCWaitableEvent ---------------------------
EXTENDS WaitableEvent
=============================================================================
