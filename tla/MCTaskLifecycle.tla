--------------------------- MODULE MCTaskLifecycle ---------------------------
EXTENDS TaskLifecycle
==============================================================================
