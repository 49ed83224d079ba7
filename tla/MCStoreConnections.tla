------------------------- MODULE MCStoreConnections -------------------------
EXTENDS StoreConnections, TLC
=============================================================================
