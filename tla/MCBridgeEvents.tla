--------------------------- MODULE MCBridgeEvents ---------------------------
EXTENDS BridgeEvents

CONSTANTS a1, t1, t2, t3
=============================================================================
