--------------------------- MODULE MCEngineSocket ---------------------------
EXTENDS EngineSocket
CONSTANTS e1, e2, t1, t2
=============================================================================
