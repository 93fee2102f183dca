--------------------------- MODULE MCFastCgiServer --------------------------
EXTENDS FastCgiServer

CONSTANTS hello

MCAppOf == [t \in Thread |-> hello]
=============================================================================
