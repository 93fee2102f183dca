--------------------------- MODULE MCFastCgiQueue ---------------------------
EXTENDS FastCgiQueue

CONSTANTS hello, missing

\* All threads serve one application, whose ring they compete for; the other
\* one cannot be loaded and its threads have ended.
MCAppOf == [t \in Thread |-> hello]
=============================================================================
