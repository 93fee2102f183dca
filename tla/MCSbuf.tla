------------------------------- MODULE MCSbuf -------------------------------
EXTENDS Sbuf
=============================================================================
