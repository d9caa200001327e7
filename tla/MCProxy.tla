------------------------------- MODULE MCProxy -------------------------------
EXTENDS Proxy
=============================================================================
