----------------------------- MODULE MCLocalApi -----------------------------
EXTENDS LocalApi

CONSTANTS d1, d2
=============================================================================
