----------------------------- MODULE MCSession -----------------------------
EXTENDS Session

CONSTANTS i1, i2, i3, p1, p2
=============================================================================
