---------------------------- MODULE MCSelfUpdate ----------------------------
EXTENDS SelfUpdate

CONSTANTS u1, u2, c1
=============================================================================
