---------------------------- MODULE MCVncStream -----------------------------
EXTENDS VncStream, TLC

CONSTANTS v1, v2
=============================================================================
