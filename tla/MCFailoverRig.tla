---------------------------- MODULE MCFailoverRig ----------------------------
EXTENDS FailoverRig

CONSTANTS A, B
=============================================================================
