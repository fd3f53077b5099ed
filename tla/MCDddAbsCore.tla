---------------------------- MODULE MCDddAbsCore ----------------------------
EXTENDS DddAbsCore
=============================================================================
