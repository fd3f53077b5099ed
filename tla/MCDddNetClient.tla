--------------------------- MODULE MCDddNetClient --------------------------
(* Instances of DddNetClient for TLC: the numbers are in the .cfg files, and  *)
(* the bounds on what happens around the client make the state space finite.  *)
EXTENDS DddNetClient
=============================================================================
