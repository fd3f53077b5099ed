-------------------------- MODULE MCGameTransport --------------------------
(* Instances of GameTransport for TLC: one in which the game sends and one in *)
(* which the program does, for the two share only the worker.                 *)
EXTENDS GameTransport
=============================================================================
