--------------------------- MODULE MCDddNetQueue ---------------------------
(* The instance of DddNetQueue for TLC: its threads and buffers are in        *)
(* queue.cfg.                                                                 *)
EXTENDS DddNetQueue
=============================================================================
