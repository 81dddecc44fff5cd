--------------------------- MODULE MCEdgeProcess ---------------------------
(* Two concurrent clients of the controller, a good and an invalid command. *)
EXTENDS EdgeProcess, TLC

=============================================================================
