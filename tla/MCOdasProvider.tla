--------------------------- MODULE MCOdasProvider ---------------------------
(* OdasProvider with messages of one and of two sources. *)
EXTENDS OdasProvider
=============================================================================
