------------------------ MODULE MCTestbenchRealtime ------------------------
(* Two workers, one after the other unless the user is impatient.          *)
EXTENDS TestbenchRealtime
=============================================================================
