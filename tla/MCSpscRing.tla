----------------------------- MODULE MCSpscRing -----------------------------
(* SpscRing with four slots: three usable, so indices wrap and views go stale. *)
EXTENDS SpscRing
=============================================================================
