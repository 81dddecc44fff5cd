--------------------------- MODULE MCPlaybackPool ---------------------------
(***************************************************************************)
(* PlaybackPool with three blocks in rings of four slots.                  *)
(***************************************************************************)
EXTENDS PlaybackPool

\* NextPow2 of the pool: the first power of two that is not below minimum
NextPow2(minimum) == CHOOSE p \in {2 ^ k : k \in 0 .. minimum} :
                        p >= minimum /\ (p = 1 \/ p \div 2 < minimum)

MCRingCapacity == NextPow2(BlockCount + 1)
=============================================================================
