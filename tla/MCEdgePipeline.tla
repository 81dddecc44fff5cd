--------------------------- MODULE MCEdgePipeline ---------------------------
(* A small pipeline: hops of two units, blocks of two hops.  The last       *)
(* command line runs long enough for the output ring to wrap; under the one *)
(* before it the resamplers give what they keep in bursts.                  *)
EXTENDS EdgePipeline

Adaptive(n, k, f) ==
    [queue |-> "adaptive", overload |-> "dry_fill", mix |-> FALSE,
     blocks |-> n, affords |-> 0 .. Hops, keeps |-> k, faulty |-> f]
Strict(m, n, a, k, f) ==
    [queue |-> "fifo", overload |-> "strict", mix |-> m,
     blocks |-> n, affords |-> a, keeps |-> k, faulty |-> f]

MCArgs == {Adaptive(4, {SrcDelay}, {"out", "worker"}),
           Strict(TRUE, 4, 0 .. Hops, {SrcDelay}, {"out", "worker"}),
           Strict(TRUE, 4, {Hops}, 0 .. SrcDelay, {}),
           Strict(TRUE, 7, {Hops}, {SrcDelay}, {})}
OnlyAdaptive == {Adaptive(6, {SrcDelay}, {})}
=============================================================================
