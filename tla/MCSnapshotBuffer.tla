-------------------------- MODULE MCSnapshotBuffer --------------------------
(* SnapshotBuffer with payloads of three words and a sequence that wraps. *)
EXTENDS SnapshotBuffer
=============================================================================
