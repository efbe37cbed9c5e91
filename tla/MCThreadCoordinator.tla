------------------------ MODULE MCThreadCoordinator ------------------------
(* ThreadCoordinator on small instances: the numbers of batches of few ranges. *)
EXTENDS ThreadCoordinator

\* One range with two batches, one with none.
MCNumBatches == <<2, 0>>

\* Two ranges, each with one batch.
MCOneBatchEach == [r \in Ranges |-> 1]
============================================================================
