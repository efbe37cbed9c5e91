------------------------ MODULE MCSegmentLifecycle ------------------------
(***************************************************************************)
(* SegmentLifecycle for TLC.  Dates are only compared for equality, so     *)
(* they may be permuted; segments differ by whether their cycles may fail. *)
(***************************************************************************)
EXTENDS SegmentLifecycle, TLC

Symmetry == Permutations(Dates)
============================================================================
