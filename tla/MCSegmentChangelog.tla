------------------------ MODULE MCSegmentChangelog ------------------------
(* Instances of SegmentChangelog for TLC. *)
EXTENDS SegmentChangelog, TLC

CONSTANTS a, b, c  \* the ids

AllTwins == Ids \X Ids

Scene(base, ids, threads, ticks, faults) ==
  [backend |-> base, ids |-> ids, threads |-> threads, ticks |-> ticks, mishaps |-> faults]

Scenes == {Scene("json", {a, b}, Cycles, 2, 1), Scene("sqlite", {a, b}, {"realtime"}, 2, 1),
           Scene("json", Ids, {"realtime"}, 3, 0)}

Symmetry == Permutations({a, b})
=============================================================================
