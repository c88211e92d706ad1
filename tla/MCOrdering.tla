----------------------------- MODULE MCOrdering -----------------------------
(* Ordering on small instances.                                            *)
EXTENDS Ordering, TLC

Symmetry ==
  Permutations(Handles) \cup Permutations(Guards) \cup Permutations(Threads)
=============================================================================
