------------------------------- MODULE MCCore -------------------------------
(* Core on small instances.                                                *)
EXTENDS Core, TLC

Symmetry ==
  Permutations(Handles) \cup Permutations(Guards) \cup Permutations(Threads)
=============================================================================
