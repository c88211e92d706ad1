------------------------------ MODULE MCOpLog ------------------------------
(* OpLog on small instances.                                               *)
EXTENDS OpLog, TLC

Symmetry ==
  Permutations(Keys) \cup Permutations(KeyObjects) \cup Permutations(ValueObjects)
=============================================================================
