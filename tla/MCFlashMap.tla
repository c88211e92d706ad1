----------------------------- MODULE MCFlashMap -----------------------------
(* FlashMap on small instances.                                            *)
EXTENDS FlashMap, TLC

Symmetry ==
  Permutations(Handles) \cup Permutations(Guards)
    \cup Permutations(KeyObjects) \cup Permutations(ValueObjects)
=============================================================================
