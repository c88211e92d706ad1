------------------------------ MODULE RefCount ------------------------------
(***************************************************************************)
(* The machine words flashmap packs its bookkeeping into.                  *)
(*                                                                         *)
(* A RefCount (src/core/refcount.rs) is one usize: the most significant    *)
(* bit is the index of the map new read guards must use, the other bits    *)
(* count the guards of one read handle.  Core::residual is one isize whose *)
(* most significant bit says that the writer waits.  Both are modelled     *)
(* with their width: with w bits, COUNT_OVERFLOW_BIT = 2^(w-2), and every  *)
(* atomic addition wraps modulo 2^w.                                       *)
(***************************************************************************)
EXTENDS Integers, Store

CONSTANT COUNT_OVERFLOW_BIT   \* second-most significant bit of a usize

ASSUME OverflowBitAssumption == COUNT_OVERFLOW_BIT \in Nat \ {0}

MAP_INDEX_FLAG == 2 * COUNT_OVERFLOW_BIT   \* most significant bit
COUNT_MASK     == MAP_INDEX_FLAG - 1       \* every bit but that one
WORD           == 2 * MAP_INDEX_FLAG       \* 2^w

usize     == 0 .. WORD - 1
isize     == -MAP_INDEX_FLAG .. MAP_INDEX_FLAG - 1
isize_MIN == -MAP_INDEX_FLAG

-----------------------------------------------------------------------------
(* Wrapping arithmetic of AtomicUsize and AtomicIsize; the operands are    *)
(* words, so the sum is off by at most one multiple of 2^w.                *)
usize_add(v, d) == IF v + d >= WORD THEN v + d - WORD ELSE v + d
usize_sub(v, d) == IF v < d THEN v - d + WORD ELSE v - d

isize_add(v, d) ==
  IF v + d > MAP_INDEX_FLAG - 1 THEN v + d - WORD
  ELSE IF v + d < isize_MIN THEN v + d + WORD
  ELSE v + d

-----------------------------------------------------------------------------
(* The value of a RefCount: value >> (BITS - 1) and value & COUNT_MASK.    *)
to_map_index(v) == IF v >= MAP_INDEX_FLAG THEN Second ELSE First
to_count(v)     == IF v >= MAP_INDEX_FLAG THEN v - MAP_INDEX_FLAG ELSE v

(* RefCount::new, and the value each read-modify-write stores.             *)
RefCount_new(read_index) == IF read_index = Second THEN MAP_INDEX_FLAG ELSE 0
incremented(v)           == usize_add(v, 1)
decremented(v)           == usize_sub(v, 1)
maps_swapped(v)          == usize_add(v, MAP_INDEX_FLAG)

(* The test increment makes on the value it replaced:                      *)
(* old_value & COUNT_OVERFLOW_BIT != 0.                                    *)
overflowed(v) == to_count(v) >= COUNT_OVERFLOW_BIT
=============================================================================
