------------------------------- MODULE Store -------------------------------
(* MapIndex (src/core/store.rs): which of the two copies of the map.       *)

First    == 0
Second   == 1
MapIndex == {First, Second}

other(i) == IF i = First THEN Second ELSE First
=============================================================================
