------------------------------- MODULE MCZipf --------------------------------
(* A small instance of Zipf: three ranks.                                   *)
EXTENDS Zipf

MCHarmonic == [i \in 0..3 |-> <<0, 6, 9, 11>>[i + 1]]     \* s = 1, times 6
==============================================================================
