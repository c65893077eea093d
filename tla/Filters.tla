------------------------------- MODULE Filters -------------------------------
(***************************************************************************)
(* The members of a set in a sequence: which they are, in their order, and *)
(* how many.  The properties and the proofs speak of the packets of a kind *)
(* in a ring with these two; unlike SelectSeq they take a set, which a     *)
(* lemma can quantify over.                                                *)
(***************************************************************************)
EXTENDS Integers, Sequences

\* The members of T in s, in their order.
Filter(s, T) ==
  LET kept[i \in 0..Len(s)] ==
        IF i = 0 THEN <<>>
        ELSE IF s[i] \in T THEN Append(kept[i - 1], s[i]) ELSE kept[i - 1]
  IN kept[Len(s)]

\* How many elements of s are members of T.
NumberOf(s, T) == Len(Filter(s, T))
==============================================================================
