------------------------------- MODULE Lists -------------------------------
(***************************************************************************)
(* Taking elements out of a list.  Select is SelectSeq of module Sequences *)
(* with the elements to keep given as a set, written as a function of the  *)
(* length so that proofs can unfold it.                                    *)
(***************************************************************************)
EXTENDS Integers, Sequences

\* Selected(s, T)[i]: the elements of T among the first i elements of s
Selected(s, T) ==
    LET sel[i \in 0 .. Len(s)] ==
            IF i = 0 THEN << >>
            ELSE IF s[i] \in T THEN Append(sel[i - 1], s[i]) ELSE sel[i - 1]
    IN  sel

Select(s, T) == Selected(s, T)[Len(s)]
=============================================================================
