-------------------------------- MODULE Filter --------------------------------
(***************************************************************************)
(* std::erase_if and its like: a sequence without the items that are not    *)
(* wanted.  It is written as a recursive function, by the set of what is    *)
(* wanted, so that the proofs can use it as well as TLC.                   *)
(***************************************************************************)
EXTENDS Naturals, Sequences

\* The items of list that are in wanted, in their order.
Kept(list, wanted) ==
  LET kept[n \in 0..Len(list)] ==
        IF n = 0 THEN <<>>
        ELSE IF list[n] \in wanted THEN Append(kept[n - 1], list[n])
        ELSE kept[n - 1]
  IN  kept[Len(list)]
=============================================================================
