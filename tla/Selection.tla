----------------------------- MODULE Selection -----------------------------
(***************************************************************************)
(* Array.prototype.filter: the elements of a list that are wanted, in the  *)
(* order of the list.  As SelectSeq, but with a set for the test and a     *)
(* function for the recursion, so that it can be reasoned about.           *)
(***************************************************************************)
EXTENDS Naturals, Sequences

Selected(list, Wanted) ==
  LET kept[n \in 0..Len(list)] ==
        IF n = 0 THEN <<>>
        ELSE IF list[n] \in Wanted THEN Append(kept[n - 1], list[n]) ELSE kept[n - 1]
  IN kept[Len(list)]
=============================================================================
