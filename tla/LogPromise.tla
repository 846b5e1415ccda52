----------------------------- MODULE LogPromise -----------------------------
(***************************************************************************)
(* What the diagnostic log promises whatever happens to the disk and the   *)
(* program: its entries are in the order of their events, new ones come at *)
(* the end, and what is forgotten is forgotten from the beginning.         *)
(***************************************************************************)
EXTENDS Naturals, Sequences

CONSTANT Events

VARIABLE log

Init == log = <<>>

Add ==
  \E e \in Events :
    /\ \A i \in DOMAIN log : log[i] < e
    /\ log' = Append(log, e)

Forget == \E n \in DOMAIN log : log' = SubSeq(log, n + 1, Len(log))

Next == Add \/ Forget

Spec == Init /\ [][Next]_log
=============================================================================
