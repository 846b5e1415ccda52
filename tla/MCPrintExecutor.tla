-------------------------- MODULE MCPrintExecutor --------------------------
(***************************************************************************)
(* Instances of PrintExecutor for TLC.                                     *)
(***************************************************************************)
EXTENDS PrintExecutor, TLC

CONSTANTS j1, j2, p1, p2, l1, l2

OneJob == {j1}
TwoJobs == {j1, j2}
OneContent == {p1}
TwoContents == {p1, p2}
CorruptContent == {p2}
OneLoop == {l1}
TwoLoops == {l1, l2}

EveryKind == AllFaultKinds
NoReadErrors == AllFaultKinds \ {"ledger_read"}
NoReplay == AllFaultKinds \ {"replay"}
NetworkOnly == {"request"}
PrinterAndNetwork == {"request", "offline"}
Overlap == {"abort", "crash", "expiry", "request"}

JobSymmetry == Permutations(Jobs)
=============================================================================
