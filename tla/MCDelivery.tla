----------------------------- MODULE MCDelivery -----------------------------
(***************************************************************************)
(* An instance of PrintExecutor and one of ExecutionLedger for TLC.  The   *)
(* executor has its own abstraction of the ledger, so that the two share   *)
(* no variable: each step of one is possible with every state of the       *)
(* other, and a behaviour takes steps of one of them only.                 *)
(***************************************************************************)
EXTENDS MCPrintExecutor, ExecutionLedger

CONSTANTS j3, h1, h2, o1

ThreeOrders == {j1, j2, j3}
TwoHashes == {h1, h2}
OneOp == {o1}
PendingOrDone == {"ack_pending", "succeeded"}

LedgerRests == LedgerInit
ExecutorRests == Init /\ \A j \in Jobs : content[j] = p1

BothInit == Init /\ LedgerInit

BothNext ==
  \/ LedgerRests /\ Next /\ UNCHANGED ledgerVars
  \/ ExecutorRests /\ LedgerNext /\ UNCHANGED vars

BothSpec == BothInit /\ [][BothNext]_<<vars, ledgerVars>>

(* The variables of both have their types. *)
DeliveryTypeOK == TypeOK /\ LedgerTypeOK
=============================================================================
