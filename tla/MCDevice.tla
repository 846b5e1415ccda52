------------------------------ MODULE MCDevice ------------------------------
(***************************************************************************)
(* An instance of BridgeRuntime and one of Pairing for TLC.  Each models   *)
(* what it needs of the other: the runtime sees credentials come and go,   *)
(* pairing sees a runtime that runs with a credential or is stopped.  They *)
(* share no variable, so that each step of one is possible with every      *)
(* state of the other, and a behaviour takes steps of one of them only.    *)
(***************************************************************************)
EXTENDS MCBridgeRuntime, MCPairing

RuntimeRests == Init /\ credential /\ configured
PairingRests == PairingInit

(* A fault comes with one disconnect; two disconnects without a fault. *)
MCPairingNext ==
  /\ PairingNext
  /\ faultsLeft' # MaxFaults => \E d \in Disconnects : leave'[d] = "idle"

DeviceInit == Init /\ PairingInit

DeviceNext ==
  \/ PairingRests /\ Next /\ UNCHANGED pairingVars
  \/ RuntimeRests /\ MCPairingNext /\ UNCHANGED vars

DeviceSpec == DeviceInit /\ [][DeviceNext]_<<vars, pairingVars>>

DeviceSymmetry == GenSymmetry \cup PairingSymmetry

(* The variables of both have their types. *)
DeviceTypeOK == TypeOK /\ PairingTypeOK
=============================================================================
