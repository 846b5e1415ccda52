----------------------------- MODULE MCPairing -----------------------------
(***************************************************************************)
(* Instances of Pairing for TLC.                                           *)
(***************************************************************************)
EXTENDS Pairing, TLC

CONSTANTS c1, c2, d1, d2

AnyFault == AllFaultKinds
ServiceFaults == {"request", "page"}

TwoCodes == {c1, c2}
OneDisconnect == {d1}
TwoDisconnects == {d1, d2}

PairingSymmetry == Permutations(Codes) \cup Permutations(Disconnects)
=============================================================================
