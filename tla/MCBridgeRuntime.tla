-------------------------- MODULE MCBridgeRuntime --------------------------
(***************************************************************************)
(* Instances of BridgeRuntime for TLC.                                     *)
(***************************************************************************)
EXTENDS BridgeRuntime, TLC

CONSTANTS g1, g2

TwoGens == {g1, g2}

EveryKind == AllEventKinds
PrinterOnly == {"configure"}
LivenessKinds == AllEventKinds \ {"auth"}
NoneAlone == {}
RareAlone == {"disconnect", "pair", "crash", "update"}
StandingOnly == {"standing"}

GenSymmetry == Permutations(Gens)
=============================================================================
