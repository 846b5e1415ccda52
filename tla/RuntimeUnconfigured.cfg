SPECIFICATION Spec
CONSTANTS
  NoGen = NoGen
  g1 = g1
  g2 = g2
  Gens <- TwoGens
  EventKinds <- PrinterOnly
  MaxEvents = 2
  LoneKinds <- NoneAlone
INVARIANTS ConfiguredBridgePolls
CHECK_DEADLOCK FALSE
