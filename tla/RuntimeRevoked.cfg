SPECIFICATION Spec
CONSTANTS
  NoGen = NoGen
  g1 = g1
  g2 = g2
  Gens <- TwoGens
  EventKinds <- StandingOnly
  MaxEvents = 2
  LoneKinds <- NoneAlone
INVARIANTS RevokedStaysVisible
CHECK_DEADLOCK FALSE
