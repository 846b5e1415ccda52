SPECIFICATION FairSpec
CONSTANTS
  NoGen = NoGen
  g1 = g1
  g2 = g2
  Gens <- TwoGens
  EventKinds <- LivenessKinds
  MaxEvents = 2
  LoneKinds <- RareAlone
PROPERTIES RevocationStops StoppedLoopsEnd
CHECK_DEADLOCK FALSE
