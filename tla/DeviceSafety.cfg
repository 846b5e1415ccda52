SPECIFICATION DeviceSpec
CONSTANTS
  NoGen = NoGen
  g1 = g1
  g2 = g2
  Gens <- TwoGens
  EventKinds <- EveryKind
  MaxEvents = 2
  LoneKinds <- NoneAlone
  NoCode = NoCode
  UnknownPage = UnknownPage
  c1 = c1
  c2 = c2
  d1 = d1
  d2 = d2
  Codes <- TwoCodes
  Disconnects <- TwoDisconnects
  FaultKinds <- AnyFault
  MaxFaults = 1
  MaxStarts = 1
CHECK_DEADLOCK FALSE
SYMMETRY DeviceSymmetry
INVARIANTS DeviceTypeOK PausedOrWithdrawnIsStopped AuthorizationAlwaysChecked
  OneCredential ShownPageIsChecked
PROPERTIES NoLateHandoff
