SPECIFICATION PairingFairSpec
CONSTANTS
  NoCode = NoCode
  UnknownPage = UnknownPage
  c1 = c1
  c2 = c2
  d1 = d1
  d2 = d2
  Codes <- TwoCodes
  Disconnects <- OneDisconnect
  FaultKinds <- ServiceFaults
  MaxFaults = 1
  MaxStarts = 1
CHECK_DEADLOCK FALSE
INVARIANTS ShownCodeIsPolled
PROPERTIES PairingEnds
