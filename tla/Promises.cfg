SPECIFICATION BothSpec
CONSTANTS
  NoEntry = NoEntry
  NoJob = NoJob
  NoLoop = NoLoop
  NoSnapshot = NoSnapshot
  j1 = j1
  j2 = j2
  j3 = j3
  p1 = p1
  p2 = p2
  l1 = l1
  l2 = l2
  Jobs <- TwoJobs
  Payloads <- TwoContents
  Corrupt = {}
  Loops <- OneLoop
  FaultKinds <- NoReadErrors
  MaxFaults = 3
  Torn = Torn
  Absent = Absent
  NoOrder = NoOrder
  h1 = h1
  h2 = h2
  o1 = o1
  OrderIds <- ThreeOrders
  Hashes <- TwoHashes
  States <- PendingOrDone
  Recorders <- OneOp
  Pruners <- OneOp
  LedgerSize = 2
  MaxClock = 1
  MaxFileFaults = 2
SYMMETRY JobSymmetry
INVARIANTS DeliveryTypeOK OneContentPerJob PendingKept
PROPERTIES KeepsPromise KeepsLedgerPromise
