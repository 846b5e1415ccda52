SPECIFICATION Spec
CONSTANTS
  NoEntry = NoEntry
  NoJob = NoJob
  NoLoop = NoLoop
  NoSnapshot = NoSnapshot
  j1 = j1
  j2 = j2
  p1 = p1
  p2 = p2
  l1 = l1
  l2 = l2
  Jobs <- TwoJobs
  Payloads <- OneContent
  Corrupt = {}
  Loops <- TwoLoops
  FaultKinds <- Overlap
  MaxFaults = 3
SYMMETRY JobSymmetry
INVARIANTS Soundness
