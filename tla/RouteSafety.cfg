SPECIFICATION RouteSpec
CONSTANTS
  Torn = Torn
  Absent = Absent
  NoValue = NoValue
  NoId = NoId
  a = a
  b = b
  c = c
  x = x
  y = y
  r1 = r1
  r2 = r2
  Ids <- ThreePrinters
  Primary <- a
  Values <- TwoThings
  Requests <- TwoCalls
  MaxSettingsFaults = 1
  NoPrinter = NoPrinter
  Printers <- TwoThings
  Tasks <- TwoCalls
  Failed <- Offline
  MaxEdits = 2
  MaxHealthFaults = 1
  None = None
  Spooled = Spooled
  Candidates <- TwoThings
  MaxSearches = 2
  MaxTests = 2
  MaxConfirms = 1
  MaxChanges = 1
  MaxUnanswered = 2
SYMMETRY RouteSymmetry
CHECK_DEADLOCK FALSE
INVARIANTS RouteTypeOK SettingsMakeSense HealthFitsSettings BeliefIsKept StoredAsShownAndTested
PROPERTIES KeepsSettingsPromise KeptThroughOneFailure
