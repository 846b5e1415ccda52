SPECIFICATION PartsSpec
CONSTANTS
  Jobs <- AllJobs
  Layouts = {"compact", "kitchen", "detailed"}
  PaperWidth = 48
  CurrencyLabel = 1
  MaxLines = 2200
  MaxBytes = 65536
  Width = 3
  MaxWords = 5
  MaxLength = 7
  Size = 90
  bon = bon
  page = page
  Prints <- TwoPrints
  Copies = 2
  NoHost = NoHost
  HostsPerNetwork = 4
  MaxHosts = 4
  Concurrency = 3
  Hosts <- Targets
  Torn = Torn
  MaxFiles = 3
  LinesPerFile = 2
  Limit = 4
  MaxEvents = 6
  MaxFaults = 2
  NoCall = NoCall
  c1 = c1
  c2 = c2
  i1 = i1
  i2 = i2
  Checks <- TwoChecks
  Installs <- TwoInstalls
  MaxClicks = 2
  MaxFailures = 1
CHECK_DEADLOCK FALSE
INVARIANTS PartsTypeOK NothingLeft FindsAll LogFaithful UpdatesInOrder WrapsFaithfully BonFaithful OrdinaryOrdersPrint
PROPERTIES KeepsPrintPromise PrintsKeepPromise KeepsLogPromise CallsEnd UpdatesEnd
