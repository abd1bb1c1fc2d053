SPECIFICATION DriverSpec
CONSTANTS
  Rows <- OneFile
  Window = 1
  Settle = 1
  DownloadSettle = 2
  Preexisting = {}
  Removable = {}
  Flaky <- TransferList
  MaxCycle = 4
  MaxGap = 10
  MaxTime = 10
  Offered <- OneHash
  HasTerms = FALSE
  FixedHash = FALSE
  StartDelay = 0
  SearchInterval = 2
  Postponement = 2
  DownloadEvery = 2
  DownloadDelay = 3
  PollInterval = 1
  Duration = 9
  Outages = TRUE
  OperatorRows <- RustFile
INVARIANTS
  DriverTypeOK
  NoneOverdue
  Gentle
  RepeatsComeFromOutages
  TwinsStayTogether
PROPERTIES
  KeepsTrackerProtocol
CHECK_DEADLOCK FALSE
