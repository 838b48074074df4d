SPECIFICATION Spec
CONSTANTS
  NumQueries = 2
  Versions = {"small", "odd"}
  VersionsOf <- MCVersionsOf
  NoVersion = "none"
  Total <- MCTotal
  RowsPerPage = 2
  MaximumPages = 2
  MaxPage = 2
  FreshnessDays = 1
  MaxDay = 2
  MaxRuns = 3
  MaxFaults = 2
  MaxEdits = 1
INVARIANTS
  AcquiredIsOneVersion
  StalePagesAreNotReused
  AttemptsNeverCollide
  CompletedIsReused
PROPERTIES
  ImplementsRawIntake
CHECK_DEADLOCK FALSE
