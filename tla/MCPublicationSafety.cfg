SPECIFICATION Spec
CONSTANTS
  tour = tour
  stops = stops
  x1 = x1
  x2 = x2
  x3 = x3
  y1 = y1
  y2 = y2
  bound = bound
  whole = whole
  june = june
  NoClient = NoClient
  NoPub = NoPub
  NoExpansion = NoExpansion
  SnapshotCap = snapshot
  HoursCap = hours
  WholeScope <- whole
  Scopes = {whole, june}
  Clients = {c1, c2}
  Sources <- TwoSources
  Acqs = {x1, x2, x3}
  SourceOf <- MCSourceOf
  VersionOf <- MCVersionOf
  RowsOf <- MCRowsOf
  CapsOf <- MCCapsOf
  IntroSources = {tour}
  Batches <- MCBatches
  GoodAcqs = {x1, x2, x3}
  ManualSources = {}
  BusStopSources = {}
  ExpansionsOf <- MCExpansionsOf
  MaxRowChange = 50
  MaxEvents = 2
  MaxCrashes = 1
SYMMETRY ClientSymmetry
INVARIANTS
  TypeOK
  LocksMatchTransactions
  PublicationMatchesStatus
  DatasetsAreDistinct
  PublishedCoverageIsReady
  ActivationHistory
PROPERTY
  ImplementsLifecycle
CHECK_DEADLOCK FALSE
