SPECIFICATION FairSpec
CONSTANTS
  tour = tour
  stops = stops
  x1 = x1
  x2 = x2
  x3 = x3
  y1 = y1
  y2 = y2
  bound = bound
  whole = whole
  june = june
  NoClient = NoClient
  NoPub = NoPub
  NoExpansion = NoExpansion
  SnapshotCap = snapshot
  HoursCap = hours
  WholeScope <- whole
  Scopes = {whole, june}
  Clients = {c1, c2}
  Sources <- OneSource
  Acqs = {y1, y2}
  SourceOf <- MCSourceOf
  VersionOf <- MCVersionOf
  RowsOf <- EqualRows
  CapsOf <- MCCapsOf
  IntroSources = {}
  Batches <- FullAndPartial
  GoodAcqs = {y1, y2}
  ManualSources = {}
  BusStopSources = {}
  ExpansionsOf <- NoExpansionsOf
  MaxRowChange = 50
  MaxEvents = 1
  MaxCrashes = 1
PROPERTIES
  CommandsEnd
  
CHECK_DEADLOCK FALSE
