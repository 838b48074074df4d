SPECIFICATION Spec
CONSTANTS
  NoTime = NoTime
  Hotel = 0
  Switches = 1
  AreaEditions = 2
  Places <- MCPlaces
  RoleOf <- MCRoleOf
  StayOf <- MCStayOf
  LeastOf <- MCLeastOf
  RadiusOf <- MCRadiusOf
  StopsNear <- MCStopsNear
  Neighbors <- MCNeighbors
  Trips <- MCTrips
  CallsOf <- MCCallsOf
  NumberOf <- MCNumberOf
  SuspendedOf <- MCSuspendedOf
  PlaceEditions <- MCPlaceEditions
  HourEditions <- MCHourEditions
  ExceptionEditions <- MCExceptionEditions
  EntranceEditions <- MCEntranceEditions
  DietEditions <- MCDietEditions
  Festivals <- MCFestivals
  Firsts <- MCFirsts
  Requests <- MCRequests
INVARIANTS
  
  LedgerIsClosed
  OrdersCanBeRidden
  ProposalsKeepTheRequest
CHECK_DEADLOCK FALSE
