SPECIFICATION FairSpec
CONSTANTS
  hotel = hotel
  fort = fort
  falls = falls
  grill = grill
  cafe = cafe
  Start = hotel
  End = hotel
  NoPlace = NoPlace
  NoTime = NoTime
  Open = 600
  Places <- MCPlaces
  KindOf <- MCKindOf
  WindowsOf <- MCWindowsOf
  WalkOf <- MCWalkOf
  DriveOf <- MCDriveOf
  FareOf <- MCFareOf
  LeastFareOf <- MCLeastFareOf
  BeelineOf <- MCBeelineOf
  BusesOf <- MCBusesOf
  StayOf <- MCStayOf
  MinStayOf <- MCMinStayOf
  MaxStayOf <- MCMaxStayOf
  Requests <- MCRequests
INVARIANTS TypeOK PlansAreWhole PromisesAreKept PlansAreFeasible SlackAgrees
PROPERTY PlanningEnds
CHECK_DEADLOCK FALSE
