SPECIFICATION Spec
CHECK_DEADLOCK FALSE
CONSTANTS
  hotel = hotel
  fort = fort
  falls = falls
  grill = grill
  cafe = cafe
  wayside = wayside
  NoPlace = noplace
  NoTime = notime
  Unconfirmed = unconfirmed
  Lost = lost
  Stale = stale
  Start = hotel
  End = hotel
  Wayside = wayside
  Places <- MCPlaces
  KindOf <- MCKindOf
  WindowsOf <- MCWindowsOf
  WalkOf <- MCWalkOf
  DriveOf <- MCDriveOf
  FareOf <- MCFareOf
  BusesOf <- MCBusesOf
  StopOf <- MCStopOf
  StairsKnown <- MCStairsKnown
  MealSafety <- MCMealSafety
  Trips <- MCTrips
  Delays = {0, 12, 35}
  Arrivals = {unconfirmed, lost, stale, 4}
  Limits = {3, 30}






INVARIANT RecoveriesAreAhead
