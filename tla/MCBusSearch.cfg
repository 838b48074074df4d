SPECIFICATION Spec
CONSTANTS
  direct = direct
  slow = slow
  next = next
  late = late
  back = back
  east = east
  west = west
  same = same
  NoWalk = NoWalk
  Asks <- MCAsks
  Origin = 0
  Destination = 10
  Boarding <- MCBoarding
  Alighting <- MCAlighting
  Trips <- MCTrips
  CallsOf <- MCCallsOf
  PatternOf <- MCPatternOf
  NumberOf <- MCNumberOf
  SuspendedOf <- MCSuspendedOf
  FareOf <- MCFareOf
  Nearby <- MCNearby
  AnswersOf <- MCAnswersOf
INVARIANTS
  ItineraryCanBeTravelled
  NothingIsMissed
  FewWalksAreAsked
CHECK_DEADLOCK FALSE
