SPECIFICATION Spec
CONSTANTS
  r1 = r1
  r2 = r2
  t1 = t1
  t2 = t2
  t3 = t3
  walk = walk
  drive = drive
  direct = direct
  access = access
  taxi = taxi
  NoThread = NoThread
  NoKey = NoKey
  Requests = {r1, r2}
  Threads = {t1, t2, t3}
  RequestOf <- MCRequestOf
  Keys = {walk, drive}
  Allocs = {direct, access, taxi}
  AllocsOf <- MCAllocsOf
  LimitOf <- MCLimitOf
  MaxCalls = 3
  Slots = 1
  MaxFetches = 2
SYMMETRY ThreadSymmetry
INVARIANTS
  TypeOK
  LocksAndSlotsAreReturned
  ReservedCallsRemain
PROPERTIES
  ClaimsAreUsed
  NoRouteIsPaidTwice
  ImplementsSingleFlight
CHECK_DEADLOCK FALSE
