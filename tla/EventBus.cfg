SPECIFICATION SchedulerSpec
CONSTANTS
  a = a
  b = b
  k1 = k1
  k2 = k2
  Emitters = {a, b}
  Keys = {k1, k2}
  Owners <- MixedOwners
  Discrete = Discrete
  NoEvent = NoEvent
  Buffer = 1
  PendingLimit = 1
  MaxEvents = 3
INVARIANTS
  StreamOrder
  AcceptedKept
PROPERTIES
  NobodyHeldUp
CHECK_DEADLOCK FALSE
