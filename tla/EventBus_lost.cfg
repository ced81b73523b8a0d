SPECIFICATION Spec
CONSTANTS
  a = a
  b = b
  k1 = k1
  k2 = k2
  Emitters = {a}
  Keys = {k1}
  Owners <- OneOwner
  Discrete = Discrete
  NoEvent = NoEvent
  Buffer = 1
  PendingLimit = 1
  MaxEvents = 3
INVARIANT NoSilentLoss
CHECK_DEADLOCK FALSE
