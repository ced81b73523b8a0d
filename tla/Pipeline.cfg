SPECIFICATION FairSpec
CONSTANTS
  a = a
  b = b
  a1 = a1
  a2 = a2
  b1 = b1
  bad = bad
  t = t
  c1 = c1
  c2 = c2
  Clients = {c1, c2}
  Locations = {a1, a2, b1, bad}
  Valid = {a1, a2, b1}
  Streams = {a, b}
  StreamOf <- MCStreamOf
  Hash <- MCHash
  Trackables = {t}
  Named <- MCNamed
  Claimants <- MCClaimants
  Requests <- MCRequests
  NativeBuffer = 1
  DerivedBuffer = 2
  BatchSize = 2
  DedupTTL = 1
  LocationTTL = 2
  MaxRequests = 2
  MaxTime = 1
INVARIANTS StoredAndAccounted DedupExact
PROPERTIES StreamOrder PipelineDrains
CHECK_DEADLOCK FALSE
