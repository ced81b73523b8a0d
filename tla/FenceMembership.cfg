SPECIFICATION Spec
CONSTANTS
  Unset = Unset
  Disabled = Disabled
  None = None
  OtherFloor = OtherFloor
  w1 = w1
  w2 = w2
  f = f
  inside = inside
  band = band
  beyond = beyond
  upstairs = upstairs
  Fences = {f}
  TrackablePolicy <- NoSettings
  Workers = {w1}
  Places = {inside, band, beyond, upstairs}
  Scopes <- OneScope
  ScopeOf <- InLocal
  Routes <- LocalOnly
  Distance <- OneScopeDistance
  FencePolicy <- FenceSettings
  ProviderPolicy <- ShorterDelay
  LocationTTL = 3
  MaxTime = 5
INVARIANTS AnnouncedState
PROPERTIES EdgesAlternate ExitDebounced
