SPECIFICATION Spec
CONSTANTS
  Unset = Unset
  Disabled = Disabled
  None = None
  OtherFloor = OtherFloor
  w1 = w1
  w2 = w2
  f = f
  inside = inside
  band = band
  beyond = beyond
  upstairs = upstairs
  Fences = {f}
  TrackablePolicy <- NoSettings
  Workers = {w1, w2}
  Places = {inside, beyond}
  Scopes <- OneScope
  ScopeOf <- InLocal
  Routes <- LocalOnly
  Distance <- OneScopeDistance
  FencePolicy <- NoFenceSettings
  ProviderPolicy <- NoOverrides
  LocationTTL = 3
  MaxTime = 0
PROPERTIES EdgesAlternate
