SPECIFICATION FairMetadataSpec
CONSTANTS
  c1 = c1
  c2 = c2
  z1 = z1
  z2 = z2
  t = t
  own = own
  both = both
  p1 = p1
  p2 = p2
  dOwn = dOwn
  dBoth = dBoth
  dP = dP
  Clients = {c1, c2}
  Zones = {z1, z2}
  Trackables = {t}
  Others = {}
  Docs <- AllDocs
  DocsOf <- AllDocsOf
  Refs <- AllRefs
  RefsOf <- AllRefsOf
  NoDoc = NoDoc
  LoadOrder <- ZonesThenTrackables
  MaxWrites = 2
INVARIANTS
  IndexesAgree
  NoSilentChange
PROPERTIES
  Converges
