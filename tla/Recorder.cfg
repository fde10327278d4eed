CONSTANTS
  Configs <- CommandLines
  Lines = 2
  IntMax = 6
SPECIFICATION Spec
INVARIANTS
  TypeOK
  ListingAsPromised
  ShownRowsFresh
  ManifestAgrees
  TraceWhole
CHECK_DEADLOCK FALSE
