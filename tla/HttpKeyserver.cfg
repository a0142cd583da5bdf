SPECIFICATION FairSpec
CONSTANTS
  primary = primary
  mistyped = mistyped
  fallback = fallback
  old = old
  new = new
  None = None
  NoKey = NoKey
  Down = Down
  Servers = {primary, fallback}
  Mistyped = {mistyped}
  Keys = {old, new}
  Timeouts = {0, 2}
  DEFAULT_TIMEOUT = 1
  MaxUrls = 2
INVARIANTS
  TypeOK
  TriedInOrder
  BoundedWait
  CountIsFetches
PROPERTIES
  ImplementsLookup
  LookupEnds
