SPECIFICATION Spec
CONSTANTS
  c1 = c1
  c2 = c2
  c3 = c3
  a1 = a1
  a2 = a2
  x1 = x1
  None = None
  Calls = {c1, c2, c3}
  Auds = {a1, a2}
  Extras = {x1}
  Lifespans = {3, 7}
  Caches <- TwoCaches
  DEFAULT_TOKEN_LIFESPAN = 2
  TicksPerSecond = 2
  MaxClock = 2
  I64Max = 7
  overflow_checks = TRUE
SYMMETRY AnyCall
INVARIANTS
  TypeOK
  TokenFitsRequest
  CacheBounded
  PanicsAreExplained
  SharedOnlyThroughCache
  CachedWithinSecond
