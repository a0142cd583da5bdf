SPECIFICATION Spec
CONSTANTS
  i1 = i1
  i2 = i2
  k1 = k1
  k2 = k2
  aud1 = aud1
  j1 = j1
  j2 = j2
  rs256 = rs256
  es256 = es256
  key1a = key1a
  key1b = key1b
  key2 = key2
  noise = noise
  c1 = c1
  c2 = c2
  c3 = c3
  None = None
  Issuers = {i1, i2}
  Audiences = {aud1}
  Jtis = {j1, j2}
  Kids = {k1, k2}
  Keys = {key1a, key1b, key2, noise}
  Algorithms = {rs256, es256}
  IssuersOf <- MCIssuersOf
  resource_server_audience = aud1
  validate_kid = TRUE
  leeway = 0
  DEFAULT_MAX_LIFESPAN = 2
  configured_max_lifespan = 3
  I64Max = 7
  overflow_checks = TRUE
  algorithm = rs256
  TicksPerSecond = 1
  key_cache_duration = 1
  MaxClock = 0
  ClockMayStepBack = FALSE
  StderrMayFail = FALSE
  validate_jti = TRUE
  Servable <- StaticKeys
  Tokens <- NonceTokens
  Whitelists <- NoList
  Calls = {c1, c2}
INVARIANTS
  NoReplay
