SPECIFICATION Spec
CONSTANTS
  i1 = i1
  i2 = i2
  k1 = k1
  aud1 = aud1
  aud2 = aud2
  j1 = j1
  j2 = j2
  None = None
  Issuers = {i1, i2}
  Audiences = {aud1, aud2}
  Jtis = {j1, j2}
  Kids = {k1}
  IssuersOf <- MCIssuersOf
  resource_server_audience = aud1
  validate_kid = TRUE
  leeway = 1
  DEFAULT_MAX_LIFESPAN = 2
  configured_max_lifespan = 2
  I64Max = 7
  overflow_checks = TRUE
  client_iss = i1
  client_kid = k1
  Auds <- MCAuds
  Extras <- MCExtras
  ForeignWires <- MCForeignWires
  whitelist <- MCWhitelist
  Lifespans = {1, 7}
  DEFAULT_TOKEN_LIFESPAN = 2
  MaxClock = 3
  MaxTokens = 2
INVARIANTS
  TypeOK
  ReceivedAsSent
  CheckedAsSigned
  OneKeyOneToken
  HonestTokensAccepted
