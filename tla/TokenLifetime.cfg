SPECIFICATION Spec
CONSTANTS
  i1 = i1
  i2 = i2
  k1 = k1
  j1 = j1
  aud1 = aud1
  aud2 = aud2
  None = None
  Issuers = {i1, i2}
  Audiences = {aud1, aud2}
  Jtis = {j1}
  Kids = {k1}
  IssuersOf <- MCIssuersOf
  Inputs <- MCInputs
  resource_server_audience = aud1
  validate_kid = TRUE
  leeway = 1
  DEFAULT_MAX_LIFESPAN = 2
  configured_max_lifespan = 3
  I64Max = 7
  overflow_checks = TRUE
  MaxNow = 7
INVARIANTS
  AcceptsExactlyConforming
  AcceptedLifespanLimited
  RejectedOnlyBeyondSetting
  BoundedUse
CHECK_DEADLOCK FALSE
