SPECIFICATION Spec
CONSTANTS
  i1 = i1
  i2 = i2
  t1 = t1
  Earlier = Earlier
  Malformed = Malformed
  Option = Option
  Missing = Missing
  None = None
  Inits = {i1, i2}
  Commands = {t1}
  Pieces = 2
  Options <- SomeOptions
  Unstable = {"cwd"}
SYMMETRY AnyInit
INVARIANTS
  TypeOK
  UsesNearestConfig
  NotFoundIsHonest
  
  SilenceMeansSaved
CHECK_DEADLOCK FALSE
