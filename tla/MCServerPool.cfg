SPECIFICATION FairSpec
CONSTANTS
  NServer = 3
  SETTINGS <- Settings
  HASH = 23
  POINTS_PER_SERVER = 5
  POINTER_PER_HASH = 1
  CONTINUUM_ADDITION = 1
  WORD = 32
  FLT_MANT_DIG = 3
  FLT_MAX_EXP = 10
  PRECISION = 3
  MaxPoints = 8
  FAILURE_LIMIT = 2
  RETRY_TIMEOUT = 2
  MaxFailTime = 2
  MaxTime = 5
INVARIANTS RetriesArePlanned RequestsRouted ContinuumFits SuccessorOnRing
PROPERTIES KeysStay EjectedRetried
CHECK_DEADLOCK FALSE
