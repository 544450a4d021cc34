SPECIFICATION Spec
CONSTANTS
  v1 = v1
  Undefined = undefined
  Absent = absent
  Caught = caught
  Signal = {}
  Value = {v1}
  Key <- NestedKey
  Returns <- NestedReturns
  Throws <- NestedThrows
  Attempts <- NestedAttempts
  Catches = {}
  WorkflowAttempts = 2
  TraceEnabled = TRUE
  AutoProbe = TRUE
  Publishes = TRUE
  PublishOnFailure = TRUE
  Unserializable = FALSE
  MaxStateSize = 50
  MaxCrashes = 2
  MaxFaults = 2
  MaxSleeps = 1
  MaxReruns = 2
INVARIANTS
  TypeOK
  ObservedIsDurable
  NoReexecution
  RetryBudget
  CacheIsCompact
  NoFalseDivergence
  CompletedIsPublished
PROPERTIES
  DecidedStepsStay
  DurableJob
  EveryRunEnds
  JobSettles
