SPECIFICATION Spec
CONSTANTS
  v1 = v1
  Undefined = undefined
  Absent = absent
  Caught = caught
  Signal = {}
  Value = {v1}
  Key <- ChancyKey
  Returns <- ChancyReturns
  Throws <- ChancyThrows
  Attempts <- ChancyAttempts
  Catches <- StepCatches
  WorkflowAttempts = 2
  TraceEnabled = TRUE
  AutoProbe = TRUE
  Publishes = FALSE
  PublishOnFailure = FALSE
  Unserializable = TRUE
  MaxStateSize = 4
  MaxCrashes = 1
  MaxFaults = 2
  MaxSleeps = 1
  MaxReruns = 1
INVARIANTS
  ObservedIsDurable
PROPERTIES
  DurableJob
