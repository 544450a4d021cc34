SPECIFICATION Spec
CONSTANTS
  v1 = v1
  Undefined = undefined
  Absent = absent
  Caught = caught
  Signal = {}
  Value = {v1}
  Key <- NestedKey
  Returns <- NestedReturns
  Throws <- NestedThrows
  Attempts <- NestedAttempts
  Catches = {}
  WorkflowAttempts = 2
  TraceEnabled = TRUE
  AutoProbe = FALSE
  Publishes = TRUE
  PublishOnFailure = FALSE
  Unserializable = TRUE
  MaxStateSize = 50
  MaxCrashes = 0
  MaxFaults = 0
  MaxSleeps = 0
  MaxReruns = 0
INVARIANTS
  CompletedHasResult
