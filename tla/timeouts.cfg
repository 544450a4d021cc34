SPECIFICATION Spec
CONSTANTS
  v1 = v1
  Undefined = undefined
  Absent = absent
  Caught = caught
  Signal = {}
  Value = {v1}
  Key <- PlanKey
  Plan <- OnePlan
  Attempts <- TwoAttempts
  Timed = {"slow", "child"}
  Flaky = {"child"}
  WorkflowAttempts = 1
  MaxStateSize = 50
  MaxCrashes = 1
INVARIANTS
  TimeoutTypeOK
  AttemptsAreIsolated
  RetryBudget
PROPERTIES
  RunEnds
