SPECIFICATION ResultSpec
CONSTANTS
  v1 = v1
  w1 = w1
  c1 = c1
  Waiter = {w1}
  Reader = {c1}
  Watcher = {c1}
  Undefined = undefined
  Absent = absent
  Caught = caught
  Signal = {}
  Value = {v1}
  Key <- OneStep
  Returns <- OneReturns
  Throws <- OneThrows
  Attempts <- OneAttempts
  Catches = {}
  WorkflowAttempts = 2
  TraceEnabled = FALSE
  AutoProbe = FALSE
  Publishes = TRUE
  PublishOnFailure = TRUE
  Unserializable = FALSE
  MaxStateSize = 50
  MaxCrashes = 1
  MaxFaults = 1
  MaxSleeps = 0
  MaxReruns = 1
  MaxRedelivered = 1
INVARIANTS
  AnswersAgree
  AnswersAreDurable
  RedeliveriesAgree
PROPERTIES
  WaitsEnd
  ResultsAreHandled
