SPECIFICATION SignalSpec
CONSTANTS
  v1 = v1
  v2 = v2
  null = null
  Null = null
  Undefined = undefined
  Absent = absent
  Caught = caught
  Timer = timer
  Signal = {"approve", "ship"}
  Value = {v1, v2, null}
  Key <- TwoKey
  Wait <- TwoWait
  Timed <- TwoWait
  Call <- TwoCall
  Orderly = FALSE
  Returns <- TwoReturns
  Throws <- TwoThrows
  Attempts <- TwoAttempts
  Catches = {}
  WorkflowAttempts = 2
  TraceEnabled = TRUE
  AutoProbe = FALSE
  Publishes = FALSE
  PublishOnFailure = FALSE
  Unserializable = FALSE
  MaxStateSize = 50
  MaxCrashes = 1
  MaxFaults = 1
  MaxSleeps = 0
  MaxReruns = 0
INVARIANTS
  AnswersAreGenuine
PROPERTIES
  RunKeepsItsAnswers
  JobSettles
