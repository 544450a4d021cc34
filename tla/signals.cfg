SPECIFICATION SignalSpec
CONSTANTS
  v1 = v1
  v2 = v2
  null = null
  Null = null
  Undefined = undefined
  Absent = absent
  Caught = caught
  Timer = timer
  Signal = {"approve"}
  Value = {v1, v2, null}
  Key <- TwiceKey
  Wait <- TwiceWait
  Timed = {}
  Call <- TwiceCall
  Orderly = TRUE
  Returns <- TwiceReturns
  Throws <- TwiceThrows
  Attempts <- TwiceAttempts
  Catches = {}
  WorkflowAttempts = 2
  TraceEnabled = TRUE
  AutoProbe = FALSE
  Publishes = FALSE
  PublishOnFailure = FALSE
  Unserializable = TRUE
  MaxStateSize = 50
  MaxCrashes = 2
  MaxFaults = 2
  MaxSleeps = 1
  MaxReruns = 0
INVARIANTS
  SignalTypeOK
PROPERTIES
  DurableJob
