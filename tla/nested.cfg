SPECIFICATION Spec
CONSTANTS
  JobCount = 3
  Nested = 1
  WorkerConcurrency = 3
  ProducerConcurrency = 2
  CompletionConcurrency = 1
  StepAttempts = 2
  MaxTimeouts = 1
  MaxFailures = 1
  MaxCrashes = 1
INVARIANTS
  TypeOK
  
  
  EachIndexOnce
PROPERTIES
  ScenarioEnds
