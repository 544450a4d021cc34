SPECIFICATION InputsSpec
CONSTANTS
  None = none
  Missing = missing
  MaxTimer = 9
  Heap <- SmallHeaps
  Policy <- SmallPolicy
  ModulePolicy <- SmallModulePolicy
  Class <- SmallClass
  Application <- SmallImports
  Sweep <- SmallSweeps
  Sample <- SmallSamples
INVARIANTS
  ValuesRoundTrip
  PoliciesMerge
  RegistryNamesClasses
  SweepsAreSound
