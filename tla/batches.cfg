SPECIFICATION Spec
CONSTANTS
  c1 = c1
  c2 = c2
  Call <- TwoCalls
  Size <- Sizes
  Foreign <- OneForeign
  MaxRejected = 1
  MaxRedelivered = 1
  MaxUnpublished = 1
INVARIANTS
  BatchTypeOK
  ResultsHaveAPlace
  BatchesStayApart
PROPERTIES
  BatchesComplete
