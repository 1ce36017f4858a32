CONSTANTS
  MinBytes = 4
  MaxBytes = 32
  Requested = 5
  MinCount = 1
  EstimatedBytes = 14
  Count <- MCCount
  BlockLines = 2
  BatchLines = 3
  Capacity = 2
  MaxLines = 14
SPECIFICATION Spec
INVARIANTS LinesFlow
PROPERTIES ImplementsOutput CallsReturn
CHECK_DEADLOCK FALSE
