CONSTANTS
  Iris <- MCIris
  Inputs <- MCInputs
  Placeholders <- MCPlaceholders
  Embedded <- MCEmbedded
  QuadBatch = 2
  TripleBatch = 3
  QuadCapacity = 2
SPECIFICATION RunSpec
INVARIANT MappingIsApplied
INVARIANT SpellingDoesNotMatter
CHECK_DEADLOCK FALSE
