CONSTANTS
  N = 4
  Samples <- MCSamples

SPECIFICATION Spec

INVARIANT NewestCountedTwice
