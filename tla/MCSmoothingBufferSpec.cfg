CONSTANTS
  N = 2
  Samples = {5, 10, 15}

SPECIFICATION Spec

INVARIANT MatchesSpecWindow
