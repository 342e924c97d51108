SPECIFICATION CheckpointSpec
CONSTANTS
  Producers = {p1, p2}
  Interval = 1
  PageSize = 1
  MaxIncarnations = 2
  MaxClaims = 2
  MaxBatches = 3
  None = None
SYMMETRY Alike
INVARIANT CurrentFoldsAreTrue
