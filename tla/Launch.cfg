CONSTANTS
  WorldSizes = {1, 2, 3}
  HeadCounts = {1, 2, 3, 4}
  HeadDim = 2
  InFeatures = 5
  Tokens = 2
  Layer = {l1, l2}
  Columns = 5
  GroupSize = 2
  WeightValues <- MCWeightValues
  NaNCodes <- MCNaNCodes
SPECIFICATION MCSpec
INVARIANTS
  GatherWhole
  HalfStep
