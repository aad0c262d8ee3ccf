SPECIFICATION FairSpec
CONSTANTS
  d1 = d1
  d2 = d2
  d3 = d3
  Null = Null
  Dev = {d1, d2, d3}
  Loaded <- MCLoaded
  Removable = {d1, d2, d3}
  Rotations <- MCRotations
  Firsts <- MCFirsts
  MaxItems = 3
INVARIANTS NoUseAfterFree RotationFair
PROPERTY RemovalHappens
