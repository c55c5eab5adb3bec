CONSTANTS
  x = x
  y = y
  Vars = {x, y}
  Sizes = {1, 3}
  CoreHeader = 1
  SharedHeader = 2
  CoreEnd = 6
  SharedEnd = 13
  LengthMax = 31
  Risks = {}
SPECIFICATION Spec
SYMMETRY VarsAlike
INVARIANTS Tiled HeldInUse CoreMerged ErrorMeansFull IndInv
