CONSTANTS
  sc = sc
  NoFrame = NoFrame
  Undefined = Undefined
  Order <- MCOrder
  Kind <- MCKind
  Active <- MCActive
  Frames <- MCFrames
  CellSize = 100
  MaxFrames = 3

SPECIFICATION Spec

INVARIANT OffsetWrapsModulo
