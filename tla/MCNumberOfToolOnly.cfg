CONSTANTS
  no = no
  NoFrame = NoFrame
  Undefined = Undefined
  Order <- MCOrder
  Kind <- MCKind
  Active <- MCActive
  Frames <- MCFrames
  FrameBuffer = 5

SPECIFICATION Spec

INVARIANT SteadyCountShown
