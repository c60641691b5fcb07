CONSTANTS
  rm = rm
  NoFrame = NoFrame
  NoPointable = NoPointable
  NoButton = NoButton
  Undefined = Undefined
  Order <- MCOrder
  Kind <- MCKind
  Active <- MCActive
  Frames <- MCFrames
  CanvasHeight = 400
  IBox <- MCIBox
  Positions <- MCPositions
  Velocities = {0}
  AlphaSteps = 2

SPECIFICATION Spec

PROPERTY NavigatesOnTouchStartOverButton
