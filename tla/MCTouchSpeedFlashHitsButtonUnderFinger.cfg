CONSTANTS
  ts = ts
  NoFrame = NoFrame
  NoPointable = NoPointable
  NoButton = NoButton
  Undefined = Undefined
  Order <- MCOrder
  Kind <- MCKind
  Active <- MCActive
  Frames <- MCFrames
  CanvasHeight = 400
  IBox <- MCIBox
  Positions <- MCPositions
  Velocities <- MCVelocities
  TipSpeedNum = 3
  SpeedReductionFactor = 300
  AlphaSteps = 2

SPECIFICATION Spec


PROPERTY FlashHitsButtonUnderFinger
