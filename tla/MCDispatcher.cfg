CONSTANTS
  t1 = t1
  t2 = t2
  t3 = t3
  t4 = t4
  f1 = f1
  f2 = f2
  NoFrame = NoFrame
  Undefined = Undefined
  Order <- MCOrder
  Kind <- MCKind
  Active <- MCActive
  Frames <- MCFrames

SPECIFICATION Spec

INVARIANT ViewsExclusive

PROPERTY EventuallySettled
PROPERTY BaseViewRefined
