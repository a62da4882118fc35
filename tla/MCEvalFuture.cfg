CONSTANTS
  MaxSubmits = 2
  Boxes = {b1, b2}
  NoBox = NoBox
  Wakers = {w1, w2}
  NoWaker = NoWaker
SPECIFICATION FairFutureSpec
INVARIANTS
  ResolvesTruly
  AsyncAfterDrain
  NoLostWakeup
PROPERTIES
  FutureResolves
  SubmitAsyncReturns
