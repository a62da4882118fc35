CONSTANTS
  Runners = {r1}
  Buffers = {b1, b2}
  States = {s1}
  Names = {n1}
  Addrs = {a1, a2}
  Boxes = {x1}
  Nil = Nil
  MaxBuilds = 2
  MaxCalls = 4
SPECIFICATION FairE5Spec
INVARIANTS
  MissesOnlyIfFooled
  StateCountsSteps
  SenderReclaimed
  HandleIsBarrier
PROPERTY HandleEnds
CHECK_DEADLOCK FALSE
