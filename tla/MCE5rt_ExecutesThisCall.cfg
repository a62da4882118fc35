CONSTANTS
  Runners = {r1}
  Buffers = {b1, b2}
  States = {s1}
  Names = {n1}
  Addrs = {a1, a2}
  Boxes = {x1, x2}
  Nil = Nil
  MaxBuilds = 2
  MaxCalls = 4
SPECIFICATION E5Spec
INVARIANT ExecutesThisCall
CHECK_DEADLOCK FALSE
