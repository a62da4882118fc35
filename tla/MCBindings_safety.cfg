CONSTANTS
  NumIn = 1
  NumOut = 1
  Buffers = {b1, b2, b3}
  Handles = {h1, h2}
  Surfaces = {s1, s2, s3}
  Nil = Nil
  Reports <- MCReports
  Malformed = Malformed
  Sizes = {1, 7}
  Claims = {1, 3}
  RowWidth = 2
  SingleRow = 2
  SizeRange = 8
  MaxHeld = 2
SPECIFICATION BSpec
SYMMETRY BindSymmetry
INVARIANTS
  BindTypeOK
  PointersLive
  OneOwner
  EngineUndisturbed
  WritesPublished
  SurfaceHoldsTensor
  ModelOutlives
