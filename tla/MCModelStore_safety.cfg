CONSTANTS
  Handles = {h1, h2, h3}
  Objects = {o1, o2}
  Hashes = {c1}
  Threads = {t1, t2}
  NoObject = NoObject
  NoHandle = NoHandle
SPECIFICATION Spec
SYMMETRY StoreSymmetry
INVARIANTS
  TypeOK
  RetainsBalanced
  SomebodyUnloads
  LoadedIsTrue
  TempDirRemoved
  CompileMissesOnlyIfSwept
