CONSTANTS
  Handles = {h1, h2}
  Objects = {o1, o2}
  Hashes = {c1}
  Threads = {t1}
  NoObject = NoObject
  NoHandle = NoHandle
SPECIFICATION Spec
PROPERTY InstanceOwnsItsState
