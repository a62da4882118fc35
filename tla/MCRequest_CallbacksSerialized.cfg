CONSTANTS
  MaxSubmits = 2
  Boxes = {b1, b2}
  NoBox = NoBox
SPECIFICATION Spec
INVARIANT CallbacksSerialized
