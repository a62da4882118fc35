CONSTANTS
  MaxSubmits = 2
  Boxes = {b1, b2}
  NoBox = NoBox
SPECIFICATION FairSpec
INVARIANTS
  TypeOK
  OneEval
  NoAccessDuringEval
  BoxAlive
  NoUseAfterRelease
  PublishedIsLatest
  AnswersTrue
PROPERTIES
  RefinesSlot
  CallsEnd
  SlotFreed
  CallbackDelivered
