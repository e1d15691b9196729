SPECIFICATION Spec
CONSTANTS
  Width = 2
  Mark <- TinyMark
  Messages <- TinyMessages
  MaxFrames = 3
  MaxGap = 5
INVARIANTS LinkInv Resynchronised
PROPERTY Promise
CHECK_DEADLOCK FALSE
