CONSTANTS
  Names = {a, b}
  MaxLength = 8
  Extras = {}
SPECIFICATION Spec
SYMMETRY Symmetry
INVARIANTS
  UsesDenote
  CapturesBoxes
  SlotsCounted
CHECK_DEADLOCK FALSE
