CONSTANTS
  Names = {a, b}
  MaxLength = 8
  Extras = {"named"}
SPECIFICATION Spec
SYMMETRY Symmetry
INVARIANT CapturesBoxes
CHECK_DEADLOCK FALSE
