CONSTANTS
  Carts = {celeste, jelpi}
  Slots = 2
  Width = 2
  Bytes = {0, 1}
  MaxWrites = 2
  MaxRun = 2
SYMMETRY AnyCart
SPECIFICATION Spec
INVARIANTS
  OwnData
  SavedInPart
  WrittenThrough
