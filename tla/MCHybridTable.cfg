CONSTANTS
  MaxIndex = 6
  Names = {a}
  Values = {x, y}
  Nil = Nil
  MinCapacity = 2
SPECIFICATION Spec
SYMMETRY Symmetric
INVARIANTS
  OnePart
  BorderRight
PROPERTY
  ImplementsLua
