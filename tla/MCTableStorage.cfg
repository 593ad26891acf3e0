CONSTANTS
  MaxIndex = 3
  a = a
  zero = zero
  Names <- WordNames
  RawNames <- WordRawNames
  Values = {x}
  Nil = Nil
  NoKey = NoKey
  HashOf <- MCHashOf
  MinCapacity = 1
  MinBlock = 2
  CapacityRange = 16
SPECIFICATION Spec
INVARIANTS
  HalfFull
  Reachable
  FieldReadAgrees
PROPERTY
  ImplementsHybrid
