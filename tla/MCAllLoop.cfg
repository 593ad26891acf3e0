CONSTANTS
  MaxIndex = 4
  Names = {}
  Values = {w, x, y, z}
  Nil = Nil
  MinCapacity = 2
SPECIFICATION AllSpec
INVARIANTS
  VisitedOnce
  NoneMissed
  InlineAgrees
PROPERTY
  LoopEnds
