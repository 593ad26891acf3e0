CONSTANTS
  MaxIndex = 4
  a = a
  b = b
  Names <- LoopNames
  RawNames <- LoopRawNames
  Values = {x}
  Nil = Nil
  NoKey = NoKey
  HashOf <- LoopHashOf
  MinCapacity = 2
  MinBlock = 2
  CapacityRange = 16
  Start = Start
  Done = Done
  False = False
  BodyAssigns = TRUE
SPECIFICATION LoopSpec
INVARIANTS
  VisitedOnceUngrown
  NoneMissedUngrown
PROPERTY
  LoopEnds
