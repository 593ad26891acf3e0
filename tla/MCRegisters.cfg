CONSTANTS
  Last = 2
  Ops = {o1, o2, o3}
  Programs <- SomePrograms
  Long = 2
  Junk = Junk
  NoSlot = NoSlot
SYMMETRY Operands
SPECIFICATION Spec
INVARIANTS
  OwnRegister
  ValuesKept
PROPERTY
  PinnedNotTaken
