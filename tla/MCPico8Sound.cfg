CONSTANTS
  Voices = 2
  Sounds <- SomeSounds
  Song <- LoopThenOther
  Step = 2
  Pads = {0, 1}
  Tunes = {0}
  Noises <- SomeNoises
  MaxFrame = 4
  MaxCalls = 1
SPECIFICATION Spec
INVARIANT VoicesRight
