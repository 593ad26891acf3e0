CONSTANTS
  Voices = 2
  Sounds <- SomeSounds
  Song <- SomeSong
  Step = 2
  Pads = {0, 1}
  Tunes <- SomeTunes
  Noises <- SomeNoises
  MaxFrame = 5
  MaxCalls = 3
SPECIFICATION Spec
INVARIANTS
  SongInTime
  OnTime
  VoicesInTime
  PressOnce
  PortKept
PROPERTY
  EffectHeard
