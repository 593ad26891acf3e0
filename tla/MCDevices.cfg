CONSTANTS
  letter = letter
  shift = shift
  Caps = Caps
  High = High
  Low = Low
  Nul = Nul
  Keys <- SomeKeys
  Letters <- LetterKeys
  Shifts <- ShiftKeys
  Payloads <- SomePayloads
  Size = 2
  Timeout = 1
  MaxFrame = 5
  MaxEvents = 3
  MaxPlugs = 1
  left = left
  Buttons = {left}
  Speeds <- SomeSpeeds
  Scales <- SomeScales
  Places <- SomePlaces
  Rests <- SomeRests
  DefMax = 7
  LastFrame = 4
  Replugs = 1
SPECIFICATION DeviceSpec
INVARIANTS
  HeldCount
  InOrder
  KeysMatch
  MotionHeard
  ButtonSeen
PROPERTY
  ImplementsStream
