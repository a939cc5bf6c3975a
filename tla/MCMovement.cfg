SPECIFICATION MCSpec
CONSTANTS
  a = a  b = b
  Observer = {a}
  Quantum <- Modern
  RelativeRange = 1
  QueueCapacity = 2
  Bottom <- BelowZero
  MinY = 0  SpawnY = 1  Top = 2
  FallSpeed = 1
  MaxFall = 1
  MinDelta = 1
  Crouches = TRUE
  MaxInFlight = 1
  sign = sign  reset = reset  white = white  red = red  bold = bold  italic = italic  letter = letter
  d1 = d1  d2 = d2  d3 = d3  d4 = d4  Auto = Auto  Filler = Filler  Empty = Empty  Paper = Paper
INVARIANTS PresentHoldBase PoseIsShown
INVARIANTS PacketsAreUnderstood TextsAreShown OffersAreKept ChunksAreShown WorldIsLoaded
PROPERTY FallersReturn
CHECK_DEADLOCK FALSE
