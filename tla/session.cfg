SPECIFICATION FairSpec
CONSTANTS
  Shadows = {s1}
  MaxFrames = 3
  MaxAnswers = 2
  Window = 1
  QueueCap = 1
INVARIANTS TypeOK LanesReleased LanesFlush
PROPERTIES ImplementsRelay ShadowNeverThrottles SessionEnds
