SPECIFICATION CacheFairSpec
CONSTANTS
  Blocks = {b1, b2, b3, b4}
  Null = Null
  Junk = Junk
  CacheSize = 3
  MaxSignals = 2
  SignalInCache = FALSE
INVARIANTS NoDoubleFree SurvivesJump
PROPERTIES CacheEmptied
