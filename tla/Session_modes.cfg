SPECIFICATION Spec
CONSTANTS
  StackSize = 2
  Streams = {f1, f2, f3}
  StdIn = StdIn
  Starts <- MCAll
  NoFlag = NoFlag
  MaxFiles = 2
  MaxAdjusts = 4
  ReloadInterrupts = FALSE
INVARIANTS ReadsItsContext StreamsClosedOnce FileModesApply ErrorObeysContinue
PROPERTIES ImplementsScopes
SYMMETRY MCSymmetry
