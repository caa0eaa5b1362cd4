SPECIFICATION Spec
CONSTANTS
  InitSize = 3
  Lengths = {1, 3}
  Sizes = {2, 4}
  EraseRanges <- MCAnyRange
  MaxCommands = 5
  MaxBytes = 20
  Pieces = {3}
  MayDie = TRUE
  SafeAdjust = TRUE
INVARIANTS SlotsTile FreeListOrdered ErasedTextGone
PROPERTIES ImplementsLog
