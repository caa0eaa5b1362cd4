SPECIFICATION Spec
CONSTANTS
  s1 = s1
  s2 = s2
  Sessions <- MCBoth
  Recorders <- MCBoth
  Rerunners <- MCNobody
  Listers <- MCNobody
  Erasers <- MCNobody
  Size = 2
  Lengths = {2}
  MaxCommands = 3
  MaxBytes = 14
  MayDie = FALSE
  KeepsInput = FALSE
  NoSession = NoSession
  NoPage = NoPage
INVARIANT UniqueNumbers
