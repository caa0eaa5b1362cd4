SPECIFICATION FairSpec
CONSTANTS
  s1 = s1
  s2 = s2
  Sessions <- MCBoth
  Recorders <- MCNobody
  Rerunners <- MCBoth
  Listers <- MCFirst
  Erasers <- MCNobody
  Size = 2
  Lengths = {2, 3}
  MaxCommands = 5
  MaxBytes = 15
  MayDie = FALSE
  KeepsInput = FALSE
  NoSession = NoSession
  NoPage = NoPage
INVARIANTS SeenAsIssued NewestInFile
PROPERTIES CounterGrows LockReleased
