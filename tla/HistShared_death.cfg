SPECIFICATION Spec
CONSTANTS
  s1 = s1
  s2 = s2
  Sessions <- MCBoth
  Recorders <- MCFirst
  Rerunners <- MCFirst
  Listers <- MCBoth
  Erasers <- MCFirst
  Size = 3
  Lengths = {2}
  MaxCommands = 4
  MaxBytes = 14
  MayDie = TRUE
  KeepsInput = TRUE
  NoSession = NoSession
  NoPage = NoPage
INVARIANTS UniqueNumbers SurvivorsInFile
