SPECIFICATION Spec
CONSTANTS
  StackDepth = 10
  Environments <- MCEnvironments
  CommandLines <- MCCommandLines
  Commands <- MCCommands
  MaxCommands = 2
  Files <- MCFiles
INVARIANTS LoadAsAsked PrintedBack StreamsOwned NothingIgnored
