SPECIFICATION Spec
CONSTANTS
  Files <- MCFiles
  Databases <- MCDatabases
  Sizes <- MCSizes
  MaxRuns = 2
  UserWorks = TRUE
INVARIANTS RowsInOrder LoadedMeansAll ReportsTrue AcceptedRowsKept
