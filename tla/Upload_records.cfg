SPECIFICATION Spec
CONSTANTS
  CommandLines <- MCCommandLines
  Databases <- MCDatabases
  Inputs <- MCInputs
  RowsPerTx = 3
  HeuristicMemory = 2
INVARIANTS RecordsAccounted CommittedAsReported GuessCounts
