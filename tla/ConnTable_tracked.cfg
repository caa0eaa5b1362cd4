SPECIFICATION Spec
CONSTANTS
  Names = {c1, c2, c3, c4}
  NoName = NoName
  NoConn = NoConn
  Usages <- MCTracked
INVARIANTS TracksConnections CurrencyShown ModeOfCurrent
