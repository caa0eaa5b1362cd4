SPECIFICATION ReaderSpec
CONSTANT Families <- MCFamilies
CHECK_DEADLOCK FALSE
INVARIANTS StatementsRead RerunRepeats 
PROPERTY ReadEnds
