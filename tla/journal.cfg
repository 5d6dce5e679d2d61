SPECIFICATION SweptSpec
CONSTANTS
  op1 = op1
  op2 = op2
  c1 = c1
  c2 = c2
  s1 = s1
  s2 = s2
  NoEntry = NoEntry
  Operations <- MCOperations
  Subjects <- MCSubjects
  Callers <- MCCallers
  Sweepers <- OneSweeper
  MaxCrashes = 2
INVARIANTS TypeOK AtMostOnceEffect WriteAhead CompletedIsTrue
PROPERTIES SettledIsFinal KeepsPromise DispatchedIsSettled
CHECK_DEADLOCK FALSE
