CONSTANTS
  Reads = {1, 2}
  Lines <- MCLines
  NoSignal = NoSignal
  SignalOf <- MCSignalOf
  MaxBuffer = 2
  MaxLines = 4
  Files = 2
SPECIFICATION FairSpec
INVARIANTS LinesReachTheirReads OutcomeIsHonest ReturnsClean
PROPERTIES
  SessionResolves
CHECK_DEADLOCK FALSE
