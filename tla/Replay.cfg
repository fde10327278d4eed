SPECIFICATION Spec
CONSTANTS
  Keys <- PortKeys
  FileLines <- AllLines
  MaxLines = 8
  Rom <- NoRom
  RunLengths = {2}
  PadBits = 2
  CounterMod = 8
  MaxReads = 10
INVARIANTS TypeOK FileMatchesGrammar
PROPERTIES ReportsFollowRecord
CHECK_DEADLOCK FALSE
