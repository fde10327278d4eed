CONSTANTS
  Programs <- EachProgram
  OpcodeByte = 234
  DmcBytes = {85}
  OamSize = 8
  OamHead = 2
SPECIFICATION Spec
INVARIANTS TypeOK ArithmeticExact CombinedAsTwo AccessesAtEnd FramesIntact
PROPERTIES DmaPlacesBytes ReturnsWhereItLeft
