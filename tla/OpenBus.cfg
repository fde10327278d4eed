CONSTANTS
  Programs <- OpenBusReads
  OpcodeByte = 234
  DmcBytes = {85}
  OamSize = 8
  OamHead = 2
SPECIFICATION Spec
INVARIANTS OpenBusIsHighByte
