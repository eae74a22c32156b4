SPECIFICATION Spec
CONSTANTS
  Pcs <- MCPcs
  PcLimit = 8
  Cells <- MCCells
  RegCells = {16}
  Bytes <- MCBytes
  Flash <- MCFlash
  BreakAddrs = {2, 4}
  MemAddrs = {16, 8388624}
  GdbPcs = {12, 16}
  GdbBytes = {1}
  Exec <- MCExec
  InsnLimit = 6
  Tracing = TRUE
  MaxResumes = 4
PROPERTIES BreaksWhereAsked
