SPECIFICATION HistSpec
CONSTANTS
  Pcs <- MCPcs
  PcLimit = 8
  Cells <- MCCells
  RegCells = {16}
  Bytes <- MCBytes
  Flash <- MCFlash
  BreakAddrs = {2, 4}
  MemAddrs = {16, 8388624}
  GdbPcs = {}
  GdbBytes = {}
  Exec <- MCExec
  InsnLimit = 6
  Tracing = TRUE
  MaxResumes = 4
PROPERTIES ReverseRestores
