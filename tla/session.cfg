SPECIFICATION SessionSpec
CONSTANTS
  Pcs <- MCPcs
  PcLimit = 3
  Cells <- MCCells
  RegCells = {4}
  Bytes <- MCBytes
  Flash <- MCFlash
  BreakAddrs = {1}
  MemAddrs = {4}
  GdbPcs = {2}
  GdbBytes = {1}
  Exec <- MCExec
  InsnLimit = 5
  Tracing = FALSE
  MaxResumes = 3
  Commands = {"g", "G", "m", "M", "Z0", "z0", "q", "u", "s", "bs", "c"}
  Oddities = {"damaged", "unsummed"}
  MaxItems = 3
  PKT_BUF_MAX = 11
INVARIANTS SequentialTranscript StopsOnWire AnsweredInOrder
PROPERTY SessionAnswered
