CONSTANTS
  SHELL_BUFFER_SIZE = 2
  SHELL_HISTORY_SIZE = 2
  MaxCommands = 5
  Printable <- MCPrintable
SPECIFICATION ShSpec
INVARIANTS
  ShTypeOK
  BuffersInBounds
  HistoryWindowLive
