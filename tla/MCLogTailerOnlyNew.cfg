SPECIFICATION Spec
CONSTANTS
  Agents = {"cpp"}
  MaxLines = 2
  LongLines = {}
  MaxFiles = 1
  MaxOpenFailures = 0
INVARIANT OnlyNewLines
CHECK_DEADLOCK FALSE
