SPECIFICATION Spec
CONSTANTS
  Unsafe = {"", "a;b"}
  Blank = {"", " "}
  IntValues = 4096
  MaxLogLines = 2
  MaxRoomChanges = 2
  Starts <- MCStarts
  Edited <- MCEdited
  ServiceLine <- MCServiceLine
  ConfigPath = "./config.json"
  MaxEdits = 1
  MaxDeaths = 1
INVARIANTS StatusTells SameMeaning LossesExplained
CHECK_DEADLOCK FALSE
PROPERTY Recovers
