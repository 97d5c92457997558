SPECIFICATION Spec
CONSTANTS
  Agents = {"cpp", "go"}
  MaxLines = 3
  LongLines = {2}
  MaxFiles = 2
  MaxOpenFailures = 1
INVARIANTS HistoryNotReplayed NoGap RepeatsExplained TornOnlyMidLine
PROPERTIES EventuallyReturned ImplementsFeed
CHECK_DEADLOCK FALSE
