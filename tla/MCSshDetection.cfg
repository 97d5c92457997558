SPECIFICATION DetectionSpec
CONSTANTS
  a = a
  Addresses = {a}
  Threshold = 2
  Minutes5 = 1
  MaxTime = 6
  MaxLines = 6
  Story <- MCStory
  MaxGap = 1
  MaxAmid = 1
  MaxRotations = 1
  MaxBlind = 1
INVARIANTS CountsAreFailures SpanBounded AttacksAreReported
PROPERTIES LoginsReported BacklogsReported
CHECK_DEADLOCK FALSE
