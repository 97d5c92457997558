SPECIFICATION Spec
CONSTANTS
  Addresses = {a}
  Threshold = 2
  Minutes5 = 2
  MaxTime = 5
  MaxLines = 4
INVARIANT ThresholdReported
