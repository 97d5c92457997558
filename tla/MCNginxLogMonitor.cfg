SPECIFICATION Spec
CONSTANTS
  Addresses = {a, b}
  RequestsPerMinute = 3
  NotFoundPerMinute = 2
  Minute = 2
  MaxTime = 4
  MaxLines = 5
SYMMETRY Symmetry
INVARIANTS
  BurstsAreReal
  BurstsAreReported
