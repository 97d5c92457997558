SPECIFICATION HealthSpec
CONSTANTS
  Counts = {0, 1, 3, 7, 10, 29}
  Percents = {1, 50, 90, 100}
  Width = 12
  MaxInput = 2
  Services <- MCServices
  Websites <- MCWebsites
  MaxChanges = 2
INVARIANTS RamReached DiskReached NoOutageMissed AlarmsExplained
PROPERTY CheckEnds
