SPECIFICATION Spec
CONSTANTS
  LogMonitors = 1
  OtherMonitors = 2
  Interval = 3
  MaxMessages = 2
  MaxPasses = 7
  MaxSignals = 2
INVARIANTS
  HandlerTargetAlive
  CrashOnlyWhenOver
  ExitIsDrained
  OnSchedule
PROPERTY StopHonoured
