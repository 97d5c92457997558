SPECIFICATION GoSpec
CONSTANTS
  LogMonitors = 1
  OtherMonitors = 2
  ContextMonitors = {3}
  Interval = 3
  MaxAlerts = 2
INVARIANTS NoFalseAlarm GoOnSchedule
PROPERTIES SignalEnds AllMonitored
