SPECIFICATION ManagerSpec
CONSTANTS
  Cooldowns <- MCCooldowns
  Types = {"ram_high", "disk_high", "ssh_login"}
  Keys = {"k1"}
  MaxTime = 3
  MaxAlerts = 4
  Topics = {1, 2, 3}
  Routes <- MCRoutes
  General = General
  MaxRestarts = 1
INVARIANTS SameAnswers ChatSpaced WithheldHasReason RoutedBySpecificity
CHECK_DEADLOCK FALSE
