SPECIFICATION ParitySpec
CONSTANTS
  Cooldowns <- MCCooldowns
  Types = {"ram_high", "web_scan", "ssh_login", "ssh_bruteforce"}
  Keys = {"k1"}
  MaxTime = 2
  MaxAlerts = 3
INVARIANT SameAnswers
CHECK_DEADLOCK FALSE
