SPECIFICATION FairSpec
CONSTANTS
  Systems <- LinuxOnly
  MaxInstalls = 2
  MaxEvents = 1
  MaxTries = 2
INVARIANTS Gone
PROPERTIES SettingsHonored
CHECK_DEADLOCK FALSE
