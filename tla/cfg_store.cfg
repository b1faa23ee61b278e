SPECIFICATION FairSpec
CONSTANTS
  BODIES <- OneBody
  INSTALL_TIMES <- BothTimes
  RTC_TIMES <- BothTimes
  MAX_INSTALL = 2
  MAX_FAULT = 2
CHECK_DEADLOCK FALSE
INVARIANTS TypeOK NoTornSection InstalledSurvives
PROPERTIES ImplementsMemory BootCompletes
