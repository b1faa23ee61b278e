SPECIFICATION Spec
CONSTANTS
  TARGET_TEMP_NUM = 3
  CONTROL_LEVEL_MAX = 1
  Curves <- FallingCurves
  Starts <- StartDates
  TimesOfDay <- Minutes
  LAST = 388800
INVARIANTS TargetWithinCurve
PROPERTIES TargetNeverRises DayNumAdvances
CHECK_DEADLOCK FALSE
