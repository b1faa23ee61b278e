SPECIFICATION FairSpec
CONSTANTS
  CONFIRM_TIME = 3
  CNT_MOD = 5
  HighOccur = 50
  HighRecover = 30
  LowOccur = 80
  LowRecover = 0
  AvgTemps <- Temps
  Targets <- TwoTargets
  MAX_LAG = 1
INVARIANTS TypeOK HighLowExclusive
PROPERTIES AlarmConfirmed HighAlarmRaised
