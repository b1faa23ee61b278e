SPECIFICATION FairSpec
CONSTANTS
  TARGET_TEMP_NUM = 2
  CONTROL_LEVEL_MAX = 2
  FRE_FAN_NUM_MAX = 1
  FAN_NUM_MAX = 1
  CNT_MOD = 4
  SEC_PER_MIN = 1
  MAX_LAG = 1
  LcdInUse = FALSE
  AvgTemps <- FansTemps
  AvgHumis <- FansHumis
  Clocks <- FansClocks
  DayNums <- FansDays
  TargetCfgs <- FansTargets
  AirCfgs <- FansAirs
  HumiCfgs <- NoPad
  HeaterCfgs <- NoHeat
  LightCfgs <- NoLamp
INVARIANTS TypeOK LevelGovernsFans
PROPERTIES MinVentRuns
