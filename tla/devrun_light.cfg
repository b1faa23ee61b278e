SPECIFICATION FairSpec
CONSTANTS
  TARGET_TEMP_NUM = 2
  CONTROL_LEVEL_MAX = 2
  FRE_FAN_NUM_MAX = 1
  FAN_NUM_MAX = 0
  CNT_MOD = 1
  SEC_PER_MIN = 1
  MAX_LAG = 1
  LcdInUse = TRUE
  AvgTemps <- MinTemps
  AvgHumis <- FansHumis
  Clocks <- ClimateClocks
  DayNums <- OneDay
  TargetCfgs <- TwoTargets
  AirCfgs <- ClimateAirs
  HumiCfgs <- TwoPads
  HeaterCfgs <- NoHeat
  LightCfgs <- LampSets
PROPERTIES ManualLightHeld LightKeyTakesEffect
