SPECIFICATION Spec
CONSTANTS
  TARGET_TEMP_NUM = 2
  CONTROL_LEVEL_MAX = 2
  FRE_FAN_NUM_MAX = 1
  FAN_NUM_MAX = 0
  CNT_MOD = 4
  SEC_PER_MIN = 1
  MAX_LAG = 1
  LcdInUse = FALSE
  AvgTemps <- ClimateTemps
  AvgHumis <- ClimateHumis
  Clocks <- ClimateClocks
  DayNums <- OneDay
  TargetCfgs <- FansTargets
  AirCfgs <- ClimateAirs
  HumiCfgs <- ClimatePads
  HeaterCfgs <- ClimateHeats
  LightCfgs <- NoLamp
INVARIANTS HeatCoolExclusive HeaterNoChatter
