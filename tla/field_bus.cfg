SPECIFICATION BusFairSpec
CONSTANTS
  Outputs = {off, on}
  NoOutput = off
  METER_PERIOD = 2
  METER_TRIES = 2
INVARIANTS BusTypeOK LineSwitchedByReading
PROPERTIES LineGivenBack SensorsHeard BoardFollows
