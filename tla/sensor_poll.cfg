SPECIFICATION FairSpec
CONSTANTS
  DEV_NUM = 4
  Enabled = {0, 1, 2, 3}
  Temps = {0, 2}
  Probed = {0, 2}
  EP_METER = 1
  REP_COUNT = 2
  ERR_LIMIT = 1
  Readings <- Values
INVARIANTS TypeOK StatusTracksFailures AverageWithinReadings
PROPERTIES ExtremesBracket DeadSensorDropped
