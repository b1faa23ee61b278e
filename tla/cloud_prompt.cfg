SPECIFICATION FairSpec
CONSTANTS
  ALARM_TYPE_MAX = 1
  EnabledTypes <- OneType
  Sections <- OneSection
  FAIL_MOD = 5
  TRIES = 3
  MAX_FAIL = 3
  MAX_VER = 1
  MAX_REPLIES = 2
  Prompt = TRUE
INVARIANTS ActStaIsReported
PROPERTIES AlarmReported CfgConverges
