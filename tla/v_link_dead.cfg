SPECIFICATION FairSpec
CONSTANTS
  ALARM_TYPE_MAX = 1
  EnabledTypes <- NoTypes
  Sections <- NoSections
  FAIL_MOD = 5
  TRIES = 3
  MAX_FAIL = 3
  MAX_VER = 0
  MAX_REPLIES = 1
  Prompt = TRUE
PROPERTIES LinkRecovers
