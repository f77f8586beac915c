\* A list screen of any kind: two records, three loads of which two may overlap, one save;
\* or the roles screen: three forms, two submissions, three loads, one change by another
\* administrator; or the settings screen: two keys, one value, two loads, two submissions.
SPECIFICATION MCSpec
CONSTANTS
  MaxRecords = 2
  MaxLoads = 3
  MaxSaves = 1
  MaxAtOnce = 2
  PageSizes = {1, 2}
  FirstSize = 1
  n1 = n1
  n2 = n2
  d1 = d1
  p1 = p1
  NoText = none
  k1 = k1
  k2 = k2
  RoleTexts <- MCTexts
  MaxRoleSaves = 2
  MaxRoleLoads = 3
  MaxRoleOthers = 1
  SettingKeys = {k1, k2}
  SettingValues = {v1}
  v1 = v1
  NoValue = NoValue
  BadJson = BadJson
  MaxGets = 2
  MaxPuts = 2
INVARIANTS ScreensTypeOK OwnChangesShow NeverPastTheEnd
INVARIANTS ToastMeansSaved WaitsForARequest StoredWhereItWasLoaded
PROPERTIES EditStartsFromCommitted
\* The user may leave the screen alone.
CHECK_DEADLOCK FALSE
