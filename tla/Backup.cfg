CONSTANTS
  Retentions = {1, 2}
  Frequencies = {1, 2}
  Keep = 1
  Admins = {a1}
  MaxAge = 2
  MaxBackups = 2
  MaxChanges = 1
  MaxCrashes = 1
SPECIFICATION FairSpec
INVARIANTS
  TypeOK
  LastSuccessRemembered
  ScheduleKept
  LastArchiveKept
PROPERTIES
  DueRuns
  TriggerTaken
CHECK_DEADLOCK FALSE
