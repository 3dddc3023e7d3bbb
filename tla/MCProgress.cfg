SPECIFICATION FairSpec
CONSTANTS
  MaxShots = 1
  MaxLife = 1
  MaxDay = 1
  LastRecordDay = 1
  Firmware <- OneFirmware
  FirstFirmware <- NewFirmware
  Docs <- TwoDocs
  Timed = {TRUE, FALSE}
  MidWrite = {"header", "partial"}
  NONE = NONE
  TORN = TORN
  RecheckDays = 0
  GraceDays = 1
  KeepRecent = 0
  MaxPerRun = 1
  DeleteEnabled = FALSE
  DaysPerMonth = 30
  MaxFaults = 1
  FaultKinds = {"request", "save", "write", "read", "table"}
  MaxCrashes = 1
  Events = {"grow", "damage", "notes"}
  QuietCycle = TRUE
  QuietPass = TRUE
  SettledFlush = TRUE
  PromptSync = TRUE
PROPERTIES
  EventuallyArchived
  EventuallyNoted
  RetriesEnd
