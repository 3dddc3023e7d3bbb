SPECIFICATION Spec
CONSTANTS
  MaxShots = 2
  MaxLife = 2
  MaxDay = 0
  LastRecordDay = 0
  Firmware <- OneFirmware
  FirstFirmware <- NewFirmware
  Docs <- TwoDocs
  Timed = {TRUE}
  MidWrite = {}
  NONE = NONE
  TORN = TORN
  RecheckDays = 0
  GraceDays = 0
  KeepRecent = 1
  MaxPerRun = 1
  DeleteEnabled = TRUE
  DaysPerMonth = 30
  MaxFaults = 1
  FaultKinds = {"request", "save", "read"}
  MaxCrashes = 0
  Events = {"reset", "notes"}
  QuietCycle = TRUE
  QuietPass = TRUE
  SettledFlush = FALSE
  PromptSync = TRUE
PROPERTIES
  SyncIsComplete
  KeysKeepLivesApart
  EraseOnlyWithNotes
