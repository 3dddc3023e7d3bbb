SPECIFICATION Spec
CONSTANTS
  MaxShots = 3
  MaxLife = 1
  MaxDay = 2
  LastRecordDay = 1
  Firmware <- OneFirmware
  FirstFirmware <- NewFirmware
  Docs <- NoDoc
  Timed = {TRUE}
  MidWrite = {"header"}
  NONE = NONE
  TORN = TORN
  RecheckDays = 1
  GraceDays = 1
  KeepRecent = 1
  MaxPerRun = 2
  DeleteEnabled = TRUE
  DaysPerMonth = 30
  MaxFaults = 1
  FaultKinds = {"request", "write", "save", "rot"}
  MaxCrashes = 1
  Events = {"damage"}
  QuietCycle = TRUE
  QuietPass = TRUE
  SettledFlush = FALSE
  PromptSync = TRUE
INVARIANTS
  GoneMeansGone
  GoneIsLogged
PROPERTIES
  EraseOnlyArchived
  EraseSparesRecent
  EraseSparesCorpses
  KeepsDeleted
