SPECIFICATION Spec
CONSTANTS
  MaxShots = 2
  MaxLife = 1
  MaxDay = 2
  LastRecordDay = 0
  Firmware <- OneFirmware
  FirstFirmware <- NewFirmware
  Docs <- NoDoc
  Timed = {TRUE}
  MidWrite = {}
  NONE = NONE
  TORN = TORN
  RecheckDays = 1
  GraceDays = 1
  KeepRecent = 1
  MaxPerRun = 1
  DeleteEnabled = TRUE
  DaysPerMonth = 30
  MaxFaults = 0
  FaultKinds = {}
  MaxCrashes = 0
  Events = {}
  QuietCycle = TRUE
  QuietPass = TRUE
  SettledFlush = FALSE
  PromptSync = TRUE
PROPERTIES
  ErasesEarlierRuns
