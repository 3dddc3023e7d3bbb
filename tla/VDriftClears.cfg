SPECIFICATION Spec
CONSTANTS
  MaxShots = 1
  MaxLife = 1
  MaxDay = 2
  LastRecordDay = 0
  Firmware <- TwoFirmwares
  FirstFirmware <- OldFirmware
  Docs <- NoDoc
  Timed = {TRUE}
  MidWrite = {}
  NONE = NONE
  TORN = TORN
  RecheckDays = 1
  GraceDays = 1
  KeepRecent = 0
  MaxPerRun = 1
  DeleteEnabled = FALSE
  DaysPerMonth = 30
  MaxFaults = 0
  FaultKinds = {}
  MaxCrashes = 0
  Events = {"flash"}
  QuietCycle = TRUE
  QuietPass = TRUE
  SettledFlush = FALSE
  PromptSync = TRUE
PROPERTIES
  DriftEndsByNewFormat
