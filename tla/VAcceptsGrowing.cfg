SPECIFICATION Spec
CONSTANTS
  MaxShots = 1
  MaxLife = 1
  MaxDay = 1
  LastRecordDay = 0
  Firmware <- OneFirmware
  FirstFirmware <- NewFirmware
  Docs <- NoDoc
  Timed = {TRUE}
  MidWrite = {"header"}
  NONE = NONE
  TORN = TORN
  RecheckDays = 1
  GraceDays = 1
  KeepRecent = 0
  MaxPerRun = 1
  DeleteEnabled = FALSE
  DaysPerMonth = 30
  MaxFaults = 0
  FaultKinds = {}
  MaxCrashes = 0
  Events = {}
  QuietCycle = TRUE
  QuietPass = TRUE
  SettledFlush = FALSE
  PromptSync = TRUE
INVARIANTS
  AcceptedIsFinal
