SPECIFICATION FairSpec
CONSTANTS
  MaxShots = 3
  MaxLife = 1
  MaxDay = 1
  LastRecordDay = 0
  Firmware <- TwoFirmwares
  FirstFirmware <- OldFirmware
  Docs <- NoDoc
  Timed = {TRUE}
  MidWrite = {}
  NONE = NONE
  TORN = TORN
  RecheckDays = 0
  GraceDays = 1
  KeepRecent = 1
  MaxPerRun = 1
  DeleteEnabled = TRUE
  DaysPerMonth = 30
  MaxFaults = 1
  FaultKinds = {"request", "read", "table"}
  MaxCrashes = 0
  Events = {"flash"}
  QuietCycle = TRUE
  QuietPass = TRUE
  SettledFlush = FALSE
  PromptSync = TRUE
INVARIANTS
  DeletionCapped
PROPERTIES
  EventuallyErased
  DriftPauseEnds
