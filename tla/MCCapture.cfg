SPECIFICATION Spec
CONSTANTS
  MaxShots = 2
  MaxLife = 1
  MaxDay = 2
  LastRecordDay = 0
  Firmware <- OneFirmware
  FirstFirmware <- NewFirmware
  Docs <- NoDoc
  Timed = {TRUE, FALSE}
  MidWrite = {"header", "partial"}
  NONE = NONE
  TORN = TORN
  RecheckDays = 1
  GraceDays = 1
  KeepRecent = 0
  MaxPerRun = 1
  DeleteEnabled = FALSE
  DaysPerMonth = 30
  MaxFaults = 2
  FaultKinds = {"request", "write"}
  MaxCrashes = 0
  Events = {"grow", "damage", "remove", "drop"}
  QuietCycle = TRUE
  QuietPass = TRUE
  SettledFlush = FALSE
  PromptSync = TRUE
INVARIANTS
  TypeOK
  VerifiedEvidence
  SamplesMatchRaw
PROPERTIES
  HealthyRawImmutable
  SyncIsComplete
