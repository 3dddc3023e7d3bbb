SPECIFICATION FairSpec
CONSTANTS
  Press = {p1, p2}
  Day = 4
  Slots = {0, 1}
  RunOnStart = TRUE
  PressWait = 1
  SlotWait = 2
  NapMax = 1
  CycleMax = 2
  Shift = 2
  MaxMishaps = 1
  NONE = NONE
INVARIANTS
  TypeOK
  OneCycle
  Fresh
  SlotsHeeded
PROPERTIES
  AnswersCover
  EveryPressEnds
  VersionsCatchUp
  ShotsCatchUp
