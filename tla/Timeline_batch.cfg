SPECIFICATION SpecT
CONSTANTS
  Descs = {1, 2}
  Ends = {0, 1}
  Rests = {"a"}
  DayLength = 2
  NewTasks <- MCTwo
  Commands <- MCNoEdit
  Views = {}
  UNDO_LIMIT = 1
  MaxTasks = 3
  MaxPicks = 2
  MaxTimes = 1
  StartTime = 1
  MaxNow = 1
PROPERTIES
  HitsThePicked
  UndoGivesBack
