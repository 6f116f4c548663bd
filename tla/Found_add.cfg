SPECIFICATION SpecT
CONSTANTS
  Descs = {1, 2}
  Ends = {1}
  Rests = {"a", "b"}
  DayLength = 2
  NewTasks <- MCTies
  Commands <- MCAddRemove
  Views = {}
  UNDO_LIMIT = 3
  MaxTasks = 2
  MaxPicks = 1
  MaxTimes = 1
  StartTime = 1
  MaxNow = 1
PROPERTY
  UndoAddRestores
