SPECIFICATION SpecStraight
CONSTANTS
  Descs = {1, 2}
  Ends = {0, 1}
  Rests = {"a"}
  DayLength = 2
  NewTasks <- MCTwo
  Commands <- MCAll
  Views = {}
  UNDO_LIMIT = 2
  MaxTasks = 2
  MaxPicks = 2
  MaxTimes = 2
  StartTime = 1
  MaxNow = 1
INVARIANT
  HistoryBound
PROPERTY
  ImplementsTimeline
