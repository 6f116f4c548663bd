SPECIFICATION Spec
CONSTANTS
  Descs = {1, 2}
  Ends = {1}
  Rests = {"a"}
  DayLength = 2
  NewTasks <- MCPlain
  Commands <- MCAll
  Views = {"all", "undone", "done", "overdue", "today"}
  UNDO_LIMIT = 1
  MaxTasks = 2
  MaxPicks = 1
  MaxTimes = 1
  StartTime = 1
  MaxNow = 3
INVARIANTS
  TypeOK
  HistoryFlags
  DisplayMatches
  SavedWhenIdle
PROPERTIES
  UrgencyOrder
  HighlightsTheTask
