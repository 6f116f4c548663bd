SPECIFICATION MCSpec
CONSTANTS
  Names = {"a", "b"}
  Times <- MCTimes
  TicksPerSecond = 2
  IntMax = 3
  MaxTasks = 2
  MaxTime = 3
  MaxEvents = 3
  Notice = 1
  TimerMax = 1
PROPERTY
  LoadsTheContents
