SPECIFICATION MCSpec
CONSTANTS
  TASKS_PER_PAGE = 2
  MaxTasks = 4
  Fonts = {"Print Clearly", "Arial"}
  IconSets = {"nyansuke", "shibe"}
  Themes = {"default", "doge"}
  DefaultFont = "Print Clearly"
  DefaultIcons = "nyansuke"
  DefaultTheme = "default"
INVARIANTS
  TypesOK
  RowsMatch
  OneIsLit
  LooksAsStored
PROPERTIES
  KeyLights
  SectionKeys
