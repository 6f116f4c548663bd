SPECIFICATION Spec
CONSTANTS
  Tabs = 3
  Pages <- MCPages
INVARIANTS
  TypeOK
  OnePage
PROPERTIES
  NoReentrance
  FirstRunShowsTutorial
  Arrives
