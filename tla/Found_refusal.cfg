SPECIFICATION Spec
CONSTANTS
  Texts = {"add x", "add"}
  Bad = {"add"}
  Fatal = {}
  Threads = {1}
PROPERTY
  RefusalExplained
