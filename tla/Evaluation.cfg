SPECIFICATION Spec
CONSTANTS
  Texts <- MCTexts
  Bad <- MCBad
  Fatal <- MCFatal
  Threads = {1, 2}
INVARIANTS
  TypeOK
  OneEvaluation
  TipNeedsBox
PROPERTIES
  Answered
  Settles
