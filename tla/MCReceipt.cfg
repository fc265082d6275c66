SPECIFICATION Spec
CONSTANTS
  Sections <- MCSections
  MaxSections = 2
  Pages <- MCPages
  MaxOutput = 4194304
INVARIANTS
  ContentSurvives
  PreviewFits
  DrawnWhole
CHECK_DEADLOCK FALSE
