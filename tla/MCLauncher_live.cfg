SPECIFICATION FairSpec
CONSTANTS
  a = a
  b = b
  none = none
  x = x
  main = main
  helper = helper
  Apps <- OneApp
  Args <- ArgSet
  NoArg = none
  Main = main
  MaxDepth = 1
  Network <- OneApp
  Helpers <- OneTask
  HasToggle = FALSE
  HasLaunchButton = FALSE
  Autostart = TRUE
INVARIANTS
  ArgOnlyByHandoff
PROPERTIES
  CloseEnds
  HandoffHappens
