SPECIFICATION Spec
CONSTANTS
  a = a
  b = b
  none = none
  x = x
  main = main
  helper = helper
  Apps <- TwoApps
  Args <- ArgSet
  NoArg = none
  Main = main
  MaxDepth = 2
  Network <- OnlyB
  Helpers <- NoTask
  HasToggle = TRUE
  HasLaunchButton = TRUE
  Autostart = FALSE
INVARIANTS
  ImagesOwned
  LvglRests
PROPERTIES
  Navigates
  ReportedClosedIsClosed
  CloseStaysClosed
