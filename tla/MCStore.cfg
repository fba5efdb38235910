SPECIFICATION StoresSpec
CONSTANTS
  Pages <- TwoPages
  Folders <- OneFolder
  Apps <- OneApp
  None = None
  TasksFail = TRUE
  MaxRequests = 2
  p1 = p1
  p2 = p2
  f1 = f1
  a = a
INVARIANTS ListingsOfSelection
PROPERTIES SettlesWhenSteady ListingsWhenSteady LoadingGoesWhenSteady
CHECK_DEADLOCK FALSE
