SPECIFICATION TasksSpec
CONSTANTS
  TaskMax = 1
  Handles = {1, 2}
  NoHandle = none
  Creators = {main, helper}
  FirstTask = main
INVARIANT MatchingDelete
CHECK_DEADLOCK FALSE
