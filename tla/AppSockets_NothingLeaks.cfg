SPECIFICATION SocketsSpec
CONSTANTS
  SocketMax = 2
  Descriptors = {0, 1, 2}
  AppMain = main
  Callers = {main, helper}
  LoopTask = loop
INVARIANTS NothingLeaks
