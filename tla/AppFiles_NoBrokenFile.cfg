SPECIFICATION Spec
CONSTANTS
  NData = 1
  Readable = {{}, {1}}
  Overlap = TRUE
  Crashes = FALSE
  CardFull = FALSE
INVARIANTS NoBrokenFile
