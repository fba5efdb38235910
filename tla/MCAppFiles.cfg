SPECIFICATION CardsSpec
CONSTANTS
  NData = 2
  Readable <- RoomForAll
  Overlap = FALSE
  Crashes = TRUE
  CardFull = TRUE
INVARIANTS
  NoBrokenFile
  AppSurvives
  AppReturns
  DownloadsRecorded
PROPERTIES
  OwnDataStays
  StartsWithData
