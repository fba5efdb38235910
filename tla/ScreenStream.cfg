SPECIFICATION FairSpec
CONSTANTS
  MaxRequests = 2
  MaxFrames = 2
  RingSize = 1
  PacketSize = 1
  Width = 3
INVARIANTS
  PicturesOwned
  ShotIsFresh
  FrameWhole
  SoundInRing
PROPERTIES
  OthersTaken
