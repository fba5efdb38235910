SPECIFICATION FairSpec
CONSTANTS
  MaxRequests = 1
  MaxFrames = 0
  RingSize = 1
  PacketSize = 1
  Width = 3
PROPERTIES
  RequestsTaken
