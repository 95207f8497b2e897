CONSTANTS
  Overlap = TRUE
  Packets <- MCPackets
  Events <- MCKeyEvents
  MaxLeds = 0
  MaxEvents = 1
SPECIFICATION FairSpec
PROPERTY CommandsFinish
CHECK_DEADLOCK FALSE
