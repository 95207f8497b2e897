CONSTANTS
  Overlap = FALSE
  Packets <- MCPackets
  Events <- MCEvents
  MaxLeds = 2
  MaxEvents = 1
SPECIFICATION FairSpec
INVARIANTS TypeOK   AckIsForThisCommand  PrintsEachByteOnce
 
