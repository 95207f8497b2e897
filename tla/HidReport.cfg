CONSTANTS
  Keys <- MCKeys
  Mods <- MCMods
  MaxPackets = 3
SPECIFICATION FairSpec
INVARIANTS TypeOK PolledChordsReal
PROPERTY HostCatchesUp
