SPECIFICATION Spec
CONSTANTS
    Magic = 170
    Packets <- MCPackets
    Text <- MCText
    Lossy = TRUE
    Nested = TRUE
INVARIANTS
    TypeOK
    Realigns
    AlignedIsExact
    OneStrayPacket
