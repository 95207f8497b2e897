SPECIFICATION Spec
CONSTANTS
    Magic = 170
    Packets <- ManyPackets
    Text <- MCText
    Lossy = FALSE
    Nested = FALSE
PROPERTIES
    ImplementsChannel
