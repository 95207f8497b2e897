SPECIFICATION PathSpec
CONSTANTS
    Keys <- MCKeys
    Modifiers <- MCModifiers
    Notes = {60}
    Velocity = 100
    Buttons = {}
    Wheel = {}
    Replies = {}
    MaxTranspose = 2
    OctaveStep = 2
    MaxChannel = 1
    MaxPatch = 0
    WireRoom = 0
INVARIANTS
    PathTypeOK
    NoHangingNote
    OnlyOctavePressRetunes
    NoStuckKey
