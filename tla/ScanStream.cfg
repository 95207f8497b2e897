SPECIFICATION Spec
CONSTANTS
    Keys <- MCKeys
    Modifiers <- MCModifiers
    Notes <- MCNotes
    Velocity = 100
    Buttons <- MCButtons
    Wheel <- MCWheel
    Replies <- MCReplies
INVARIANTS
    TypeOK
    MidiFaithful
    CleanDecodes
    TwoBreaksHeal
    NoStuckModifier
