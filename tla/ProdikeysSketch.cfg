SPECIFICATION Spec
CONSTANTS
    MaxTranspose = 25
    OctaveStep = 12
    MaxChannel = 15
    MaxPatch = 1
    Inputs <- MCInputs
    Extras <- MCExtras
INVARIANTS
    SettingsInRange
    
    BendLegal
PROPERTIES
    OneSettingAtATime
