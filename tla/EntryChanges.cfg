SPECIFICATION FairSpec
CONSTANTS
    Credentials = {k1, k2}
    Intervals = {i1, i2}
    MaxReloads = 3
    ChangesDuringSetup = FALSE
INVARIANTS
    TypeOK
    NoUpdateLost
    DataApplied
    OptionsApplied
    ButtonsMatchControls
    NoSilentDetach
PROPERTIES
    ChangesAreRead
    OneReloadPerChange
    RecoversByItself
