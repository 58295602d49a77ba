SPECIFICATION Spec
CONSTANTS
    Credentials = {k1}
    Intervals = {i1, i2}
    MaxReloads = 1
    ChangesDuringSetup = TRUE
INVARIANT OptionsApplied
