SPECIFICATION Spec
CONSTANTS
    Hosts = {h1}
    Certs = {c1, c2}
    NoPin = NoPin
    Offered = {"insecure", "fingerprint"}
    Flows = {"reconfigure", "reauth", "mismatch", "insecure"}
    ReloadAbortsReauth = TRUE
SYMMETRY Symmetry
INVARIANTS
    TypeOK
    PinWasConfirmed
    MismatchIsReported
    MismatchIsWithdrawn
    InsecureIsFlagged
PROPERTIES
    OnlyConfirmedIsHeard
