SPECIFICATION Spec
CONSTANTS
    Hosts = {h1}
    Certs = {c1, c2}
    NoPin = NoPin
    Offered = {"insecure", "fingerprint"}
    Flows = {"reauth", "insecure"}
    ReloadAbortsReauth = TRUE
SYMMETRY Symmetry
PROPERTY ReauthKeepsTrust
