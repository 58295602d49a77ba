SPECIFICATION Spec
CONSTANTS
    Hosts = {h1}
    Certs = {c1, c2}
    NoPin = NoPin
    Offered = {"insecure", "fingerprint"}
    Flows = {"reconfigure", "insecure"}
    ReloadAbortsReauth = TRUE
SYMMETRY Symmetry
PROPERTY ReplacementShowsBoth
