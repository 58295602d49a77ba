SPECIFICATION Spec
CONSTANTS
    Wans = {w1}
    Sfps = {}
INVARIANT EntitiesFollowGateway
