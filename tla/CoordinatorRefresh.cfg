SPECIFICATION FairSpec
CONSTANTS
    Slots = {1, 2}
    Listings <- MCListings
INVARIANTS
    TypeOK
    GatewayIsShown
    OutcomeFollowsReads
    UnknownWhenDenied
PROPERTIES
    RejectionIsNoticed
    RefreshIsAtomic
