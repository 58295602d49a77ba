SPECIFICATION Spec
CONSTANTS
    Wans <- MCWans
    Listed <- MCListed
    Sfps <- MCSfps
    Number <- MCNumber
    Second = 2
    MaxTime = 2
    Lasting <- MCLasting
PROPERTIES
    OddFieldNeverFails
