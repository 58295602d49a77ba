SPECIFICATION FairSpec
CONSTANTS
    Wans = {w1, w2}
    Sfps = {f1}
INVARIANTS
    TypeOK
    NoEntityTwice
    OnlyDeletedAreMissing
PROPERTY EntitiesArrive
