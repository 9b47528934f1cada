CONSTANTS
    p1 = p1
    p2 = p2
    Process = {p1, p2}
    Receipt = {1}
    Bundles <- MCBundles
    Limit = 3
    Synced = TRUE
SYMMETRY Symmetry
SPECIFICATION Spec
INVARIANTS
    TypeOK
    Decodable
    FiledRightAfterReceipt
    DecisionsSound
    ErrorsTell
PROPERTY
    ImplementsCaseLog
