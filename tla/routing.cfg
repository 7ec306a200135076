SPECIFICATION Spec
CONSTANTS
    r1 = r1
    r2 = r2
    Urls <- TwoRelayers
    Call = {h1, h2}
    TTL = 2
    Reports <- OneOfThemBusy
    None = None
SYMMETRY Symmetry
INVARIANTS
    TypeOK
PROPERTIES
    LongIllNotSelected
    LongWellNotIgnored
    LastingLoadIsRespected
