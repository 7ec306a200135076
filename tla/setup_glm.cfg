SPECIFICATION Spec
CONSTANTS
    Token = {t1, t2}
    MaxEdits = 2
    Cut = Cut
    Absent = Absent
    None = None
INVARIANTS
    TypeOK
    SuccessMeansConfigured
    NothingElseLost
    CutSettingsAreNotPassedOff
PROPERTIES
    TryingAgainSucceeds
