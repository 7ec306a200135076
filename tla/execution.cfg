SPECIFICATION Spec
CONSTANTS
    Tx = {t1, t2}
    Signer = {s1}
    MaxSubmit = 2
    MaxNonce = 2
    MaxTime = 1
    MaxValue = 3
    Precision = 1
SYMMETRY Symmetry
INVARIANTS
    NeverAheadOfSigner
    SmallValuesArrive
PROPERTIES
    RejectionIsFinal
CHECK_DEADLOCK FALSE
