SPECIFICATION Spec
CONSTANTS
    Tx = {t1}
    Signer = {s1}
    MaxSubmit = 1
    MaxNonce = 1
    MaxTime = 1
    MaxValue = 5
    Precision = 2
INVARIANTS
    ValuesArrive
CHECK_DEADLOCK FALSE
