SPECIFICATION Spec
CONSTANTS
    Tx = {t1}
    MaxReceive = 2
    Relayer = {r1}
    Consumer = {c1}
    None = None
INVARIANTS
    NoDuplicateSubmission
