SPECIFICATION Spec
CONSTANTS
    Tx = {t1}
    MaxReceive = 2
    Relayer = {r1}
    None = None
    Reported = {"pending", "mined", "confirmed"}
    Hook = {h1}
    Query = {q1}
INVARIANTS
    TypeOK
    LateAnswersAreTerminal
    OutcomesAreReal
    ConfirmedHasItsReceipt
PROPERTIES
    KeepsToTheRow
