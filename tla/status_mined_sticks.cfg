SPECIFICATION FairSpec
CONSTANTS
    Tx = {t1}
    MaxReceive = 1
    Relayer = {r1}
    None = None
    Reported = {"pending", "mined", "confirmed"}
    Hook = {h1}
    Query = {q1}
PROPERTIES
    ConfirmationIsReadInTheEnd
