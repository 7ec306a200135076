SPECIFICATION FairSpec
CONSTANTS
    Tx = {t1}
    MaxReceive = 1
    Relayer = {r1}
    Consumer = {c1}
    None = None
PROPERTIES
    DeadLetterMarksFailed
