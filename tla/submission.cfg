SPECIFICATION FairSpec
CONSTANTS
    Tx = {t1}
    MaxReceive = 2
    Relayer = {r1, r2}
    Consumer = {c1}
    None = None
INVARIANTS
    TypeOK
    IInv
    RecordedSubmissionIsReal
    NoAcceptedTransactionLost
    ExactlyOnceUnlessExposed
    UnrecordedMeansUnsent
PROPERTIES
    QuietIsFinal
    KeepsCustody
    KeepsToTheRow
    AcceptedIsRelayedOrDeadLettered
