SPECIFICATION ServiceSpec
CONSTANTS
    Tx = {t1}
    MaxReceive = 2
    Relayer = {r1}
    Consumer = {c1}
    None = None
    Reported = {"pending", "failed", "confirmed"}
    Hook = {h1}
    Query = {q1}
CONSTRAINT SomethingToSay
INVARIANTS
    OutcomeIsOfTheOneTransaction
PROPERTIES
    NothingRelayedAfterAnOutcome
