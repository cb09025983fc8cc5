SPECIFICATION FairSpec
CONSTANTS
    Markets = {m1}
    Seeded = {m1}
    Small = {}
    Kinds = {"pays", "void"}
    Tasks = {t1, t2}
    Buffer = 1
    Liquidity = 1
    MaxMoves = 1
    MaxFailures = 1
    MaxRestarts = 1
    Faults = {"readError", "batchNull", "txFail", "relayer", "late"}
INVARIANTS BufferUntouched AcknowledgedReturned
PROPERTY FinalizedSettles
CHECK_DEADLOCK FALSE
