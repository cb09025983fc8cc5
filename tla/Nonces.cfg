SPECIFICATION NoncesFairSpec
CONSTANTS
    Workers = {w1, w2}
    None = none
    MaxAhead = 3
    MaxFailures = 2
    Failures = {"seed", "estimate", "retry", "lost", "known", "restart"}
INVARIANTS SentOnce NumbersDiffer
PROPERTIES EveryCallEnds
CHECK_DEADLOCK FALSE
