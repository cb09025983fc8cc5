SPECIFICATION TreeSpec
CONSTANTS
    Commitments = {c1, c2}
    Zero = Zero
    TREE_DEPTH = 3
    ROOT_WINDOW = 3
INVARIANTS
    FrontierFaithful
    KnownRootsAreRecent
CHECK_DEADLOCK FALSE
