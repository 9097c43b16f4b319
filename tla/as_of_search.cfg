SPECIFICATION FairSpec
CONSTANTS
    Address = {"alice"}
    Commitment = {1, 2, 3, 4, 5, 6, 7}
    ZERO_BYTES32 = 0
    UINT64_MAX = 7
    Candidate <- MCCandidate
    MaxLength = 7
    HALF_WORD = 16
INVARIANTS
    IndexesAgree
    FindsTheEntry
PROPERTIES
    Halves
    Returns
