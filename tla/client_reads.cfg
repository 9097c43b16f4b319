SPECIFICATION ClientSpec
CONSTANTS
    alice = alice
    bob = bob
    carol = carol
    c1 = c1
    c2 = c2
    c3 = c3
    t1 = t1
    s1 = s1
    r1 = r1
    Address = {alice, bob}
    Commitment = {c1, c2, c3}
    ZERO_BYTES32 = ZERO
    UINT64_MAX = 3
    Identity = {r1}
    NoIdentity = NoIdentity
    Token = {t1}
    SettlementId = {s1}
    NoGap = NoGap
    Account = {carol}
    Authority = {carol}
    SettlementPeriod = 1
    FinalizedThrough = 3
    MaxHeight = 3
    MaxTime = 1
    Adapter = "memory"
    ReusesJournal = FALSE
    Fault = {}
    MaxFaults = 0
    MAX_PAGE = 1
    PageSize = 1
    Methods = {"resolve", "isFinalAsOf", "holderAsOf", "openGapOf", "overview"}
    Instants = {1}
    Revocable = FALSE
SYMMETRY DataSymmetry
INVARIANTS
    FinalHolderStands
    GapAndHolderAgree
CHECK_DEADLOCK FALSE
