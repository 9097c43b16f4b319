SPECIFICATION ClientSpec
CONSTANTS
    alice = alice
    bob = bob
    carol = carol
    c1 = c1
    c2 = c2
    c3 = c3
    t1 = t1
    s1 = s1
    r1 = r1
    Address = {alice}
    Commitment = {c1, c2, c3}
    ZERO_BYTES32 = ZERO
    UINT64_MAX = 3
    Identity = {r1}
    NoIdentity = NoIdentity
    Token = {t1}
    SettlementId = {s1}
    NoGap = NoGap
    Account = {carol}
    Authority = {}
    SettlementPeriod = 1
    FinalizedThrough = 3
    MaxHeight = 3
    MaxTime = 0
    Adapter = "memory"
    ReusesJournal = FALSE
    Fault = {"append", "crash"}
    MaxFaults = 2
    MAX_PAGE = 1
    PageSize = 1
    Methods = {"entries", "entryAsOf"}
    Instants = {0}
    Revocable = TRUE
SYMMETRY DataSymmetry
INVARIANTS
    ProjectionsSound
    EntriesAreOneHistory
    EntriesAreComplete
PROPERTIES
    FinalAnswersStable
    ServesARegister
CHECK_DEADLOCK FALSE
