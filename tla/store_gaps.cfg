SPECIFICATION Spec
CONSTANTS
    alice = alice
    bob = bob
    c1 = c1
    c2 = c2
    c3 = c3
    t1 = t1
    t2 = t2
    s1 = s1
    s2 = s2
    r1 = r1
    r2 = r2
    Address = {alice, bob}
    Commitment = {c1, c2}
    ZERO_BYTES32 = ZERO
    UINT64_MAX = 2
    Identity = {r1}
    NoIdentity = NoIdentity
    Token = {t1}
    SettlementId = {s1, s2}
    NoGap = NoGap
    Account = {alice, bob}
    Authority = {alice}
    SettlementPeriod = 1
    FinalizedThrough = 2
    MaxHeight = 2
    MaxTime = 2
    Adapter = "memory"
    ReusesJournal = FALSE
    Fault = {"append", "crash"}
    MaxFaults = 2
SYMMETRY SettlementSymmetry
INVARIANTS
    TypeOK
    GapPointerConsistent
    MemoryMatchesJournal
    SettlementsHonoured
    JournalLoads
PROPERTIES
    AdmissionAtomic
    GapsCloseInTime
CHECK_DEADLOCK FALSE
