SPECIFICATION Spec
CONSTANTS
    alice = alice
    bob = bob
    c1 = c1
    c2 = c2
    c3 = c3
    t1 = t1
    t2 = t2
    s1 = s1
    s2 = s2
    r1 = r1
    r2 = r2
    Address = {alice}
    Commitment = {c1}
    ZERO_BYTES32 = ZERO
    UINT64_MAX = 1
    Identity = {r1, r2}
    NoIdentity = NoIdentity
    Token = {t1, t2}
    SettlementId = {s1, s2}
    NoGap = NoGap
    Account = {alice}
    Authority = {alice}
    SettlementPeriod = 1
    FinalizedThrough = 1
    MaxHeight = 1
    MaxTime = 2
    Adapter = "ethereum"
    ReusesJournal = FALSE
    Fault = {"power"}
    MaxFaults = 2
INVARIANTS
    AckedDurable
    IdentityBound
    JournalLoads
CHECK_DEADLOCK FALSE
