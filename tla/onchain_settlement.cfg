SPECIFICATION ClaimSpec
CONSTANTS
    registrar = registrar
    alice = alice
    c1 = c1
    c2 = c2
    c3 = c3
    t1 = t1
    s1 = s1
    s2 = s2
    Address = {alice, registrar}
    Commitment = {c1, c2, c3}
    ZERO_BYTES32 = ZERO
    ZERO_ADDRESS = NOBODY
    UINT64_MAX = 3
    Token = {t1}
    SettlementId = {s1, s2}
    NoGap = NoGap
    Account = {alice, registrar}
    Authority = {registrar}
    SettlementPeriod = 1
    MaxTime = 2
    MaxSigned = 3
    ClaimToken = t1
    RecordDate = 1
    Amount = 1
    MaxBalance = 2
SYMMETRY ContractSymmetry
INVARIANTS
    TypeOK
    RegisterSound
    EveryEntryProved
    OneEntryPerSettlement
    GapPointerConsistent
    PaidHolderOfRecord
    PaidOnce
PROPERTIES
    GapPromise
    FinalityOnlyByAdmission
    ImplementsRegister
CHECK_DEADLOCK FALSE
