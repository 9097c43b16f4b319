SPECIFICATION ProfileSpec
CONSTANTS
    f1 = f1
    f2 = f2
    t1 = t1
    t2 = t2
    h1 = h1
    h2 = h2
    s1 = s1
    s2 = s2
    c1 = c1
    c2 = c2
    landreg = landreg
    impostor = impostor
    Refresh = {f1, f2}
    Token = {t1}
    Hash = {h1, h2}
    Root <- PublishedRoots
    Unknown = Unknown
    MaxHeight = 2
    Profile = {"merkle", "zk", "attestation"}
    Candidate = {c1}
    SettlementId = {s1, s2}
    NoGap = NoGap
    Published <- MCPublished
    Path <- MCPath
    Issuer = {landreg}
    Signer = {landreg, impostor}
    MAX_ATTESTATION_WINDOW = 1
    MaxTime = 2
    MaxEvidence = 1
SYMMETRY ProfileSymmetry
INVARIANTS
    OneRootPerHeight
    AdmittedAsVouched
    OwnPathVerifies
PROPERTIES
    FrontierNeverRewinds
    EvidenceAdvances
