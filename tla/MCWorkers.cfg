CONSTANTS
    c1 = c1
    c2 = c2
    c3 = c3
    r1 = r1
    r2 = r2
    r3 = r3
    q1 = q1
    q2 = q2
    q3 = q3
    t1 = t1
    p2 = p2
    p4 = p4
    RecoveryCaller = {c1, c2, c3}
    RecoveryKey = {"k1", "k2"}
    MaxFlights = 1
    RecoveryTimeout = 2
    RecoveryHorizon = 2
    SourceFile = {"f1", "f2"}
    SourceBytes <- MCSourceBytes
    MaxSourceFiles = 1
    MaxSourceBytes = 1
    NoFlight = NoFlight
    SgRequest = {r1, r2, r3}
    SgContext = {"A", "B"}
    SgOneShot = "one_shot"
    SgTTL = 1
    MaxFaults = 1
    NoRequest = NoRequest
    KdbCall = {k1, k2}
    MaxVersion = 2
    FstRequest = {q1, q2, q3}
    FstFile = {"a", "b", "c", "d"}
    MaxWorkers = 1
    MaxReplace = 1
    NoFile = NoFile
    IxFiles <- MCIxFiles
    IxReader = {t1, t2}
    IxSize <- MCIxSize
    IxResident <- MCIxResident
    IxMaxBytes = 4
    IxMaxFiles = 2
    IxMaxVersion = 2
    Publisher = {p1, p2, p3, p4}
    Reader = {d1}
    Digest = {1, 2, 3}
    Wants <- MCWants
    EntryBytes <- MCEntryBytes
    MaxEntries = 2
    MaxBytes = 2
    None = None
    Flipped = Flipped
    Truncated = Truncated
    MaxDamage = 1
SPECIFICATION WorkersSpec
CHECK_DEADLOCK FALSE
INVARIANTS
    RecoverySound
    SessionSound
    
    
    IndexSound
    DiskSound
PROPERTIES
    OnlyWantedLand
    SuccessIsIntact
    
