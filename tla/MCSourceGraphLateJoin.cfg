CONSTANTS
    r1 = r1
    r2 = r2
    r3 = r3
    s1 = s1
    s2 = s2
    s3 = s3
    Request = {r1, r2, r3}
    OtherBuild = {s1, s2, s3}
    None = None
    Artifact <- MCArtifact
    Timeout <- MCTimeout
    Call <- MCCall
    Workload <- MCWorkload
    Explicit = {r1}
    Reusable <- MCReusable
    Eligible <- MCEligible
    Covers <- MCCovers
    CacheBytes <- MCCacheBytes
    MaxCacheEntries = 2
    MaxCacheBytes = 2
    MaxHandoffs = 1
    MaxHandoffBytes = 1
    DiskEnabled = TRUE
    ScanKey = {"k1", "k2"}
    ScanPlan <- MCScanPlan
    ScanBytes <- MCScanBytes
    MaxScanEntries = 1
    MaxScanBytes = 2
SPECIFICATION MCSpec
CHECK_DEADLOCK FALSE
INVARIANT
    OnlyCancelledCallsCancel
