CONSTANTS
    t1 = t1
    t2 = t2
    strict = strict
    lenient = lenient
    None = None
    Thread = {t1, t2}
    Provider = {1, 2}
    Capability = {strict, lenient}
    Certified <- MCCertified
    MaxConcurrency <- MCMaxConcurrency
    Threshold <- MCThreshold
    OperatorSets = {"UNHEALTHY"}
SPECIFICATION FairSpec
INVARIANTS
    TypeOK
    PermitsConserved
    BreakerBound
    AuditTells
PROPERTY
    RunsEnd
