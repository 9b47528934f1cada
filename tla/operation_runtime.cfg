CONSTANTS
    t1 = t1
    t2 = t2
    t3 = t3
    k1 = k1
    k2 = k2
    None = None
    Thread = {t1, t2, t3}
    Key = {k1, k2}
    Head = {1, 2}
    Scope = {"case", "other"}
    Effect = {"commit"}
    Kind = {"commit", "log"}
    Request <- MCRequest
    Outcome <- MCOutcome
    MaxNow = 1
SPECIFICATION FairSpec
INVARIANTS
    TypeOK
    OneRunPerKey
    RepliesAgree
    NoLostWakeup
PROPERTY
    WaitersReturn
CHECK_DEADLOCK FALSE
