SPECIFICATION MCSpec

CONSTANTS
    p1 = p1
    p2 = p2
    plain = plain
    rule_hit = rule_hit
    Path = {p1, p2}
    Named <- MCLossy
    Digest = {plain, rule_hit}
    YaraHits = {rule_hit}
    Refused = {}
    Class = {"benign", "malicious"}
    Malicious = "malicious"
    NoVerdict = "none"
    Nothing = Nothing
    Capacity = 1
    NoticeSize = 1
    ChannelSize = 1
    UploadAttempts = 2
    PollAttempts = 2
    MaxFaults = 1
    MaxOthers = 3
    MaxQueue = 0

CHECK_DEADLOCK FALSE

INVARIANTS
    TypeOK
    CacheInStep
    CacheBounded
    Accounted
    CachedVerdictSupported

PROPERTIES
    TakenForCause
