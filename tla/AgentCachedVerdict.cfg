SPECIFICATION Spec

CONSTANTS
    p1 = p1
    p2 = p2
    plain = plain
    rule_hit = rule_hit
    Path = {p1, p2}
    Named <- MCUtf8
    Digest = {plain, rule_hit}
    YaraHits = {rule_hit}
    Refused = {rule_hit}
    Class = {"benign", "malicious"}
    Malicious = "malicious"
    NoVerdict = "none"
    Nothing = Nothing
    Capacity = 1
    NoticeSize = 1
    ChannelSize = 1
    UploadAttempts = 2
    PollAttempts = 2
    MaxFaults = 2
    MaxOthers = 1
    MaxQueue = 2

CHECK_DEADLOCK FALSE

INVARIANT
    CachedVerdictOfDigest
