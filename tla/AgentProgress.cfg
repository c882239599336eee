SPECIFICATION MCFairSpec

CONSTANTS
    p1 = p1
    p2 = p2
    plain = plain
    rule_hit = rule_hit
    Path = {p1, p2}
    Named <- MCUtf8
    Digest = {plain}
    YaraHits = {}
    Refused = {p2}
    Class = {"benign", "malicious"}
    Malicious = "malicious"
    NoVerdict = "none"
    Nothing = Nothing
    Capacity = 1
    NoticeSize = 1
    ChannelSize = 1
    UploadAttempts = 1
    PollAttempts = 1
    MaxFaults = 1
    MaxOthers = 1
    MaxQueue = 2

CHECK_DEADLOCK FALSE

PROPERTIES
    NoticedIsHashed
    QueueDrains
