SPECIFICATION FairSpec
CONSTANTS
    known = known
    unknown = unknown
    QuarantineId = {known, unknown}
    Record = {known}
    Scan = {s1}
    Actor = {a1, a2}
    Nobody = Nobody
    Request = {r1, r2, r3}
    PoolSize = 2
INVARIANTS TypeOK Audited AnswersTrue OneWinner
PROPERTIES NothingUndone CallsAreAtomic EveryCallAnswered
CHECK_DEADLOCK FALSE
