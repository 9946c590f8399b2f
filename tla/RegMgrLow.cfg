SPECIFICATION Spec
CONSTANTS
    Topic = {t1, t2, t3, t4}
    Node = {n1, n2, n3, n4}
    MaxTopicId = 3
    Ranges <- LowRanges
    PredefinedIds = {0, 1, 2, 4}
SYMMETRY NodeSymmetry
INVARIANTS IdIndexSound AnnouncedIdsStable ConsistentUntilEviction UniqueIds TypeOK
CHECK_DEADLOCK FALSE
