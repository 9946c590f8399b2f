SPECIFICATION Spec
CONSTANTS
    Topic = {t1, t2, t3, t4}
    Node = {n1, n2, n3, n4}
    MaxTopicId = 3
    Ranges = {}
    PredefinedIds = {}
SYMMETRY NodeSymmetry
INVARIANTS TopicIndexSound
