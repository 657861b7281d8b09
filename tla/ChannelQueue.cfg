\* A queue of two items, for which puts wait: one that get reads, or get and get_batch.
SPECIFICATION OneKeySpec
CONSTANTS
    k1 = k1
    k2 = k2
    t1 = t1
    t2 = t2
    t3 = t3
    t4 = t4
    t5 = t5
    i1 = i1
    i2 = i2
    i3 = i3
    i4 = i4
    Key = {k1, k2}
    Task = {t1, t2, t3, t4, t5}
    Item = {i1, i2, i3, i4}
    Weight <- MCWeight
    Target = {1, 2}
    MaxSize = 2
    BatchKey = {k2}
INVARIANTS
    NoIdleGetter
    NoIdlePutter
PROPERTIES
    ImplementsFifo
    PlainGetterServed
    BatchMaximal
CHECK_DEADLOCK FALSE
