\* A get beside a get_batch.
SPECIFICATION OneKeySpec
CONSTANTS
    k1 = k1
    k2 = k2
    t1 = t1
    t2 = t2
    t3 = t3
    t4 = t4
    t5 = t5
    i1 = i1
    i2 = i2
    i3 = i3
    i4 = i4
    Key = {k1}
    Task = {t1, t2, t3}
    Item = {i1, i2}
    Weight <- MCWeight
    Target = {1}
    MaxSize = 0
    BatchKey = {k1}
PROPERTIES
    GetterServed
CHECK_DEADLOCK FALSE
