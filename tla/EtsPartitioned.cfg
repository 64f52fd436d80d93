\* Two clients that never touch the same bucket.
SPECIFICATION Spec
CONSTANTS
    k1 = k1
    k2 = k2
    k3 = k3
    c1 = c1
    c2 = c2
    Client = {c1, c2}
    KeysOf <- OwnKeys
    Key = {k1, k2, k3}
    Bucket = {0, 1}
    BucketOf <- OwnBucket
    Value = {0}
    Entry = {e1, e2, e3}
    Null = Null
    IntBits = 2
    CountBits = 2
    Ops = {"insert", "delete", "counter"}
SYMMETRY Symmetry
INVARIANTS TypeOK ContentsRight CountRight NoFreedEntryLinked
