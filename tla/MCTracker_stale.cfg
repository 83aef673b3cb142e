SPECIFICATION Spec
CONSTANTS
    k1 = k1  k2 = k2
    t1 = t1  t2 = t2
    RecordKey <- MCRecordKey
    Target <- MCTarget
    Unwritable = Unwritable
    Filter <- MCFilter
    Wish <- MCWish
    Nil = Nil
    MaxTrouble = 2
INVARIANT ReadyIsTrue
