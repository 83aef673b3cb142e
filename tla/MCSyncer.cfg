SPECIFICATION FairSpec
CONSTANTS
    o1 = o1  o2 = o2
    Object <- MCObject
    Record <- MCRecord
    Absent = Absent
    Snapshot <- MCSnapshot
    NoTime = NoTime
    Limit = {1, 2}
    MaxTime = 1
    MaxTrouble = 3
INVARIANT TypeOK
INVARIANT NoSnapshotForgotten
PROPERTY SinceKept
PROPERTY OthersKept
PROPERTY MirrorCatchesUp
