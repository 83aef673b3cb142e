SPECIFICATION FairSpec
CONSTANTS
    Caller = {c1, c2}
    Session = {s1, s2, s3}
    NoSession = NoSession
    Change = {d1, d2}
    Nobody = Nobody
INVARIANT TypeOK
INVARIANT NoLoginWasted
INVARIANT AppliesWhatWasStaged
INVARIANT StagedNeverMissed
PROPERTY CallReturns
