SPECIFICATION FairSpec
CONSTANTS
    Request = {r1, r2}
    Ask <- MCAsk
    Nobody = Nobody
    Null = Null
    MaxRecords = 1
    MaxTime = 2
INVARIANT TypeOK
INVARIANT OneAtATime
INVARIANT MetricsAgree
INVARIANT LastSuccessIsLast
PROPERTY ReadingIsAnswered
PROPERTY ChangeSetIsApplied
