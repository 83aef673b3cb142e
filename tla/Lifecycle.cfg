SPECIFICATION FairSpec
CONSTANTS
    Request = {r1, r2}
INVARIANT TypeOK
INVARIANT NothingCutOff
PROPERTY EndsOnSignal
PROPERTY EndsWithListener
PROPERTY PublishesBeforeGone
