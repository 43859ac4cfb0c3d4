SPECIFICATION FairSpec
CONSTANTS
    k1 = k1
    k2 = k2
    r1 = r1
    r2 = r2
    Keys = {k1, k2}
    Readers = {r1, r2}
    NoReader = NoReader
    NoKey = NoKey
    MaxMutations = 2
INVARIANTS OnlyPublishedMediaIsServed ShownMediaIsNeverRefused
PROPERTIES StaleRowsHaveTwoSources RebuiltListIsExact ListRecovers
CHECK_DEADLOCK FALSE
