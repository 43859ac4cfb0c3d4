SPECIFICATION Spec
CONSTANTS
    c1 = c1
    c2 = c2
    u1 = u1
    u2 = u2
    Commits = {c1, c2}
    Uploads = {u1, u2}
    NoCard = NoCard
    NoMedia = NoMedia
    NoCommit = NoCommit
    NoOne = NoOne
    Keep = Keep
    MaxCards = 3
    MaxTries = 2
    AmbiguousPuts = TRUE
    LegacyRoutes = {}
    MaxLegacy = 0
INVARIANTS UpdateAppliedOnce SavedMeansAudited CleanSaveKeepsMedia
