SPECIFICATION Spec
CONSTANTS
    c1 = c1
    c2 = c2
    Commits = {c1, c2}
    Uploads = {}
    NoCard = NoCard
    NoMedia = NoMedia
    NoCommit = NoCommit
    NoOne = NoOne
    Keep = Keep
    MaxCards = 2
    MaxTries = 2
    AmbiguousPuts = TRUE
    LegacyRoutes = {"delete", "update", "insert", "reset"}
    MaxLegacy = 1
INVARIANTS WrittenAgainOnlyIfTakenBack
PROPERTIES NoEditOverwritten
