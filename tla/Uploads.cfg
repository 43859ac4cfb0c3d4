CONSTANTS
    Fields = {f1, f2}
    Cards = {c1, c2}
    NewCard = NewCard
    Workers = 2
    Parts = 2
    Ids = {1, 2}
    MaxEdits = 4
    MaxFiles = 2
    MaxSaves = 2
    MaxFaults = 1
    None = None
SPECIFICATION Spec
INVARIANTS
    UsableMediaIsComplete
    CardsShowWhatWasSaved
    NothingIsOrphaned
SYMMETRY Symmetry
CHECK_DEADLOCK FALSE
