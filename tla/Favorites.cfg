CONSTANTS
    Cards = {k1, k2}
    Initial = {k1}
    NoCard = NoCard
    Tabs = {t1, t2}
    Jobs = {j1, j2}
    MaxActs = 2
    MaxChanges = 1
    MaxFaults = 1
SPECIFICATION FavoritesSpec
PROPERTIES
    ListingsDropDeletedOnly
    TabsSettle
