SPECIFICATION Spec
CONSTANTS
    sys = sys
    ed = ed
    r1 = r1
    r2 = r2
    Users = {sys, ed}
    SystemUser = sys
    Requests = {r1, r2}
    NoToken = NoToken
    Keep = Keep
    Lifetime = 2
    ReauthWindow = 0
    MaxTime = 2
    MaxServed = 3
SYMMETRY Symmetry
INVARIANTS RevocationIsFinal RevokedCookieReachesOnlyFavorites AnsweredSessionsWork SuspendedSessionsStayDead
PROPERTIES SuspensionOutlastsLogins
CHECK_DEADLOCK FALSE
