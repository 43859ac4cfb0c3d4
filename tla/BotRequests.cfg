CONSTANTS
    Actors = {a1, a2}
    Nonces = {n1, n2, n3}
    n1 = n1
    n2 = n2
    n3 = n3
    Wanted <- MCWanted
    Nobody = Nobody
    Unsent = Unsent
    Calls = {c1, c2}
    Skew = 1
    NonceTTL = 3
    Latency = 0
    ChallengeTTL = 1
    SessionTTL = 1
    MaxTime = 3
    ReauthTime = 1
SPECIFICATION MCSpec
SYMMETRY Symmetry
INVARIANTS
    SignedRequestActsOnce
    VerificationUsedOnce
    RevertsWereVerified
    DelegatedSessionIsOwn
CHECK_DEADLOCK FALSE
