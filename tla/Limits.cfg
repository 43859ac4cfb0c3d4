SPECIFICATION MCSpec
CONSTANTS
    u1 = u1
    u2 = u2
    r1 = r1
    r2 = r2
    k1 = k1
    k2 = k2
    k3 = k3
    k4 = k4
    Callers = {u1, u2}
    Slots <- MCSlots
    Chain <- MCChain
    Limit <- MCLimit
    Window <- MCWindow
    Lag = 1
    Classes = {"A"}
    CallLimit <- MCCallLimit
    MaxTime = 4
    MaxAsked = 3
    MaxPeriod = 1
    None = None
    Writers = {r1, r2}
    Keys = {k1, k2, k3, k4}
    MediaOf <- MCMediaOf
    StorageLimit = 3
    PlanLimit = 1
    Nobody = Nobody
INVARIANTS WindowsHold CallsAreCounted SavedMediaStays StorageIsCounted
 
CHECK_DEADLOCK FALSE
