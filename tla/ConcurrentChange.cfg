\* Two plan changes at once, no fault.
\* Requests run out: the system stops when the last one is done.
CONSTANTS
    u1 = u1
    u2 = u2
    planA = planA
    planB = planB
    key1 = key1
    key2 = key2
    Users = {u1}
    Requests = {r1, r2, r3, r4}
    PaidPlans = {planA, planB}
    Free = free
    Keys = {}
    ClientRequests <- KeylessChange
    MaxInFlight = 2
    PeriodLength = 1
    MaxNow = 0
    UndatedReplies = FALSE
    Faults = {}
    None = None
SPECIFICATION Spec
SYMMETRY Symmetric
INVARIANTS AtMostOneCharged
CHECK_DEADLOCK FALSE
