\* Every operation, three at once but for plan changes, and a key that is used again; no fault.
\* Requests run out: the system stops when the last one is done.
CONSTANTS
    u1 = u1
    u2 = u2
    planA = planA
    planB = planB
    key1 = key1
    key2 = key2
    Users = {u1}
    Requests = {r1, r2, r3, r4}
    PaidPlans = {planA, planB}
    Free = free
    Keys = {key1}
    ClientRequests <- KeyUsedAgain
    MaxInFlight = 3
    PeriodLength = 1
    MaxNow = 3
    UndatedReplies = TRUE
    Faults = {}
    None = None
SPECIFICATION Spec
SYMMETRY Symmetric
CONSTRAINT KeyedPlansStay
INVARIANTS AtMostOneCharged BillingAgrees CancelledNotCharged
PROPERTIES CancelledIsFinal
CHECK_DEADLOCK FALSE
