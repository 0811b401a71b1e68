\* Clients that name an intention by one key and retry it, overlapping, with errors and lost replies.
\* Requests run out: the system stops when the last one is done.
CONSTANTS
    u1 = u1
    u2 = u2
    planA = planA
    planB = planB
    key1 = key1
    key2 = key2
    Users = {u1}
    Requests = {r1, r2, r3, r4}
    PaidPlans = {planA, planB}
    Free = free
    Keys = {key1, key2}
    ClientRequests <- Keyed
    MaxInFlight = 4
    PeriodLength = 1
    MaxNow = 1
    UndatedReplies = TRUE
    Faults = {"fail", "lost"}
    None = None
SPECIFICATION Spec
SYMMETRY Symmetric
INVARIANTS AtMostOneCharged
PROPERTIES SuccessSettlesBilling
CHECK_DEADLOCK FALSE
