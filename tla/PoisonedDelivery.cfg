\* One delivery at a time, beside subscribe and cancel, no fault.
\* Requests and events run out: the system stops when the last one is done.
CONSTANTS
    u1 = u1
    planA = planA
    Users = {u1}
    Requests = {r1, r2, r3}
    PaidPlans = {planA}
    Free = free
    Keys = {}
    ClientRequests <- SubscribeAndCancel
    MaxInFlight = 1
    PeriodLength = 1
    MaxNow = 2
    UndatedReplies = TRUE
    Faults = {}
    None = None
    Handlers = {h1}
    MaxEvents = 2
    OperatorStops = FALSE
SPECIFICATION WSpec
SYMMETRY Symmetric
INVARIANTS NoPoisonedDelivery
CHECK_DEADLOCK FALSE
