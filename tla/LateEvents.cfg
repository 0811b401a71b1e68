\* One delivery at a time, in any order, of events about contracts nobody cancels in the app.
\* Requests and events run out: the system stops when the last one is done.
CONSTANTS
    u1 = u1
    planA = planA
    Users = {u1}
    Requests = {r1, r2}
    PaidPlans = {planA}
    Free = free
    Keys = {}
    ClientRequests <- JustSubscribe
    MaxInFlight = 1
    PeriodLength = 1
    MaxNow = 2
    UndatedReplies = FALSE
    Faults = {}
    None = None
    Handlers = {h1}
    MaxEvents = 3
    OperatorStops = TRUE
SPECIFICATION RFairSpec
INVARIANTS RefusalsTruthful AccountFollowsPayments
PROPERTIES PaidTimeKept EveryEventAnswered
CHECK_DEADLOCK FALSE
