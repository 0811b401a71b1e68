\* Every operation, two users, four requests, three at once, errors and lost replies, scheduled fairly.
\* Requests run out: the system stops when the last one is done.
CONSTANTS
    u1 = u1
    u2 = u2
    planA = planA
    planB = planB
    key1 = key1
    key2 = key2
    Users = {u1, u2}
    Requests = {1, 2, 3, 4}
    PaidPlans = {planA, planB}
    Free = free
    Keys = {}
    ClientRequests <- KeylessTwoUsers
    MaxInFlight = 3
    PeriodLength = 1
    MaxNow = 1
    UndatedReplies = FALSE
    Faults = {"fail", "lost"}
    None = None
SPECIFICATION FairSpec
CONSTRAINT ArriveInOrder
INVARIANTS TypeOK OneContract IndInv
PROPERTIES EveryRequestEnds
CHECK_DEADLOCK FALSE
