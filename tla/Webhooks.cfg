\* Two deliveries at a time, beside subscribe and cancel, with crashes and lost answers.
\* Requests and events run out: the system stops when the last one is done.
CONSTANTS
    u1 = u1
    planA = planA
    Users = {u1}
    Requests = {r1, r2, r3}
    PaidPlans = {planA}
    Free = free
    Keys = {}
    ClientRequests <- SubscribeAndCancel
    MaxInFlight = 1
    PeriodLength = 1
    MaxNow = 2
    UndatedReplies = TRUE
    Faults = {"fail", "lost"}
    None = None
    Handlers = {h1, h2}
    MaxEvents = 2
    OperatorStops = TRUE
SPECIFICATION WSpec
SYMMETRY Symmetric
INVARIANTS WTypeOK WIndInv OneContract AtMostOnce NoPaymentLost
PROPERTIES ImplementsLedger
CHECK_DEADLOCK FALSE
