\* Three calls at once, two retries each, an outage after three failures.
\* Calls run out: the system stops when the last one is done and the clock stands.
CONSTANTS
    Calls = {c1, c2, c3}
    MaxRetries = 2
    Threshold = 3
    Recovery = 2
    MaxNow = 4
SPECIFICATION Spec
SYMMETRY Symmetric
INVARIANTS TypeOK StateIsDerived
PROPERTIES ImplementsRule
CHECK_DEADLOCK FALSE
