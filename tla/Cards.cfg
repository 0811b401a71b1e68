\* Two logins and three requests about cards, every fault at every point.
\* The requests are served once, and the system stops when they have ended.
CONSTANTS
    alice = alice
    bob = bob
    mailA = mailA
    mailB = mailB
    Logins = {l1, l2}
    Identities <- People
    OldEmails = {}
    None = None
    Requests = {q1, q2, q3}
    Tokens = {t1, t2}
SPECIFICATION CardSpec
SYMMETRY Interchangeable
INVARIANTS CardTypeOK OnePersonOneCustomer NoPoison CardsAgree DeletedNotPaying DefaultCard
CHECK_DEADLOCK FALSE
