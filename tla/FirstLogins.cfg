\* Overlapping first logins, no fault needed.
\* Logins run out: the system stops when the last one has ended.
CONSTANTS
    alice = alice
    bob = bob
    mailA = mailA
    mailB = mailB
    mailOld = mailOld
    Logins = {l1, l2, l3}
    Identities <- People
    OldEmails = {mailOld}
    None = None
SPECIFICATION AuthSpec
INVARIANTS ConcurrentLoginSucceeds
CHECK_DEADLOCK FALSE
