----------------------------- MODULE MCRefusals -----------------------------
(***************************************************************************)
(* WebhookHandler with a history variable, which changes no behaviour: the *)
(* contracts a request could have been refused for when it arrived.        *)
(***************************************************************************)
EXTENDS MCWebhookHandler

VARIABLE usable    \* the rows of its user that were usable when a request under way arrived

RInit == WInit /\ usable = [r \in Requests |-> {}]

Arrives(r) == pc[r] = "unsent" /\ pc'[r] # "unsent"

UsableNow(r) == {i \in RowsOf(req'[r].user, rows) : Usable(rows[i], now)}

RNext ==
    /\ WNext
    /\ usable' = [r \in Requests |-> IF pc'[r] = "done" THEN {}
                                     ELSE IF Arrives(r) THEN UsableNow(r) ELSE usable[r]]

RSpec == RInit /\ [][RNext]_<<allVars, usable>>

RFairSpec == RSpec /\ WFairness

\* The rows whose index entry makes the INSERT of request r a 409.
Blocking(r) == {i \in RowsOf(req[r].user, View(r)) : View(r)[i].status \in IndexedStatuses}

\* A subscribe is refused only for a contract its user could use when the request arrived.  One
\* that had ended by then neither blocks it nor comes back while it is served: the request
\* finalizes it, also when late events have made it unpaid and the period ends between two reads
\* of the clock.
RefusalsTruthful ==
    \A r \in Requests :
        pc[r] = "insert" /\ ~IndexBusy(req[r].user, r) => Blocking(r) \subseteq usable[r]
=============================================================================
