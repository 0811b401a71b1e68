--------------------------- MODULE WebhookLedger ---------------------------
(***************************************************************************)
(* What the webhook receiver promises of each event: it is decided once,   *)
(* for good, and only then acknowledged; the effects of those applied      *)
(* happen one after the other, and the history of payments is nothing but  *)
(* their effect.  Handlers, transactions, redeliveries, crashes and the    *)
(* rows of the contracts are not seen here.                                *)
(***************************************************************************)
EXTENDS Naturals, Sequences

CONSTANT EventIds

VARIABLES
    events,        \* what was reported: [kind, payment], and more that does not matter
    verdict,       \* "none", "applied", "dlq" or "ignored"
    log,           \* the events applied, in that order
    payments,      \* the status of each payment
    acked          \* the events acknowledged

ledger == <<events, verdict, log, payments, acked>>

Init ==
    /\ events = <<>>
    /\ verdict = [e \in EventIds |-> "none"]
    /\ log = <<>>
    /\ payments = [p \in EventIds |-> "none"]
    /\ acked = {}

Report ==
    /\ Len(events') = Len(events) + 1 /\ SubSeq(events', 1, Len(events)) = events
    /\ UNCHANGED <<verdict, log, payments, acked>>

Undecided(e) == e \in DOMAIN events /\ verdict[e] = "none"

\* A decision may be answered at once, or the answer is lost.
MayAnswer(e) == acked' \in {acked, acked \cup {e}}

Apply(e) ==
    /\ Undecided(e)
    /\ verdict' = [verdict EXCEPT ![e] = "applied"]
    /\ log' = Append(log, e)
    /\ payments' = IF events[e].kind \in {"succeeded", "failed"}
                   THEN [payments EXCEPT ![events[e].payment] = events[e].kind] ELSE payments
    /\ MayAnswer(e)
    /\ UNCHANGED events

SetAside(e) ==
    /\ Undecided(e)
    /\ verdict' = [verdict EXCEPT ![e] = IF events[e].kind = "cancelled" THEN "ignored" ELSE "dlq"]
    /\ MayAnswer(e)
    /\ UNCHANGED <<events, log, payments>>

Acknowledge(e) ==
    /\ verdict[e] # "none"
    /\ MayAnswer(e)
    /\ UNCHANGED <<events, verdict, log, payments>>

Next == Report \/ \E e \in EventIds : Apply(e) \/ SetAside(e) \/ Acknowledge(e)

Spec == Init /\ [][Next]_ledger
=============================================================================
