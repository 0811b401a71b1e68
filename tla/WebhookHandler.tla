--------------------------- MODULE WebhookHandler ---------------------------
(***************************************************************************)
(* The webhook receiver of app/services/fincode/webhook_handler.py, beside *)
(* the subscription API whose table it writes.  fincode charges the        *)
(* contracts that are live and reports every charge and every stop as an   *)
(* event, which it delivers again until it is answered with a 2xx.         *)
(*                                                                         *)
(* A delivery is one database transaction in two steps: Begin inserts the  *)
(* event into webhook_events_seen and loads the row of the contract;       *)
(* Finish writes the result and the row, commits and answers.  Bodies that *)
(* fail the signature or do not parse change nothing and are left out.     *)
(***************************************************************************)
EXTENDS SubscriptionManager, Sequences

CONSTANTS
    Handlers,        \* deliveries served at the same time
    MaxEvents,       \* how many events fincode emits, at most
    OperatorStops    \* whether a contract may be stopped from fincode's own console

EventIds == 1..MaxEvents

\* The types handle tells apart: payment.succeeded and payment.failed, with or without
\* "subscription." before, both spellings of subscription.cancelled, and any other one,
\* which here stands for a payment event without its ids, too.
EventKinds == {"succeeded", "failed", "cancelled", "other"}

\* A payment is named by the event that first reported it.
EventType ==
    [kind : EventKinds, contract : ContractIds \cup {None}, payment : EventIds \cup {None},
     end : OptTime]

JobType == [event : EventIds, id : Requests, row : RowType, at : Nat]

ASSUME WebhookAssumption ==
    /\ MaxEvents \in Nat /\ OperatorStops \in BOOLEAN
    /\ None \notin EventIds \cup JobType

VARIABLES
    outbox,        \* the events fincode has emitted, in order
    acked,         \* the events it has got a 2xx for
    outcome,       \* webhook_events_seen: "none" without a row, else what became of the event
    results,       \* subscription_results: the status of each payment, "none" without a row
    job,           \* the delivery each handler works on
    applied        \* the events whose effects were committed, in that order (history)

whVars == <<outbox, acked, outcome, results, job, applied>>
allVars == <<vars, whVars>>

Outcomes == {"none", "applied", "dlq", "ignored"}

WInit ==
    /\ Init
    /\ outbox = <<>>
    /\ acked = {}
    /\ outcome = [e \in EventIds |-> "none"]
    /\ results = [p \in EventIds |-> "none"]
    /\ job = [h \in Handlers |-> None]
    /\ applied = <<>>

-----------------------------------------------------------------------------
(* fincode (external): charges, stops, and what it tells of them.          *)

Emitted == 1..Len(outbox)

Emit(ev) ==
    /\ Len(outbox) < MaxEvents
    /\ outbox' = Append(outbox, ev)
    /\ UNCHANGED <<rows, now, txVars, acked, outcome, results, job, applied>>

\* The period of a live contract is over: the card is charged for the next one,
\* or the charge fails.
Charge(c) ==
    /\ contracts[c].state = "live" /\ contracts[c].end <= now
    /\ \/ /\ contracts' = [contracts EXCEPT ![c].end = now + PeriodLength]
          /\ \E end \in RepliedEnds(contracts'[c]) :
                Emit([kind |-> "succeeded", contract |-> c, payment |-> Len(outbox) + 1,
                      end |-> end])
       \/ /\ UNCHANGED contracts
          /\ Emit([kind |-> "failed", contract |-> c, payment |-> Len(outbox) + 1,
                   end |-> Null])

\* The last event about payment p.
LastOf(p) ==
    CHOOSE e \in Emitted :
        outbox[e].payment = p /\ \A d \in Emitted : outbox[d].payment = p => d <= e

Payments == {e \in Emitted : outbox[e].payment = e}

\* A failed payment is tried again and succeeds, under its own id.
Recharge(p) ==
    /\ p \in Payments /\ outbox[LastOf(p)].kind = "failed"
    /\ LET c == outbox[p].contract
       IN  /\ contracts[c].state = "live"
           /\ contracts' = [contracts EXCEPT ![c].end = now + PeriodLength]
           /\ \E end \in RepliedEnds(contracts'[c]) :
                 Emit([kind |-> "succeeded", contract |-> c, payment |-> p, end |-> end])

\* A contract stopped by the API is reported; one may also be stopped from fincode's
\* console, and is reported the same way.
Stop(c) ==
    /\ contracts[c].state = "stopped" \/ (OperatorStops /\ contracts[c].state = "live")
    /\ \A e \in Emitted : ~(outbox[e].kind = "cancelled" /\ outbox[e].contract = c)
    /\ contracts' = Stopped(c)
    /\ \E end \in RepliedEnds(contracts[c]) :
          Emit([kind |-> "cancelled", contract |-> c, payment |-> None, end |-> end])

\* An event of a type the handler does not know.
Notify ==
    /\ Emit([kind |-> "other", contract |-> None, payment |-> None, end |-> Null])
    /\ UNCHANGED contracts

-----------------------------------------------------------------------------
(* handle                                                                  *)

\* The answer is a 2xx.  It may be lost on its way, and fincode delivers again.
Answer(e) == \/ acked' = acked \cup {e}
             \/ "lost" \in Faults /\ UNCHANGED acked

\* fincode delivers what is not answered yet, in no particular order.
Deliverable(e) == e \in Emitted \ acked

\* The rows of the contract: one at most, by its UNIQUE column.
RowsFor(c) == {i \in Requests : rows[i] # None /\ rows[i].contract = c}

SeenNever(e) == FALSE

\* The INSERT into webhook_events_seen finds the event id there.
Seen(e) == outcome[e] # "none"

\* The event id is inserted without a unique index.
WaitsNever(e) == FALSE

\* A delivery waits for another one that has inserted the same event id and has not
\* committed.
Waits(e) == \E h \in Handlers : job[h] # None /\ job[h].event = e

\* There is nothing to apply the event to.
Rowless(ev) == ev.kind = "other" \/ RowsFor(ev.contract) = {}

\* A payment whose contract has no row yet is skipped as if it were a stop.
OutcomeIgnored(kind) == "ignored"

\* It is kept with a dlq_reason for the operator; a stop without a row is not.
OutcomeWithoutRow(kind) == IF kind = "cancelled" THEN "ignored" ELSE "dlq"

Begin(h, e) ==
    /\ job[h] = None /\ Deliverable(e) /\ ~Waits(e)
    /\ \/ /\ Seen(e)
          /\ Answer(e) /\ UNCHANGED <<outcome, job>>
       \/ /\ ~Seen(e) /\ Rowless(outbox[e])
          /\ outcome' = [outcome EXCEPT ![e] = OutcomeWithoutRow(outbox[e].kind)]
          /\ Answer(e) /\ UNCHANGED job
       \/ /\ ~Seen(e) /\ ~Rowless(outbox[e])
          /\ \E i \in RowsFor(outbox[e].contract) :
                job' = [job EXCEPT ![h] = [event |-> e, id |-> i, row |-> rows[i], at |-> now]]
          /\ UNCHANGED <<outcome, acked>>
    /\ UNCHANGED <<vars, outbox, results, applied>>

\* _handle_payment, event payment.succeeded: the period alone.
PaidStaysUnpaid(row, end) == [row EXCEPT !.end = ExtendedEnd(row.end, end)]

\* The period is extended, and an unpaid row is active again; a cancelled one is not.
Paid(row, end) ==
    [row EXCEPT !.end = ExtendedEnd(row.end, end),
                !.status = IF row.status = "unpaid" THEN "active" ELSE row.status]

\* Any row becomes unpaid when a payment fails.
FailedAlways(row) == [row EXCEPT !.status = "unpaid"]

\* _handle_payment, event payment.failed: an active row only.
Failed(row) == [row EXCEPT !.status = IF row.status = "active" THEN "unpaid" ELSE row.status]

\* fincode's spelling of the event in the column.
CancelledMisspelt(row, end, at) == [row EXCEPT !.status = "canceled", !.cancelled = TRUE]

\* _handle_cancellation: active to the end of a period that is not over, whatever
\* the row was; else cancelled.  The clock is read with the row, before the flush.
Cancelled(row, end, at) ==
    LET period == ExtendedEnd(row.end, end)
    IN  IF HasFuturePeriod([end |-> period], at)
        THEN [row EXCEPT !.end = period, !.status = "active", !.cancelled = TRUE]
        ELSE [row EXCEPT !.end = period, !.status = "cancelled",
                         !.cancelled = row.cancelled \/ row.status # "cancelled"]

\* The attributes the handler leaves in the row it loaded.
HandledRow(ev, row, at) ==
    CASE ev.kind = "succeeded" -> Paid(row, ev.end)
      [] ev.kind = "failed"    -> Failed(row)
      [] ev.kind = "cancelled" -> Cancelled(row, ev.end, at)

\* The upsert: the last event to be committed decides.
Upserted(ev) ==
    IF ev.kind = "cancelled" THEN results ELSE [results EXCEPT ![ev.payment] = ev.kind]

\* The flush that fails: the row enters the unique index beside another one.
Collides(h) ==
    LET i == job[h].id
        set == HandledRow(outbox[job[h].event], job[h].row, job[h].at)
        row == Updated(rows[i], job[h].row, set, FALSE)
    IN  /\ row.status \in IndexedStatuses /\ rows[i].status \notin IndexedStatuses
        /\ IndexConflict(rows, row.user, i)

\* The error is swallowed and the delivery answered.
AbandonAnswers(h) ==
    /\ job' = [job EXCEPT ![h] = None]
    /\ acked' = acked \cup {job[h].event}
    /\ UNCHANGED <<rows, outcome, results, applied>>

Abandon(h) ==
    /\ job' = [job EXCEPT ![h] = None]
    /\ UNCHANGED <<rows, outcome, results, applied, acked>>

\* The commit, or the IntegrityError nothing catches: a 500, and a redelivery.
Finish(h) ==
    /\ job[h] # None
    /\ LET e == job[h].event
           i == job[h].id
           set == HandledRow(outbox[e], job[h].row, job[h].at)
           row == Updated(rows[i], job[h].row, set, FALSE)
       IN  /\ set # job[h].row => ~RowLocked(i, None)
           /\ row.status \in IndexedStatuses /\ rows[i].status \notin IndexedStatuses
                 => ~IndexBusy(row.user, None)
           /\ \/ Collides(h) /\ Abandon(h)
              \/ /\ ~Collides(h)
                 /\ rows' = [rows EXCEPT ![i] = row]
                 /\ outcome' = [outcome EXCEPT ![e] = "applied"]
                 /\ results' = Upserted(outbox[e])
                 /\ applied' = Append(applied, e)
                 /\ job' = [job EXCEPT ![h] = None]
                 /\ Answer(e)
    /\ UNCHANGED <<contracts, now, txVars, outbox>>

\* The process dies, or the connection: the transaction is rolled back.
HandlerFails(h) ==
    /\ "fail" \in Faults /\ job[h] # None
    /\ Abandon(h)
    /\ UNCHANGED <<contracts, now, txVars, outbox>>

-----------------------------------------------------------------------------

WNext ==
    \/ Next /\ UNCHANGED whVars
    \/ \E c \in ContractIds : Charge(c) \/ Stop(c)
    \/ \E p \in EventIds : Recharge(p)
    \/ Notify
    \/ \E h \in Handlers : (\E e \in EventIds : Begin(h, e)) \/ Finish(h) \/ HandlerFails(h)

WSpec == WInit /\ [][WNext]_allVars

\* fincode delivers an event until it is answered, and not every delivery of it runs into
\* an error; the requests of the API are served as in FairSpec.
WFairness ==
    /\ \A r \in Requests : WF_allVars(Serve(r) /\ UNCHANGED whVars)
    /\ \A h \in Handlers : SF_allVars(Finish(h))
    /\ \A e \in EventIds : SF_allVars(\E h \in Handlers : Begin(h, e))

WFairSpec == WSpec /\ WFairness

-----------------------------------------------------------------------------
(* Properties                                                              *)

WTypeOK ==
    /\ TypeOK
    /\ outbox \in Seq(EventType) /\ Len(outbox) <= MaxEvents
    /\ acked \subseteq EventIds
    /\ outcome \in [EventIds -> Outcomes]
    /\ results \in [EventIds -> {"none", "succeeded", "failed"}]
    /\ job \in [Handlers -> JobType \cup {None}]
    /\ applied \in Seq(EventIds)

\* However often and however overlapped an event is delivered, its effects are
\* committed once at most, and an event that got a 2xx is on record for good.
AtMostOnce ==
    /\ \A m, n \in DOMAIN applied : applied[m] = applied[n] => m = n
    /\ \A e \in acked : Seen(e)

\* Beside the API, redelivered and overlapped, with crashes and lost answers, the receiver is
\* the ledger: an event that changed nothing is not answered, and one that was decided stays so.
Ledger == INSTANCE WebhookLedger
    WITH events <- outbox, verdict <- outcome, log <- applied, payments <- results
ImplementsLedger == Ledger!Spec

\* What is on record of an event: it was emitted, it is "applied" exactly when its effects
\* were committed, nothing but a stop is ignored, and an applied payment is in the history.
\* An event about a payment names it and its contract.
RecordsOK ==
    /\ \A e \in EventIds :
          /\ Seen(e) => e \in Emitted
          /\ outcome[e] = "applied" <=> \E n \in DOMAIN applied : applied[n] = e
          /\ outcome[e] = "ignored" => outbox[e].kind = "cancelled"
          /\ outcome[e] = "applied" => outbox[e].kind # "other"
          /\ outcome[e] = "applied" /\ outbox[e].kind # "cancelled"
                => results[outbox[e].payment] # "none"
    /\ \A e \in Emitted :
          /\ outbox[e].kind \in {"succeeded", "failed"} => outbox[e].payment # None
          /\ outbox[e].payment # None => outbox[e].contract # None

\* A delivery under way is the only one of its event, which is not on record, and the row it
\* has loaded is still there.
JobsOK ==
    \A h \in Handlers : job[h] # None =>
        /\ job[h].event \in Emitted /\ ~Seen(job[h].event)
        /\ outbox[job[h].event].kind # "other"
        /\ rows[job[h].id] # None
        /\ \A g \in Handlers : job[g] # None /\ job[g].event = job[h].event => g = h

\* The inductive invariant: that of the API, which the receiver does not break, and what the
\* two steps of a delivery rest on.
WIndInv == IndInv /\ WTypeOK /\ AtMostOnce /\ RecordsOK /\ JobsOK

\* No payment is lost: an answered event that is not a stop is in the billing history or
\* kept with a dlq_reason for the operator.
NoPaymentLost ==
    \A e \in acked :
        \/ outbox[e].kind = "cancelled" \/ outcome[e] = "dlq"
        \/ outbox[e].payment # None /\ results[outbox[e].payment] # "none"

\* While a row keeps its contract, no event, late or repeated, and no request takes
\* paid time away from it.
PaidTimeKept ==
    [][\A i \in Requests :
        rows[i] # None /\ rows[i].contract # None /\ rows'[i].contract = rows[i].contract
        => rows'[i].end >= rows[i].end]_allVars

\* Nothing is going on and every event has been answered.
Settled == Emitted \subseteq acked /\ InFlight = {}

\* The events about contract c took effect in the order fincode emitted them.
InOrder(c) ==
    \A m, n \in DOMAIN applied :
        m < n /\ {outbox[applied[m]].contract, outbox[applied[n]].contract} = {c}
        => applied[m] < applied[n]

\* A settled account whose events were not reordered is what fincode last said of it: each
\* payment of the history has the status of its last event, and a contract that is not
\* cancelled is unpaid exactly when its last payment failed.
AccountFollowsPayments ==
    \A i \in Requests : rows[i] # None /\ rows[i].contract # None =>
        LET ps == {p \in Payments : outbox[p].contract = rows[i].contract}
            last == CHOOSE e \in ps : \A d \in ps : LastOf(d) <= LastOf(e)
            known == Settled /\ InOrder(rows[i].contract)
                       /\ (\A p \in ps : outcome[LastOf(p)] = "applied")
        IN  /\ known => \A p \in ps : results[p] = outbox[LastOf(p)].kind
            /\ known /\ Live(i, rows) /\ ~rows[i].cancelled /\ ps # {}
                 => ((rows[i].status = "unpaid") <=> (outbox[LastOf(last)].kind = "failed"))

\* A delivery that knows the row as it is does not run into the unique index: the error is
\* answered with a 500, and the redelivery would run into it again.
NoPoisonedDelivery ==
    \A h \in Handlers : job[h] # None /\ job[h].row = rows[job[h].id] => ~Collides(h)

\* Every event is answered with a 2xx in the end.
EveryEventAnswered == \A e \in EventIds : (e \in Emitted) ~> (e \in acked)

=============================================================================
