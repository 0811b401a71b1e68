------------------------- MODULE SubscriptionPeriods -------------------------
(***************************************************************************)
(* The predicates over one row of the `subscriptions` table that decide    *)
(* whether a contract is in use: app/services/subscription_periods.py, the *)
(* `cancel_at_period_end` property of app/models/subscription.py and the   *)
(* WHERE clause of SubscriptionManager._finalize_elapsed_cancellations.    *)
(*                                                                         *)
(* A row is a record.  The columns these predicates read are               *)
(*   status     "active", "unpaid" or "cancelled"                          *)
(*   cancelled  whether the column cancelled_at is set                     *)
(*   end        the column current_period_end, Null when it is not set     *)
(***************************************************************************)
EXTENDS Integers

Null == -1

\* A point of time, or the SQL NULL of a nullable timestamp.
OptTime == Nat \cup {Null}

Statuses == {"active", "unpaid", "cancelled"}

\* The statuses of a contract in use: those of usable_subscription_conditions.
LiveStatuses == {"active", "unpaid"}

\* The predicate of the partial unique index uq_subscriptions_active_user.
IndexedStatuses == {"active", "unpaid"}

\* has_future_period: a period that is set and not over.
HasFuturePeriod(row, now) == row.end # Null /\ row.end > now

\* usable_subscription_conditions: a NULL period makes the SQL comparison
\* unknown, so that a cancelled row without a period is not usable.
Usable(row, now) ==
    /\ row.status \in LiveStatuses
    /\ ~row.cancelled \/ HasFuturePeriod(row, now)

\* The tempting narrower clause: only active rows are finalized.
ElapsedActiveOnly(row, now) ==
    /\ row.status = "active"
    /\ row.cancelled
    /\ row.end = Null \/ row.end <= now

\* The WHERE clause of _finalize_elapsed_cancellations.
Elapsed(row, now) ==
    /\ row.status \in LiveStatuses
    /\ row.cancelled
    /\ row.end = Null \/ row.end <= now

\* Subscription.cancel_at_period_end: an active row whose cancellation waits
\* for the end of the paid period.  An unpaid row never is.
CancelAtPeriodEnd(row, now) ==
    row.status = "active" /\ row.cancelled /\ HasFuturePeriod(row, now)

\* The end apply_current_period_end leaves in a row, given the one the reply
\* of fincode carries (Null when it carries none).
AppliedEnd(end, replied) == IF replied = Null THEN end ELSE replied

\* only_extend forgotten: the reply of a cancellation shortens the period.
ExtendedEndShortens(end, replied) == AppliedEnd(end, replied)

\* The same with only_extend = True: the reply never shortens a period.
ExtendedEnd(end, replied) ==
    IF replied = Null \/ (end # Null /\ replied <= end) THEN end ELSE replied
=============================================================================
