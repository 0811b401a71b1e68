--------------------------- MODULE FincodeClient ---------------------------
(***************************************************************************)
(* FincodeHttpClient.request of app/services/fincode/client.py with the    *)
(* circuit breaker of circuit_breaker.py that all calls of a process       *)
(* share.  The event loop runs one call at a time between two awaits: the  *)
(* request to fincode and the sleep before the next attempt.               *)
(***************************************************************************)
EXTENDS Integers

CONSTANTS
    Calls,         \* the calls of request
    MaxRetries,    \* attempts after the first one
    Threshold,     \* failure_threshold
    Recovery,      \* recovery_seconds
    MaxNow         \* the clock stops here

ASSUME ClientAssumption ==
    /\ MaxRetries \in Nat /\ Threshold \in Nat \ {0}
    /\ Recovery \in Nat /\ MaxNow \in Nat

VARIABLES
    pc,            \* where each call is
    attempt,       \* the attempt it is at
    result,        \* how it ended, or the error of its last attempt
    state,         \* _state of the breaker
    failures,      \* _failures
    openedAt,      \* _opened_at
    now            \* the monotonic clock

breakerVars == <<state, failures, openedAt>>
vars == <<pc, attempt, result, state, failures, openedAt, now>>

PCs == {"ready", "sent", "sleep", "done"}

Errors == {"timeout", "server_error"}

Results == {"none", "ok", "rate_limited", "api_error", "circuit_open"} \cup Errors

Init ==
    /\ pc = [c \in Calls |-> "ready"]
    /\ attempt = [c \in Calls |-> 0]
    /\ result = [c \in Calls |-> "none"]
    /\ state = "closed"
    /\ failures = 0
    /\ openedAt = 0
    /\ now = 0

-----------------------------------------------------------------------------
(* The circuit breaker                                                     *)

\* before_call raises CircuitBreakerOpenError.
Tripped == state = "open" /\ now - openedAt < Recovery

\* before_call lets the call pass: the first one after the recovery makes it half-open.
BeforeCall ==
    /\ state' = IF state = "open" THEN "half_open" ELSE state
    /\ UNCHANGED <<failures, openedAt>>

\* The counter is not reset.
RecordSuccessKeepsCount ==
    /\ state' = "closed"
    /\ UNCHANGED <<failures, openedAt>>

\* From any state, also for a call that was sent before the breaker opened.
RecordSuccess ==
    /\ failures' = 0
    /\ state' = "closed"
    /\ UNCHANGED openedAt

\* Only the failure that opens the breaker sets the time.
RecordFailureOnce ==
    /\ failures' = failures + 1
    /\ IF state # "open" /\ (failures' >= Threshold \/ state = "half_open")
         THEN state' = "open" /\ openedAt' = now
         ELSE UNCHANGED <<state, openedAt>>

RecordFailure ==
    /\ failures' = failures + 1
    /\ IF failures' >= Threshold \/ state = "half_open"
         THEN state' = "open" /\ openedAt' = now
         ELSE UNCHANGED <<state, openedAt>>

-----------------------------------------------------------------------------
(* request                                                                 *)

Ends(c, how) ==
    /\ pc' = [pc EXCEPT ![c] = "done"]
    /\ result' = [result EXCEPT ![c] = how]

\* The error of the breaker replaces the one of the attempt before.
Refuse(c) ==
    /\ pc[c] = "ready" /\ Tripped
    /\ Ends(c, "circuit_open")
    /\ UNCHANGED <<attempt, breakerVars, now>>

Send(c) ==
    /\ pc[c] = "ready" /\ ~Tripped
    /\ BeforeCall
    /\ pc' = [pc EXCEPT ![c] = "sent"]
    /\ UNCHANGED <<attempt, result, now>>

\* A 2xx. A body that does not parse is the caller's error and the breaker's success.
Succeed(c) ==
    /\ pc[c] = "sent"
    /\ RecordSuccess
    /\ Ends(c, "ok")
    /\ UNCHANGED <<attempt, now>>

\* 429 and the other 4xx: an error at once, and the breaker does not hear of it.
Reject(c) ==
    /\ pc[c] = "sent"
    /\ \E how \in {"rate_limited", "api_error"} : Ends(c, how)
    /\ UNCHANGED <<attempt, breakerVars, now>>

\* One attempt more than the loop has.
RetriesLeftOneMore(c) == attempt[c] <= MaxRetries

RetriesLeft(c) == attempt[c] < MaxRetries

\* A timeout, a connection error or any other status: the next attempt after a sleep, if one is left.
Break(c) ==
    /\ pc[c] = "sent"
    /\ RecordFailure
    /\ \E error \in Errors :
          \/ /\ RetriesLeft(c)
             /\ attempt' = [attempt EXCEPT ![c] = @ + 1]
             /\ pc' = [pc EXCEPT ![c] = "sleep"]
             /\ result' = [result EXCEPT ![c] = error]
          \/ ~RetriesLeft(c) /\ Ends(c, error) /\ UNCHANGED attempt
    /\ UNCHANGED now

Wake(c) ==
    /\ pc[c] = "sleep"
    /\ pc' = [pc EXCEPT ![c] = "ready"]
    /\ UNCHANGED <<attempt, result, breakerVars, now>>

Tick ==
    /\ now < MaxNow
    /\ now' = now + 1
    /\ UNCHANGED <<pc, attempt, result, breakerVars>>

Serve(c) == Refuse(c) \/ Send(c) \/ Succeed(c) \/ Reject(c) \/ Break(c) \/ Wake(c)

Next == (\E c \in Calls : Serve(c)) \/ Tick

Spec == Init /\ [][Next]_vars

-----------------------------------------------------------------------------
(* Properties                                                              *)

\* The fields of the breaker and the locals of request keep their types, and no call
\* is at an attempt the loop does not have.
TypeOK ==
    /\ pc \in [Calls -> PCs]
    /\ attempt \in [Calls -> 0..MaxRetries]
    /\ result \in [Calls -> Results]
    /\ state \in {"closed", "open", "half_open"}
    /\ failures \in Nat
    /\ openedAt \in Nat
    /\ now \in Nat

\* The three states carry no more than the counter and the clock do: the breaker is closed
\* exactly below the threshold, and half-open only after the recovery, whatever replies of
\* concurrent calls come in late.
StateIsDerived ==
    /\ (state = "closed") <=> (failures < Threshold)
    /\ state = "half_open" => now - openedAt >= Recovery

\* A call that was turned away has ended.
RefusedIsDone == \A c \in Calls : result[c] = "circuit_open" => pc[c] = "done"

\* The inductive invariant.
IndInv == TypeOK /\ StateIsDerived /\ RefusedIsDone

\* The breaker is the rule of OutageRule: calls are refused exactly while at least Threshold
\* failures came in without a success and the last of them is less than Recovery ago.
Rule == INSTANCE OutageRule WITH
    sent <- {c \in Calls : pc[c] = "sent"},
    refused <- {c \in Calls : result[c] = "circuit_open"},
    streak <- failures,
    since <- openedAt

ImplementsRule == Rule!Spec

=============================================================================
