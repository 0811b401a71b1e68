----------------------------- MODULE OutageRule -----------------------------
(***************************************************************************)
(* What the circuit breaker promises, without its states: calls are        *)
(* refused exactly while fincode is out, that is from the Threshold-th     *)
(* failure without a success on, until Recovery has passed since the last  *)
(* failure.                                                                *)
(***************************************************************************)
EXTENDS Integers

CONSTANTS
    Calls,        \* the calls to fincode
    Threshold,    \* that many failures in a row are an outage
    Recovery      \* how long fincode is left alone after the last of them

VARIABLES
    sent,         \* the calls that wait for an answer of fincode
    refused,      \* the calls that were turned away
    streak,       \* failures since the last success
    since,        \* when the last failure of an outage came in
    now           \* the clock

vars == <<sent, refused, streak, since, now>>

Init == sent = {} /\ refused = {} /\ streak = 0 /\ since = 0 /\ now = 0

Outage == streak >= Threshold /\ now - since < Recovery

Admit(c) ==
    /\ c \notin sent /\ ~Outage
    /\ sent' = sent \cup {c}
    /\ UNCHANGED <<refused, streak, since, now>>

Refuse(c) ==
    /\ c \notin sent /\ Outage
    /\ refused' = refused \cup {c}
    /\ UNCHANGED <<sent, streak, since, now>>

Success(c) ==
    /\ c \in sent
    /\ sent' = sent \ {c}
    /\ streak' = 0
    /\ UNCHANGED <<refused, since, now>>

\* An answer that says nothing of the health of fincode.
Rejection(c) ==
    /\ c \in sent
    /\ sent' = sent \ {c}
    /\ UNCHANGED <<refused, streak, since, now>>

Failure(c) ==
    /\ c \in sent
    /\ sent' = sent \ {c}
    /\ streak' = streak + 1
    /\ since' = IF streak' >= Threshold THEN now ELSE since
    /\ UNCHANGED <<refused, now>>

Tick == now' = now + 1 /\ UNCHANGED <<sent, refused, streak, since>>

Next ==
    \/ \E c \in Calls : Admit(c) \/ Refuse(c) \/ Success(c) \/ Rejection(c) \/ Failure(c)
    \/ Tick

Spec == Init /\ [][Next]_vars
=============================================================================
