------------------------ MODULE FincodeClientProofs ------------------------
(* The inductive invariant of FincodeClient, and that its breaker is the    *)
(* rule of OutageRule, for any number of calls and any limits.              *)
EXTENDS FincodeClient, TLAPS

LEMMA InitEstablishesIndInv == Init => IndInv
  BY ClientAssumption DEF Init, IndInv, TypeOK, StateIsDerived, RefusedIsDone, PCs, Results, Errors

\* What a call does to its own record and to the breaker keeps the invariant.
LEMMA ServeKeepsIndInv ==
  ASSUME NEW c \in Calls, IndInv, Serve(c)
  PROVE  IndInv'
<1> USE ClientAssumption DEF IndInv, TypeOK, StateIsDerived, RefusedIsDone, PCs, Results,
        Errors, Ends, breakerVars
<1>1. CASE Refuse(c)
  BY <1>1 DEF Refuse
<1>2. CASE Send(c)
  BY <1>2 DEF Send, BeforeCall, Tripped
<1>3. CASE Succeed(c)
  BY <1>3 DEF Succeed, RecordSuccess
<1>4. CASE Reject(c)
  BY <1>4 DEF Reject
<1>5. CASE Break(c)
  <2>1. /\ pc' \in [Calls -> PCs] /\ attempt' \in [Calls -> 0..MaxRetries]
        /\ result' \in [Calls -> Results] /\ now' = now /\ RefusedIsDone'
    BY <1>5 DEF Break, RetriesLeft
  <2>2. /\ failures' \in Nat /\ openedAt' \in Nat /\ StateIsDerived'
        /\ state' \in {"closed", "open", "half_open"}
    BY <1>5 DEF Break, RecordFailure
  <2> QED
    BY <2>1, <2>2
<1>6. CASE Wake(c)
  BY <1>6 DEF Wake
<1> QED
  BY <1>1, <1>2, <1>3, <1>4, <1>5, <1>6 DEF Serve

LEMMA NextKeepsIndInv == IndInv /\ [Next]_vars => IndInv'
<1> SUFFICES ASSUME IndInv, [Next]_vars PROVE IndInv'
  OBVIOUS
<1>1. ASSUME NEW c \in Calls, Serve(c) PROVE IndInv'
  BY <1>1, ServeKeepsIndInv
<1>2. CASE Tick
  BY <1>2, ClientAssumption DEF Tick, IndInv, TypeOK, StateIsDerived, RefusedIsDone,
      breakerVars
<1>3. CASE UNCHANGED vars
  BY <1>3 DEF vars, IndInv, TypeOK, StateIsDerived, RefusedIsDone
<1> QED
  BY <1>1, <1>2, <1>3 DEF Next

LEMMA IndInvHolds == Spec => []IndInv
  BY InitEstablishesIndInv, NextKeepsIndInv, PTL DEF Spec

\* Type correctness of the breaker and of the locals of every call, for any number of
\* overlapping calls of FincodeHttpClient.request.
THEOREM TypeCorrect == Spec => []TypeOK
<1>1. IndInv => TypeOK
  BY DEF IndInv
<1> QED
  BY <1>1, IndInvHolds, PTL

\* The state of the breaker agrees with its counter and its clock in every reachable
\* state, whatever replies of concurrent calls record_success and record_failure see late.
THEOREM BreakerStateDerived == Spec => []StateIsDerived
<1>1. IndInv => StateIsDerived
  BY DEF IndInv
<1> QED
  BY <1>1, IndInvHolds, PTL

-----------------------------------------------------------------------------
(* The implementation of OutageRule                                        *)

InFlight == {c \in Calls : pc[c] = "sent"}

TurnedAway == {c \in Calls : result[c] = "circuit_open"}

LEMMA InitImplements == Init => Rule!Init
  BY DEF Init, Rule!Init

\* before_call refuses exactly during an outage of the rule.
LEMMA TrippedIsOutage == IndInv => (Tripped <=> Rule!Outage)
  BY ClientAssumption DEF IndInv, TypeOK, StateIsDerived, Tripped, Rule!Outage

LEMMA ServeImplements ==
  ASSUME NEW c \in Calls, IndInv, Serve(c)
  PROVE  Rule!Next \/ UNCHANGED Rule!vars
<1> USE DEF IndInv, TypeOK, RefusedIsDone, Ends, breakerVars
<1>1. CASE Refuse(c)
  <2>1. InFlight' = InFlight /\ TurnedAway' = TurnedAway \cup {c} /\ c \notin InFlight
    BY <1>1 DEF Refuse, InFlight, TurnedAway
  <2>2. Rule!Refuse(c)
    BY <1>1, <2>1, TrippedIsOutage DEF Refuse, Rule!Refuse, InFlight, TurnedAway
  <2> QED
    BY <2>2 DEF Rule!Next
<1>2. CASE Send(c)
  <2>1. InFlight' = InFlight \cup {c} /\ TurnedAway' = TurnedAway /\ c \notin InFlight
    BY <1>2 DEF Send, InFlight, TurnedAway
  <2>2. Rule!Admit(c)
    BY <1>2, <2>1, TrippedIsOutage DEF Send, BeforeCall, Rule!Admit, InFlight, TurnedAway
  <2> QED
    BY <2>2 DEF Rule!Next
<1>3. CASE Succeed(c)
  <2>1. InFlight' = InFlight \ {c} /\ TurnedAway' = TurnedAway /\ c \in InFlight
    BY <1>3 DEF Succeed, InFlight, TurnedAway
  <2>2. Rule!Success(c)
    BY <1>3, <2>1 DEF Succeed, RecordSuccess, Rule!Success, InFlight, TurnedAway
  <2> QED
    BY <2>2 DEF Rule!Next
<1>4. CASE Reject(c)
  <2>1. InFlight' = InFlight \ {c} /\ TurnedAway' = TurnedAway /\ c \in InFlight
    BY <1>4 DEF Reject, InFlight, TurnedAway
  <2>2. Rule!Rejection(c)
    BY <1>4, <2>1 DEF Reject, Rule!Rejection, InFlight, TurnedAway
  <2> QED
    BY <2>2 DEF Rule!Next
<1>5. CASE Break(c)
  <2>1. InFlight' = InFlight \ {c} /\ TurnedAway' = TurnedAway /\ c \in InFlight
    BY <1>5 DEF Break, Errors, InFlight, TurnedAway
  <2>2. failures' = failures + 1 /\ openedAt' = IF failures' >= Threshold THEN now ELSE openedAt
    BY <1>5, ClientAssumption DEF Break, RecordFailure, StateIsDerived
  <2>3. Rule!Failure(c)
    BY <1>5, <2>1, <2>2 DEF Break, Rule!Failure, InFlight, TurnedAway
  <2> QED
    BY <2>3 DEF Rule!Next
<1>6. CASE Wake(c)
  <2>1. InFlight' = InFlight /\ TurnedAway' = TurnedAway
    BY <1>6 DEF Wake, InFlight, TurnedAway
  <2> QED
    BY <1>6, <2>1 DEF Wake, Rule!vars, InFlight, TurnedAway
<1> QED
  BY <1>1, <1>2, <1>3, <1>4, <1>5, <1>6 DEF Serve

LEMMA NextImplements == IndInv /\ [Next]_vars => [Rule!Next]_Rule!vars
<1> SUFFICES ASSUME IndInv, [Next]_vars PROVE Rule!Next \/ UNCHANGED Rule!vars
  OBVIOUS
<1>1. ASSUME NEW c \in Calls, Serve(c) PROVE Rule!Next \/ UNCHANGED Rule!vars
  BY <1>1, ServeImplements
<1>2. CASE Tick
  BY <1>2 DEF Tick, breakerVars, Rule!Next, Rule!Tick
<1>3. CASE UNCHANGED vars
  BY <1>3 DEF vars, Rule!vars
<1> QED
  BY <1>1, <1>2, <1>3 DEF Next

\* The three states of the circuit breaker implement the rule: calls of request are refused
\* exactly while fincode is out, however the replies of overlapping calls are ordered.
THEOREM ClientImplementsRule == Spec => ImplementsRule
<1>1. Spec => Rule!Spec
  BY InitImplements, NextImplements, IndInvHolds, PTL DEF Spec, Rule!Spec
<1> QED
  BY <1>1 DEF ImplementsRule
=============================================================================
