------------------------ MODULE WebhookHandlerProofs ------------------------
(***************************************************************************)
(* For any number of handlers and events, any contracts, requests and      *)
(* faults: the receiver beside the subscription API keeps the types and    *)
(* the one contract of a user, commits the effects of an event once at     *)
(* most, loses no payment, and implements WebhookLedger.  The argument is  *)
(* WIndInv: two deliveries under way are never of the same event, and the  *)
(* event of a delivery is not on record, so that its commit decides an     *)
(* undecided event.                                                        *)
(***************************************************************************)
EXTENDS WebhookHandler, SubscriptionManagerProofs, SequenceTheorems,
        WellFoundedInduction

LEMMA NoneIsNoEvent == None \notin EventIds /\ \A x \in JobType : x # None
  BY WebhookAssumption

-----------------------------------------------------------------------------
(* What the steps do to the table of the API.                              *)

\* No step of the API removes a row: it leaves the table, commits the
\* finalizations, or those and one row.
LEMMA RowsStay ==
    ASSUME IndInv, [Next]_vars, NEW i \in Requests, rows[i] # None
    PROVE  rows'[i] # None
<1>1. TypeOK /\ ControlOK
  BY DEF IndInv
<1>2. ASSUME NEW r \in Requests, Commit(r, View(r)) PROVE rows'[i] # None
  BY <1>1, <1>2, ViewIsTable DEF Commit
<1>3. ASSUME NEW r \in Requests, NEW j \in Requests, NEW row \in RowType,
             Commit(r, [View(r) EXCEPT ![j] = row])
      PROVE  rows'[i] # None
  BY <1>1, <1>3, ViewIsTable, NoneIsApart DEF Commit
<1>4. ASSUME NEW r \in Requests, Insert(r) PROVE rows'[i] # None
  <2>1. req[r] # None
    BY <1>1, <1>4 DEF Insert, ControlOK
  <2>2. NewRow(r, None, Null) \in RowType
    BY <1>1, <2>1, NewRowIsRow DEF OptTime
  <2> QED
    BY <1>3, <1>4, <2>2 DEF Insert, Rollback, Goto
<1>5. ASSUME NEW r \in Requests, WriteSubscribe(r) PROVE rows'[i] # None
  <2>1. req[r] # None /\ reply[r] \in ReplyType
    BY <1>1, <1>5 DEF WriteSubscribe, ControlOK, TypeOK
  <2>2. reply[r].id \in ContractIds /\ AppliedEnd(Null, reply[r].end) \in OptTime
    BY <2>1 DEF ReplyType, AppliedEnd, OptTime
  <2>3. NewRow(r, reply[r].id, AppliedEnd(Null, reply[r].end)) \in RowType
    BY <1>1, <2>1, <2>2, NewRowIsRow
  <2> QED
    BY <1>3, <1>5, <2>3 DEF WriteSubscribe, Rollback
<1>6. ASSUME NEW r \in Requests, WriteChange(r) \/ WriteCancel(r) PROVE rows'[i] # None
  <2>1. pc[r] = "write" /\ HasTarget(r)
    BY <1>1, <1>6 DEF ControlOK, WriteChange, WriteCancel
  <2>2. target[r] \in Requests /\ rows[target[r]] \in RowType /\ seen[r] \in RowType
    BY <1>1, <2>1 DEF HasTarget, TypeOK
  <2>3. PICK set \in RowType, stamp \in BOOLEAN : Flush(r, set, stamp)
    BY <1>1, <1>6, <2>1, SetRowsAreRows DEF WriteChange, WriteCancel
  <2>4. Updated(rows[target[r]], seen[r], set, stamp) \in RowType
    BY <2>2, UpdatedIsRow
  <2> QED
    BY <1>3, <2>2, <2>3, <2>4 DEF Flush, Rollback
<1>7. ASSUME NEW r \in Requests, ChangeGuard(r) \/ CancelGuard(r) PROVE rows'[i] # None
  BY <1>2, <1>7 DEF ChangeGuard, CancelGuard, Rollback, Load
<1>8. ASSUME NEW r \in Requests, CreateContract(r) \/ CancelContract(r) PROVE rows'[i] # None
  BY <1>8 DEF CreateContract, CancelContract, Rollback, ReplyTo
<1>9. ASSUME NEW r \in Requests, Finalize(r) \/ Replay(r) \/ SubscribeGuard(r) \/ Fail(r)
      PROVE  rows'[i] # None
  BY <1>2, <1>9 DEF Finalize, Replay, SubscribeGuard, Fail, Rollback, Goto
<1>10. ASSUME NEW r \in Requests, NEW q \in ClientRequests, Receive(r, q) PROVE rows'[i] # None
  BY <1>10 DEF Receive
<1> QED
  BY <1>4, <1>5, <1>6, <1>7, <1>8, <1>9, <1>10 DEF Next, Serve, Tick, vars

\* What fincode does by itself changes no row and no request.
LEMMA ContractsKeepIndInv ==
    ASSUME IndInv, UNCHANGED <<rows, now, txVars>>,
           contracts' \in [ContractIds -> ContractType]
    PROVE  IndInv'
<1>1. UNCHANGED <<rows, now, pc, req, finals, target, seen, reply>>
  BY DEF txVars
<1>2. TypeOK'
  BY <1>1 DEF IndInv, TypeOK
<1>3. ControlOK' /\ IndexReserved' /\ OneContract'
  BY <1>1 DEF IndInv, ControlOK, HasTarget, IndexReserved, HoldsInsert, OneContract, Live
<1> QED
  BY <1>2, <1>3 DEF IndInv

\* The commit of a delivery: the row was in the index, or enters it alone.
LEMMA DeliveryKeepsIndInv ==
    ASSUME IndInv, NEW i \in Requests, NEW row \in RowType, rows[i] # None,
           row.user = rows[i].user, rows' = [rows EXCEPT ![i] = row],
           UNCHANGED <<contracts, now, txVars>>,
           row.status \in IndexedStatuses /\ rows[i].status \notin IndexedStatuses
              => ~IndexBusy(row.user, None) /\ ~IndexConflict(rows, row.user, i)
    PROVE  IndInv'
<1>1. UNCHANGED <<contracts, now, pc, req, finals, target, seen, reply>>
  BY DEF txVars
<1>2. rows \in [Requests -> RowType \cup {None}] /\ row # None
  BY NoneIsApart DEF IndInv, TypeOK
<1>3. rows'[i] = row /\ \A j \in Requests \ {i} : rows'[j] = rows[j]
  BY <1>2
<1>4. TypeOK'
  BY <1>1, <1>2 DEF IndInv, TypeOK
<1>5. \A j \in Requests :
        /\ rows'[j] = None <=> rows[j] = None
        /\ rows[j] # None => rows'[j].user = rows[j].user
  BY <1>2, <1>3
<1>6. ControlOK'
  BY <1>1, <1>5 DEF IndInv, TypeOK, ControlOK, HasTarget
<1>7. \A q \in Requests : HoldsInsert(q)' <=> HoldsInsert(q)
  BY <1>1 DEF HoldsInsert
<1>8. ASSUME NEW j \in Requests, Live(j, rows)'
      PROVE  \/ Live(j, rows) /\ rows'[j].user = rows[j].user
             \/ /\ j = i /\ rows'[j].user = row.user
                /\ ~IndexBusy(row.user, None) /\ ~IndexConflict(rows, row.user, i)
  BY <1>2, <1>3, <1>8 DEF Live, LiveStatuses, IndexedStatuses
<1>9. IndexReserved'
  <2>1. \A q \in Requests : HoldsInsert(q) /\ ~IndexBusy(row.user, None) => req[q].user # row.user
    BY NoneIsApart DEF IndexBusy, IndInv, ControlOK, HoldsInsert
  <2> QED
    BY <1>1, <1>7, <1>8, <2>1 DEF IndInv, IndexReserved
<1>10. OneContract'
  <2>1. ASSUME ~IndexConflict(rows, row.user, i), NEW j \in Requests \ {i}, Live(j, rows)'
        PROVE  rows'[j].user # row.user
    BY <1>3, <2>1 DEF IndexConflict, RowsOf, Live, LiveStatuses, IndexedStatuses
  <2> QED
    BY <1>8, <2>1 DEF IndInv, OneContract
<1> QED
  BY <1>4, <1>6, <1>9, <1>10 DEF IndInv

-----------------------------------------------------------------------------
(* What the handler leaves in a row is a row.                              *)

LEMMA ExtendedEndIsEnd ==
    ASSUME NEW end \in OptTime, NEW replied \in OptTime
    PROVE  ExtendedEnd(end, replied) \in OptTime
  BY DEF ExtendedEnd

LEMMA HandledRowIsRow ==
    ASSUME NEW ev \in EventType, NEW row \in RowType, NEW at, ev.kind # "other"
    PROVE  HandledRow(ev, row, at) \in RowType
<1>1. ev.kind \in {"succeeded", "failed", "cancelled"} /\ ev.end \in OptTime
  BY DEF EventType, EventKinds
<1>2. row.end \in OptTime /\ row.status \in Statuses /\ row.cancelled \in BOOLEAN
  BY DEF RowType
<1>3. ExtendedEnd(row.end, ev.end) \in OptTime
  BY <1>1, <1>2, ExtendedEndIsEnd
<1> HIDE DEF ExtendedEnd
<1>4. CASE ev.kind = "succeeded"
  BY <1>2, <1>3, <1>4 DEF HandledRow, Paid, RowType, Statuses
<1>5. CASE ev.kind = "failed"
  BY <1>2, <1>5 DEF HandledRow, Failed, RowType, Statuses
<1>6. CASE ev.kind = "cancelled"
  BY <1>2, <1>3, <1>6 DEF HandledRow, Cancelled, RowType, Statuses
<1> QED
  BY <1>1, <1>4, <1>5, <1>6

\* The row a delivery is about to write, and what the events of a delivery are.
LEMMA JobFacts ==
    ASSUME WIndInv, NEW h \in Handlers, job[h] # None
    PROVE  LET e == job[h].event
               i == job[h].id
               set == HandledRow(outbox[e], job[h].row, job[h].at)
               row == Updated(rows[i], job[h].row, set, FALSE)
           IN  /\ e \in EventIds /\ e \in Emitted /\ ~Seen(e)
               /\ outbox[e] \in EventType /\ outbox[e].kind # "other"
               /\ i \in Requests /\ rows[i] \in RowType /\ rows[i] # None
               /\ row \in RowType /\ row.user = rows[i].user
<1>1. job[h] \in JobType
  BY DEF WIndInv, WTypeOK
<1>2. /\ job[h].event \in EventIds /\ job[h].id \in Requests /\ job[h].row \in RowType
  BY <1>1 DEF JobType
<1>3. /\ job[h].event \in Emitted /\ ~Seen(job[h].event)
      /\ outbox[job[h].event].kind # "other" /\ rows[job[h].id] # None
  BY DEF WIndInv, JobsOK
<1>4. outbox[job[h].event] \in EventType
  BY <1>3, ElementOfSeq DEF WIndInv, WTypeOK, Emitted
<1>5. rows[job[h].id] \in RowType
  BY <1>2, <1>3 DEF WIndInv, IndInv, TypeOK
<1>6. HandledRow(outbox[job[h].event], job[h].row, job[h].at) \in RowType
  BY <1>2, <1>3, <1>4, HandledRowIsRow
<1> QED
  BY <1>2, <1>3, <1>4, <1>5, <1>6, UpdatedIsRow

-----------------------------------------------------------------------------
(* The invariant, action by action.                                        *)

\* The API knows nothing of events.
LEMMA ApiKeepsWIndInv ==
    ASSUME WIndInv, [Next]_vars, UNCHANGED whVars
    PROVE  WIndInv'
<1>1. IndInv /\ IndInv'
  BY NextKeepsIndInv DEF WIndInv
<1>2. UNCHANGED <<outbox, acked, outcome, results, job, applied>>
  BY DEF whVars
<1>3. WTypeOK'
  BY <1>1, <1>2 DEF WIndInv, WTypeOK, IndInv
<1>4. AtMostOnce' /\ RecordsOK'
  BY <1>2 DEF WIndInv, AtMostOnce, RecordsOK, Seen, Emitted
<1>5. \A h \in Handlers : job[h] # None => job[h].id \in Requests
  BY NoneIsNoEvent DEF WIndInv, WTypeOK, JobType
<1>6. JobsOK'
  BY <1>1, <1>2, <1>5, RowsStay DEF WIndInv, JobsOK, Seen, Emitted
<1> QED
  BY <1>1, <1>3, <1>4, <1>6 DEF WIndInv

\* An event more: what is known of the earlier ones stays.
LEMMA EmitKeepsWIndInv ==
    ASSUME WIndInv, NEW ev \in EventType, Emit(ev),
           contracts' \in [ContractIds -> ContractType],
           ev.kind \in {"succeeded", "failed"} => ev.payment # None,
           ev.payment # None => ev.contract # None
    PROVE  WIndInv'
<1>1. /\ outbox \in Seq(EventType) /\ Len(outbox) \in Nat /\ Len(outbox) < MaxEvents
      /\ outbox' = Append(outbox, ev)
      /\ UNCHANGED <<rows, now, acked, outcome, results, job, applied>>
  BY LenProperties DEF Emit, WIndInv, WTypeOK
<1>2. /\ outbox' \in Seq(EventType) /\ Len(outbox') = Len(outbox) + 1
      /\ \A e \in Emitted : outbox'[e] = outbox[e] /\ e \in Emitted'
      /\ outbox'[Len(outbox) + 1] = ev
      /\ Emitted' = Emitted \cup {Len(outbox) + 1}
  BY <1>1, AppendProperties DEF Emitted
<1>3. IndInv'
  BY ContractsKeepIndInv DEF WIndInv, Emit
<1>4. WTypeOK'
  BY <1>1, <1>2, <1>3, WebhookAssumption DEF WIndInv, WTypeOK, IndInv
<1>5. AtMostOnce'
  BY <1>1 DEF WIndInv, AtMostOnce, Seen
<1>6. RecordsOK'
  <2>1. UNCHANGED <<outcome, results, applied>>
    BY <1>1
  <2>2. ASSUME NEW e \in EventIds, outcome[e] # "none"
        PROVE  e \in Emitted' /\ outbox'[e] = outbox[e]
    BY <1>2, <2>2 DEF WIndInv, RecordsOK, Seen
  <2>3. \A e \in EventIds :
          /\ outcome'[e] # "none" => e \in Emitted'
          /\ outcome'[e] = "applied" <=> \E n \in DOMAIN applied' : applied'[n] = e
          /\ outcome'[e] = "ignored" => outbox'[e].kind = "cancelled"
          /\ outcome'[e] = "applied" => outbox'[e].kind # "other"
          /\ outcome'[e] = "applied" /\ outbox'[e].kind # "cancelled"
                => results'[outbox'[e].payment] # "none"
    BY <2>1, <2>2 DEF WIndInv, RecordsOK, Seen
  <2>4. \A e \in Emitted' :
          /\ outbox'[e].kind \in {"succeeded", "failed"} => outbox'[e].payment # None
          /\ outbox'[e].payment # None => outbox'[e].contract # None
    BY <1>2 DEF WIndInv, RecordsOK
  <2> QED
    BY <2>3, <2>4 DEF RecordsOK, Seen
<1>7. JobsOK'
  BY <1>1, <1>2 DEF WIndInv, JobsOK, Seen
<1> QED
  BY <1>3, <1>4, <1>5, <1>6, <1>7 DEF WIndInv

\* The ends fincode tells of a contract are points of time.
LEMMA RepliedEndsAreEnds ==
    ASSUME NEW contract \in ContractType, NEW end \in RepliedEnds(contract)
    PROVE  end \in OptTime
  BY DEF RepliedEnds, ContractType, OptTime

\* What fincode does to one contract.
LEMMA ContractKeepsType ==
    ASSUME contracts \in [ContractIds -> ContractType], now \in Nat, NEW c \in ContractIds
    PROVE  /\ [contracts EXCEPT ![c].end = now + PeriodLength] \in [ContractIds -> ContractType]
           /\ Stopped(c) \in [ContractIds -> ContractType]
<1>1. contracts[c] \in ContractType /\ now + PeriodLength \in OptTime
  BY ConstantsAssumption DEF OptTime
<1>2. /\ [contracts[c] EXCEPT !.end = now + PeriodLength] \in ContractType
      /\ [contracts[c] EXCEPT !.state = "stopped"] \in ContractType
  BY <1>1 DEF ContractType
<1>3. /\ [contracts EXCEPT ![c].end = now + PeriodLength] =
            [contracts EXCEPT ![c] = [contracts[c] EXCEPT !.end = now + PeriodLength]]
      /\ Stopped(c) = [contracts EXCEPT ![c] = [contracts[c] EXCEPT !.state = "stopped"]]
  BY DEF Stopped
<1> QED
  BY <1>2, <1>3

\* Charges, retried charges, stops and events of no concern.
LEMMA FincodeKeepsWIndInv ==
    ASSUME WIndInv,
           \/ \E c \in ContractIds : Charge(c) \/ Stop(c)
           \/ \E p \in EventIds : Recharge(p)
           \/ Notify
    PROVE  WIndInv'
<1>1. /\ contracts \in [ContractIds -> ContractType] /\ now \in Nat
      /\ outbox \in Seq(EventType) /\ Len(outbox) \in Nat
  BY LenProperties DEF WIndInv, WTypeOK, IndInv, TypeOK
<1>2. ASSUME Len(outbox) < MaxEvents
      PROVE  Len(outbox) + 1 \in EventIds /\ Len(outbox) + 1 # None
  <2>1. Len(outbox) + 1 \in EventIds
    BY <1>1, <1>2, WebhookAssumption DEF EventIds
  <2> QED
    BY <2>1, NoneIsNoEvent
<1>3. ASSUME NEW c \in ContractIds, Charge(c) PROVE WIndInv'
  <2>1. Len(outbox) < MaxEvents /\ contracts' \in [ContractIds -> ContractType]
    BY <1>1, <1>3, ContractKeepsType DEF Charge, Emit
  <2>2. \E kind \in {"succeeded", "failed"}, end \in OptTime :
          Emit([kind |-> kind, contract |-> c, payment |-> Len(outbox) + 1, end |-> end])
    BY <1>3, <2>1, RepliedEndsAreEnds DEF Charge, OptTime
  <2>3. PICK kind \in {"succeeded", "failed"}, end \in OptTime :
          Emit([kind |-> kind, contract |-> c, payment |-> Len(outbox) + 1, end |-> end])
    BY <2>2
  <2>4. [kind |-> kind, contract |-> c, payment |-> Len(outbox) + 1, end |-> end] \in EventType
    BY <1>2, <2>1 DEF EventType, EventKinds
  <2> QED
    BY <1>2, <2>1, <2>3, <2>4, NoneIsApart, EmitKeepsWIndInv
<1>4. ASSUME NEW c \in ContractIds, Stop(c) PROVE WIndInv'
  <2>1. contracts' \in [ContractIds -> ContractType]
    BY <1>1, <1>4, ContractKeepsType DEF Stop
  <2>2. PICK end \in OptTime :
          Emit([kind |-> "cancelled", contract |-> c, payment |-> None, end |-> end])
    BY <1>1, <1>4, RepliedEndsAreEnds DEF Stop
  <2>3. [kind |-> "cancelled", contract |-> c, payment |-> None, end |-> end] \in EventType
    BY DEF EventType, EventKinds
  <2> QED
    BY <2>1, <2>2, <2>3, EmitKeepsWIndInv
<1>5. ASSUME NEW p \in EventIds, Recharge(p) PROVE WIndInv'
  <2> DEFINE c == outbox[p].contract
  <2>1. p \in Emitted /\ outbox[p].payment = p /\ p # None
    BY <1>5, NoneIsNoEvent DEF Recharge, Payments
  <2>2. c # None /\ outbox[p] \in EventType
    BY <1>1, <2>1, ElementOfSeq DEF WIndInv, RecordsOK, Emitted
  <2>3. c \in ContractIds
    BY <2>2 DEF EventType
  <2>4. PICK end \in RepliedEnds(contracts'[c]) :
          /\ contracts' = [contracts EXCEPT ![c].end = now + PeriodLength]
          /\ Emit([kind |-> "succeeded", contract |-> c, payment |-> p, end |-> end])
    BY <1>5 DEF Recharge
  <2> HIDE DEF c
  <2>5. contracts' \in [ContractIds -> ContractType]
    BY <1>1, <2>3, <2>4, ContractKeepsType
  <2>6. end \in OptTime
    BY <2>3, <2>5, RepliedEndsAreEnds
  <2>7. [kind |-> "succeeded", contract |-> c, payment |-> p, end |-> end] \in EventType
    BY <2>3, <2>6 DEF EventType, EventKinds
  <2> QED
    BY <2>1, <2>2, <2>3, <2>4, <2>5, <2>7, NoneIsApart, EmitKeepsWIndInv
<1>6. CASE Notify
  <2>1. [kind |-> "other", contract |-> None, payment |-> None, end |-> Null] \in EventType
    BY DEF EventType, EventKinds, OptTime
  <2> QED
    BY <1>1, <1>6, <2>1, EmitKeepsWIndInv DEF Notify
<1> QED
  BY <1>3, <1>4, <1>5, <1>6

\* A delivery that begins: the event is on record already, or is put there without a row to
\* apply it to, or becomes the work of a handler that nobody else does.
LEMMA BeginKeepsWIndInv ==
    ASSUME WIndInv, NEW h \in Handlers, NEW e \in EventIds, Begin(h, e)
    PROVE  WIndInv'
<1>1. /\ UNCHANGED <<rows, contracts, now, pc, req, finals, target, seen, reply>>
      /\ UNCHANGED <<outbox, results, applied>>
      /\ e \in Emitted /\ ~Waits(e) /\ job[h] = None
  BY DEF Begin, vars, Deliverable
<1>2. IndInv'
  BY <1>1, ContractsKeepIndInv DEF WIndInv, IndInv, TypeOK, txVars
<1>3. ASSUME Answer(e) PROVE acked' \subseteq EventIds /\ acked' \subseteq acked \cup {e}
  BY <1>3 DEF Answer, WIndInv, WTypeOK
<1>4. CASE Seen(e) /\ Answer(e) /\ UNCHANGED <<outcome, job>>
  <2>1. WTypeOK'
    BY <1>1, <1>2, <1>3, <1>4 DEF WIndInv, WTypeOK, IndInv
  <2>2. AtMostOnce' /\ RecordsOK' /\ JobsOK'
    BY <1>1, <1>3, <1>4 DEF WIndInv, AtMostOnce, RecordsOK, JobsOK, Seen, Emitted
  <2> QED
    BY <1>2, <2>1, <2>2 DEF WIndInv
<1>5. CASE /\ ~Seen(e) /\ Rowless(outbox[e]) /\ Answer(e) /\ UNCHANGED job
           /\ outcome' = [outcome EXCEPT ![e] = OutcomeWithoutRow(outbox[e].kind)]
  <2>1. /\ OutcomeWithoutRow(outbox[e].kind) \in {"ignored", "dlq"}
        /\ OutcomeWithoutRow(outbox[e].kind) = "ignored" => outbox[e].kind = "cancelled"
    BY DEF OutcomeWithoutRow
  <2>2. outcome \in [EventIds -> Outcomes]
    BY DEF WIndInv, WTypeOK
  <2>3. WTypeOK'
    BY <1>1, <1>2, <1>3, <1>5, <2>1, <2>2 DEF WIndInv, WTypeOK, IndInv, Outcomes
  <2>4. outcome'[e] \in {"ignored", "dlq"} /\ \A d \in EventIds \ {e} : outcome'[d] = outcome[d]
    BY <1>5, <2>1, <2>2
  <2>5. AtMostOnce'
    BY <1>1, <1>3, <1>5, <2>4 DEF WIndInv, WTypeOK, AtMostOnce, Seen
  <2>6. RecordsOK'
    BY <1>1, <1>5, <2>1, <2>2, <2>4 DEF WIndInv, RecordsOK, Seen, Emitted
  <2>7. JobsOK'
    <3>1. \A g \in Handlers : job[g] # None => job[g].event \in EventIds /\ job[g].event # e
      BY <1>1, JobFacts DEF Waits
    <3> QED
      BY <1>1, <1>5, <2>4, <3>1 DEF WIndInv, JobsOK, Seen, Emitted
  <2> QED
    BY <1>2, <2>3, <2>5, <2>6, <2>7 DEF WIndInv
<1>6. ASSUME ~Seen(e), ~Rowless(outbox[e]), NEW i \in RowsFor(outbox[e].contract),
             job' = [job EXCEPT ![h] = [event |-> e, id |-> i, row |-> rows[i], at |-> now]],
             UNCHANGED <<outcome, acked>>
      PROVE  WIndInv'
  <2> DEFINE j == [event |-> e, id |-> i, row |-> rows[i], at |-> now]
  <2>1. i \in Requests /\ rows[i] # None /\ outbox[e].kind # "other"
    BY <1>6 DEF RowsFor, Rowless
  <2>2. rows[i] \in RowType /\ now \in Nat
    BY <2>1 DEF WIndInv, IndInv, TypeOK
  <2>3. j \in JobType /\ j.event = e /\ j.id = i
    BY <2>1, <2>2 DEF JobType
  <2> HIDE DEF j
  <2>4. job \in [Handlers -> JobType \cup {None}]
    BY DEF WIndInv, WTypeOK
  <2>5. job'[h] = j /\ \A g \in Handlers \ {h} : job'[g] = job[g]
    BY <1>6, <2>4 DEF j
  <2>6. WTypeOK'
    BY <1>1, <1>2, <1>6, <2>3, <2>4 DEF WIndInv, WTypeOK, IndInv, j
  <2>7. AtMostOnce' /\ RecordsOK'
    BY <1>1, <1>6 DEF WIndInv, AtMostOnce, RecordsOK, Seen, Emitted
  <2>8. JobsOK'
    BY <1>1, <1>6, <2>1, <2>3, <2>5 DEF WIndInv, JobsOK, Waits, Seen, Emitted
  <2> QED
    BY <1>2, <2>6, <2>7, <2>8 DEF WIndInv
<1> QED
  BY <1>4, <1>5, <1>6 DEF Begin

\* A delivery rolled back leaves its event undecided, and its handler free.
LEMMA AbandonKeepsWIndInv ==
    ASSUME WIndInv, NEW h \in Handlers, Abandon(h),
           UNCHANGED <<contracts, now, txVars, outbox>>
    PROVE  WIndInv'
<1>1. UNCHANGED <<rows, outbox, outcome, results, applied, acked>>
  BY DEF Abandon
<1>2. IndInv'
  BY <1>1, ContractsKeepIndInv DEF WIndInv, IndInv, TypeOK
<1>3. /\ job' \in [Handlers -> JobType \cup {None}]
      /\ job'[h] = None /\ \A g \in Handlers \ {h} : job'[g] = job[g]
  BY DEF Abandon, WIndInv, WTypeOK
<1>4. WTypeOK'
  BY <1>1, <1>2, <1>3 DEF WIndInv, WTypeOK, IndInv
<1>5. AtMostOnce' /\ RecordsOK'
  BY <1>1 DEF WIndInv, AtMostOnce, RecordsOK, Seen, Emitted
<1>6. JobsOK'
  BY <1>1, <1>3 DEF WIndInv, JobsOK, Seen, Emitted
<1> QED
  BY <1>2, <1>4, <1>5, <1>6 DEF WIndInv

\* The effects of a delivery.
Delivers(h) ==
    LET e == job[h].event
        i == job[h].id
        set == HandledRow(outbox[e], job[h].row, job[h].at)
    IN  /\ ~Collides(h)
        /\ rows' = [rows EXCEPT ![i] = Updated(rows[i], job[h].row, set, FALSE)]
        /\ outcome' = [outcome EXCEPT ![e] = "applied"]
        /\ results' = Upserted(outbox[e])
        /\ applied' = Append(applied, e)
        /\ job' = [job EXCEPT ![h] = None]
        /\ Answer(e)

\* What a delivery adds to the records: one event, once.
LEMMA DeliveryRecords ==
    ASSUME WIndInv, NEW h \in Handlers, job[h] # None, Delivers(h), UNCHANGED outbox
    PROVE  LET e == job[h].event
           IN  /\ AtMostOnce' /\ RecordsOK'
               /\ acked' \subseteq EventIds /\ applied' \in Seq(EventIds)
               /\ results' \in [EventIds -> {"none", "succeeded", "failed"}]
               /\ outcome' \in [EventIds -> Outcomes]
               /\ \A d \in EventIds \ {e} : outcome'[d] = outcome[d]
<1> DEFINE e == job[h].event
<1>1. /\ e \in EventIds /\ e \in Emitted /\ outcome[e] = "none"
      /\ outbox[e] \in EventType /\ outbox[e].kind \in {"succeeded", "failed", "cancelled"}
  BY JobFacts DEF Seen, EventType, EventKinds
<1> HIDE DEF e
<1>2. /\ outcome' = [outcome EXCEPT ![e] = "applied"] /\ applied' = Append(applied, e)
      /\ results' = Upserted(outbox[e]) /\ acked' \in {acked, acked \cup {e}}
  BY DEF Delivers, Answer, e
<1>3. /\ outcome \in [EventIds -> Outcomes] /\ applied \in Seq(EventIds)
      /\ results \in [EventIds -> {"none", "succeeded", "failed"}] /\ acked \subseteq EventIds
  BY DEF WIndInv, WTypeOK
<1>4. /\ outcome' \in [EventIds -> Outcomes] /\ outcome'[e] = "applied"
      /\ \A d \in EventIds \ {e} : outcome'[d] = outcome[d]
  BY <1>1, <1>2, <1>3 DEF Outcomes
<1>5. /\ applied' \in Seq(EventIds) /\ Len(applied) \in Nat /\ DOMAIN applied = 1..Len(applied)
      /\ DOMAIN applied' = 1..(Len(applied) + 1) /\ applied'[Len(applied) + 1] = e
      /\ \A n \in DOMAIN applied : applied'[n] = applied[n]
  BY <1>1, <1>2, <1>3, AppendProperties, LenProperties
<1>6. \A n \in DOMAIN applied : applied[n] # e /\ applied[n] \in EventIds
  BY <1>1, <1>3, <1>5, ElementOfSeq DEF WIndInv, RecordsOK
<1>7. \A d \in EventIds \ {e} :
        (\E n \in DOMAIN applied' : applied'[n] = d) <=> (\E n \in DOMAIN applied : applied[n] = d)
  BY <1>5
<1>8. /\ results' \in [EventIds -> {"none", "succeeded", "failed"}]
      /\ \A p \in EventIds : results[p] # "none" => results'[p] # "none"
      /\ outbox[e].kind # "cancelled" => results'[outbox[e].payment] # "none"
  <2>1. CASE outbox[e].kind = "cancelled"
    BY <1>2, <1>3, <2>1 DEF Upserted
  <2>2. CASE outbox[e].kind # "cancelled"
    <3>1. outbox[e].payment \in EventIds /\ outbox[e].kind \in {"succeeded", "failed"}
      BY <1>1, <2>2 DEF WIndInv, RecordsOK, EventType
    <3> QED
      BY <1>2, <1>3, <2>2, <3>1 DEF Upserted
  <2> QED
    BY <2>1, <2>2
<1>9. AtMostOnce'
  <2>1. \A m, n \in DOMAIN applied' : applied'[m] = applied'[n] => m = n
    BY <1>5, <1>6 DEF WIndInv, AtMostOnce
  <2>2. \A d \in acked' : outcome'[d] # "none"
    BY <1>2, <1>3, <1>4 DEF WIndInv, AtMostOnce, Seen
  <2> QED
    BY <2>1, <2>2 DEF AtMostOnce, Seen
<1>10. RecordsOK'
  <2>1. ASSUME NEW d \in EventIds
        PROVE  /\ Seen(d)' => d \in Emitted'
               /\ outcome'[d] = "applied" <=> \E n \in DOMAIN applied' : applied'[n] = d
               /\ outcome'[d] = "ignored" => outbox'[d].kind = "cancelled"
               /\ outcome'[d] = "applied" => outbox'[d].kind # "other"
               /\ outcome'[d] = "applied" /\ outbox'[d].kind # "cancelled"
                     => results'[outbox'[d].payment] # "none"
    <3>1. CASE d = e
      BY <1>1, <1>4, <1>5, <1>8, <3>1 DEF Emitted
    <3>2. CASE d # e
      <4>1. outcome'[d] = outcome[d]
        BY <1>4, <3>2
      <4>2. outcome[d] # "none" => d \in Emitted /\ outbox[d] \in EventType
        BY ElementOfSeq DEF WIndInv, WTypeOK, RecordsOK, Seen, Emitted
      <4>3. outcome[d] = "applied" /\ outbox[d].kind # "cancelled" =>
              results'[outbox[d].payment] # "none"
        <5>1. outcome[d] = "applied" /\ outbox[d].kind # "cancelled" =>
                outbox[d].payment \in EventIds /\ results[outbox[d].payment] # "none"
          BY <4>2 DEF WIndInv, RecordsOK, EventType, EventKinds
        <5> QED
          BY <1>8, <5>1
      <4> QED
        BY <1>7, <3>2, <4>1, <4>2, <4>3 DEF WIndInv, RecordsOK, Seen, Emitted
    <3> QED
      BY <3>1, <3>2
  <2> QED
    BY <2>1 DEF WIndInv, RecordsOK, Emitted
<1> QED
  BY <1>2, <1>3, <1>4, <1>5, <1>8, <1>9, <1>10 DEF e

\* A delivery ends with its effects or with none.
LEMMA FinishKeepsWIndInv ==
    ASSUME WIndInv, NEW h \in Handlers, Finish(h)
    PROVE  WIndInv'
<1> DEFINE e == job[h].event
           i == job[h].id
           set == HandledRow(outbox[e], job[h].row, job[h].at)
           row == Updated(rows[i], job[h].row, set, FALSE)
<1>1. job[h] # None /\ UNCHANGED <<contracts, now, txVars, outbox>>
  BY DEF Finish
<1>2. CASE Abandon(h)
  BY <1>1, <1>2, AbandonKeepsWIndInv
<1>3. CASE Delivers(h)
  <2>1. /\ e \in EventIds /\ i \in Requests /\ rows[i] # None
        /\ row \in RowType /\ row.user = rows[i].user
    BY <1>1, JobFacts
  <2>2. row.status \in IndexedStatuses /\ rows[i].status \notin IndexedStatuses
           => ~IndexBusy(row.user, None) /\ ~IndexConflict(rows, row.user, i)
    BY <1>3 DEF Finish, Delivers, Collides
  <2>3. rows' = [rows EXCEPT ![i] = row]
    BY <1>3 DEF Delivers
  <2> HIDE DEF row
  <2>4. IndInv'
    BY <1>1, <2>1, <2>2, <2>3, DeliveryKeepsIndInv DEF WIndInv
  <2>5. /\ job' \in [Handlers -> JobType \cup {None}]
        /\ job'[h] = None /\ \A g \in Handlers \ {h} : job'[g] = job[g]
    BY <1>3 DEF Delivers, WIndInv, WTypeOK
  <2>6. /\ AtMostOnce' /\ RecordsOK'
        /\ acked' \subseteq EventIds /\ applied' \in Seq(EventIds)
        /\ results' \in [EventIds -> {"none", "succeeded", "failed"}]
        /\ outcome' \in [EventIds -> Outcomes]
        /\ \A d \in EventIds \ {e} : outcome'[d] = outcome[d]
    BY <1>1, <1>3, DeliveryRecords
  <2>7. WTypeOK'
    BY <1>1, <2>4, <2>5, <2>6 DEF WIndInv, WTypeOK, IndInv
  <2>8. \A j \in Requests : rows[j] # None => rows'[j] # None
    BY <2>1, <2>3, NoneIsApart DEF WIndInv, IndInv, TypeOK
  <2>9. JobsOK'
    <3>1. \A g \in Handlers : job'[g] # None =>
            /\ g # h /\ job'[g] = job[g] /\ job[g] # None
            /\ job[g].event \in EventIds \ {e} /\ job[g].id \in Requests
      BY <1>1, <2>5, JobFacts DEF WIndInv, JobsOK
    <3> HIDE DEF e
    <3> QED
      BY <1>1, <2>6, <2>8, <3>1 DEF WIndInv, JobsOK, Seen, Emitted
  <2> QED
    BY <2>4, <2>6, <2>7, <2>9 DEF WIndInv
<1> QED
  BY <1>2, <1>3 DEF Finish, Delivers

LEMMA WInitEstablishesWIndInv == WInit => WIndInv
<1> SUFFICES ASSUME WInit PROVE WIndInv
  OBVIOUS
<1>1. IndInv
  BY InitEstablishesIndInv DEF WInit
<1>2. outbox = <<>> /\ applied = <<>> /\ Len(outbox) = 0 /\ DOMAIN applied = {}
  BY DEF WInit
<1>3. WTypeOK
  BY <1>1, <1>2, EmptySeq, WebhookAssumption DEF WInit, WTypeOK, IndInv, Outcomes
<1>4. AtMostOnce /\ RecordsOK /\ JobsOK
  BY <1>2 DEF WInit, AtMostOnce, RecordsOK, JobsOK, Seen, Emitted
<1> QED
  BY <1>1, <1>3, <1>4 DEF WIndInv

LEMMA WNextKeepsWIndInv == WIndInv /\ [WNext]_allVars => WIndInv'
<1> SUFFICES ASSUME WIndInv, [WNext]_allVars PROVE WIndInv'
  OBVIOUS
<1>1. ASSUME NEW h \in Handlers, HandlerFails(h) PROVE WIndInv'
  BY <1>1, AbandonKeepsWIndInv DEF HandlerFails
<1>2. CASE [Next]_vars /\ UNCHANGED whVars
  BY <1>2, ApiKeepsWIndInv
<1> QED
  BY <1>1, <1>2, FincodeKeepsWIndInv, BeginKeepsWIndInv, FinishKeepsWIndInv DEF WNext, allVars

-----------------------------------------------------------------------------
(* The theorems.                                                           *)

\* The inductive invariant holds of every behaviour of the receiver beside the API.
THEOREM WIndInvHolds == WSpec => []WIndInv
  BY WInitEstablishesWIndInv, WNextKeepsWIndInv, PTL DEF WSpec

\* Type correctness of the records and of the deliveries under way: handle writes nothing into
\* a row that its columns cannot hold.
THEOREM WTypeCorrect == WSpec => []WTypeOK
<1>1. WIndInv => WTypeOK
  BY DEF WIndInv
<1> QED
  BY <1>1, WIndInvHolds, PTL

\* The receiver of webhooks does not break the promise of the API: a user never has two
\* committed rows that are active or unpaid, whatever events arrive when.
THEOREM OneContractDespiteEvents == WSpec => []OneContract
<1>1. WIndInv => OneContract
  BY DEF WIndInv, IndInv
<1> QED
  BY <1>1, WIndInvHolds, PTL

\* webhook_events_seen makes a delivery idempotent: the effects of an event are committed once
\* at most, however often and however overlapped it is delivered, and what got a 2xx is on record.
THEOREM EffectsAtMostOnce == WSpec => []AtMostOnce
<1>1. WIndInv => AtMostOnce
  BY DEF WIndInv
<1> QED
  BY <1>1, WIndInvHolds, PTL

\* No event about a payment that was answered is missing from the billing history, unless it
\* is kept with a dlq_reason.
THEOREM PaymentsKept == WSpec => []NoPaymentLost
<1>1. WIndInv => NoPaymentLost
  <2> SUFFICES ASSUME WIndInv, NEW e \in acked, outbox[e].kind # "cancelled", outcome[e] # "dlq"
               PROVE  outbox[e].payment # None /\ results[outbox[e].payment] # "none"
    BY DEF NoPaymentLost
  <2>1. e \in EventIds /\ outcome[e] \in Outcomes /\ outcome[e] # "none"
    BY DEF WIndInv, WTypeOK, AtMostOnce, Seen
  <2>2. outcome[e] = "applied" /\ e \in Emitted
    BY <2>1 DEF WIndInv, RecordsOK, Outcomes, Seen
  <2>3. outbox[e] \in EventType
    BY <2>2, ElementOfSeq DEF WIndInv, WTypeOK, Emitted
  <2>4. outbox[e].kind # "other"
    BY <2>1, <2>2 DEF WIndInv, RecordsOK
  <2>5. outbox[e].kind \in {"succeeded", "failed"}
    BY <2>3, <2>4 DEF EventType, EventKinds
  <2> QED
    BY <2>1, <2>2, <2>5 DEF WIndInv, RecordsOK
<1> QED
  BY <1>1, WIndInvHolds, PTL

-----------------------------------------------------------------------------
(* The receiver implements the ledger.                                     *)

LEMMA InitImplementsLedger == WInit => Ledger!Init
  BY DEF WInit, Ledger!Init

LEMMA BeginImplementsLedger ==
    ASSUME WIndInv, NEW h \in Handlers, NEW e \in EventIds, Begin(h, e)
    PROVE  Ledger!Next \/ UNCHANGED Ledger!ledger
<1>1. UNCHANGED <<outbox, results, applied>> /\ e \in DOMAIN outbox
  BY LenProperties DEF Begin, Deliverable, Emitted, WIndInv, WTypeOK
<1>2. Answer(e) => Ledger!MayAnswer(e)
  BY DEF Answer, Ledger!MayAnswer
<1>3. CASE Seen(e) /\ Answer(e) /\ UNCHANGED <<outcome, job>>
  BY <1>1, <1>2, <1>3 DEF Ledger!Next, Ledger!Acknowledge, Seen
<1>4. CASE /\ ~Seen(e) /\ Answer(e) /\ UNCHANGED job
           /\ outcome' = [outcome EXCEPT ![e] = OutcomeWithoutRow(outbox[e].kind)]
  BY <1>1, <1>2, <1>4
     DEF Ledger!Next, Ledger!SetAside, Ledger!Undecided, Seen, OutcomeWithoutRow
<1>5. CASE UNCHANGED <<outcome, acked>>
  BY <1>1, <1>5 DEF Ledger!ledger
<1> QED
  BY <1>3, <1>4, <1>5 DEF Begin

LEMMA DeliveryImplementsLedger ==
    ASSUME WIndInv, NEW h \in Handlers, job[h] # None, Delivers(h), UNCHANGED outbox
    PROVE  Ledger!Next
<1> DEFINE e == job[h].event
<1>1. /\ e \in EventIds /\ e \in Emitted /\ outcome[e] = "none"
      /\ outbox[e] \in EventType /\ outbox[e].kind # "other"
  BY JobFacts DEF Seen
<1>2. outbox[e].kind \in {"succeeded", "failed", "cancelled"}
  BY <1>1 DEF EventType, EventKinds
<1>3. Ledger!Undecided(e)
  BY <1>1, LenProperties DEF Ledger!Undecided, Emitted, WIndInv, WTypeOK
<1>4. Ledger!MayAnswer(e)
  BY DEF Delivers, Answer, Ledger!MayAnswer
<1>5. results' = IF outbox[e].kind \in {"succeeded", "failed"}
                 THEN [results EXCEPT ![outbox[e].payment] = outbox[e].kind] ELSE results
  BY <1>2 DEF Delivers, Upserted
<1>6. outcome' = [outcome EXCEPT ![e] = "applied"] /\ applied' = Append(applied, e)
  BY DEF Delivers
<1> HIDE DEF e
<1>7. Ledger!Apply(e)
  BY <1>3, <1>4, <1>5, <1>6 DEF Ledger!Apply
<1> QED
  BY <1>1, <1>7 DEF Ledger!Next

\* What fincode emits is reported, and decides nothing.
LEMMA FincodeImplementsLedger ==
    ASSUME WIndInv,
           \/ \E c \in ContractIds : Charge(c) \/ Stop(c)
           \/ \E p \in EventIds : Recharge(p)
           \/ Notify
    PROVE  Ledger!Report
<1>1. PICK ev : Emit(ev)
  BY DEF Charge, Stop, Recharge, Notify
<1>2. outbox' = Append(outbox, ev)
  BY <1>1 DEF Emit
<1>3. outbox' \in Seq(EventType) /\ outbox \in Seq(EventType)
  BY FincodeKeepsWIndInv DEF WIndInv, WTypeOK
<1>4. Len(outbox') = Len(outbox) + 1 /\ SubSeq(outbox', 1, Len(outbox)) = outbox
  BY <1>2, <1>3
<1> QED
  BY <1>1, <1>4 DEF Ledger!Report, Emit

LEMMA WNextImplementsLedger == WIndInv /\ [WNext]_allVars => [Ledger!Next]_Ledger!ledger
<1> SUFFICES ASSUME WIndInv, [WNext]_allVars PROVE Ledger!Next \/ UNCHANGED Ledger!ledger
  OBVIOUS
<1>1. CASE UNCHANGED whVars
  BY <1>1 DEF whVars, Ledger!ledger
<1>2. ASSUME NEW h \in Handlers, Finish(h) PROVE Ledger!Next \/ UNCHANGED Ledger!ledger
  <2>1. CASE Abandon(h)
    BY <1>2, <2>1 DEF Finish, Abandon, Ledger!ledger
  <2>2. CASE Delivers(h)
    BY <1>2, <2>2, DeliveryImplementsLedger DEF Finish
  <2> QED
    BY <1>2, <2>1, <2>2 DEF Finish, Delivers
<1>3. ASSUME NEW h \in Handlers, HandlerFails(h) PROVE UNCHANGED Ledger!ledger
  BY <1>3 DEF HandlerFails, Abandon, Ledger!ledger
<1> QED
  BY <1>1, <1>2, <1>3, FincodeImplementsLedger, BeginImplementsLedger
     DEF WNext, allVars, Ledger!Next

\* Deliveries that overlap, fail, are repeated and lose their answers implement the ledger, in
\* which each event is decided once, in one step, and acknowledged only then.
THEOREM HandlerImplementsLedger == WSpec => ImplementsLedger
<1>1. WSpec => Ledger!Spec
  BY InitImplementsLedger, WNextImplementsLedger, WIndInvHolds, PTL DEF WSpec, Ledger!Spec
<1> QED
  BY <1>1 DEF ImplementsLedger

-----------------------------------------------------------------------------
(* One delivery at a time, for clients that only subscribe.                *)

OnlySubscribe == \A q \in ClientRequests : q.op = "subscribe"
OneHandler == \A g, h \in Handlers : g = h

\* Every request subscribes, and the period of the row a delivery has loaded is the period the
\* row still has.
CurrentInv ==
    /\ WIndInv
    /\ \A r \in Requests : req[r] # None => req[r].op = "subscribe"
    /\ \A h \in Handlers : job[h] # None => rows[job[h].id].end = job[h].row.end

\* A subscribe rewrites no period and no contract but those of its own row.
LEMMA SubscribeKeepsPeriods ==
    ASSUME OnlySubscribe, CurrentInv, [Next]_vars
    PROVE  /\ \A r \in Requests : req'[r] # None => req'[r].op = "subscribe"
           /\ \A i \in Requests : rows[i] # None => rows'[i].end = rows[i].end
<1>1. TypeOK /\ ControlOK /\ \A r \in Requests : req[r] # None => req[r].op = "subscribe"
  BY DEF CurrentInv, WIndInv, IndInv
<1>2. ASSUME NEW r \in Requests, NEW i \in Requests, rows[i] # None
      PROVE  View(r)[i].end = rows[i].end
  BY <1>1, <1>2 DEF View, TypeOK, RowType
<1>3. ASSUME NEW r \in Requests, Forget(r)
      PROVE  \A q \in Requests : req'[q] # None => req'[q].op = "subscribe"
  BY <1>1, <1>3 DEF Forget, TypeOK
<1> DEFINE Claim == /\ \A r \in Requests : req'[r] # None => req'[r].op = "subscribe"
                    /\ \A i \in Requests : rows[i] # None => rows'[i].end = rows[i].end
<1>4. ASSUME NEW r \in Requests, Rollback(r) PROVE Claim
  BY <1>3, <1>4 DEF Rollback
<1>5. ASSUME NEW r \in Requests, Commit(r, View(r)) PROVE Claim
  BY <1>2, <1>3, <1>5 DEF Commit
<1>6. ASSUME NEW r \in Requests, NEW row, Commit(r, [View(r) EXCEPT ![r] = row]), pc[r] # "done"
      PROVE  Claim
  <2>1. rows[r] = None
    BY <1>1, <1>6 DEF ControlOK
  <2>2. \A i \in Requests \ {r} : rows'[i] = View(r)[i]
    BY <1>1, <1>6, ViewIsTable DEF Commit
  <2> QED
    BY <1>2, <1>3, <1>6, <2>1, <2>2 DEF Commit
<1>7. ASSUME UNCHANGED <<rows, req>> PROVE Claim
  BY <1>1, <1>7
<1>8. ASSUME NEW r \in Requests, NEW q \in ClientRequests, Receive(r, q) PROVE Claim
  BY <1>1, <1>8 DEF Receive, OnlySubscribe, TypeOK
<1>9. ASSUME NEW r \in Requests, pc[r] \notin {"unsent", "done"}
      PROVE  req[r].op = "subscribe"
  BY <1>1, <1>9 DEF ControlOK
<1>10. ASSUME NEW r \in Requests, Serve(r) PROVE Claim
  <2>1. CASE Finalize(r) \/ Replay(r) \/ SubscribeGuard(r)
    BY <1>4, <1>5, <1>7, <2>1 DEF Finalize, Replay, SubscribeGuard, Goto
  <2>2. CASE Insert(r) \/ WriteSubscribe(r)
    BY <1>4, <1>6, <1>7, <2>2 DEF Insert, WriteSubscribe, Goto
  <2>3. CASE CreateContract(r) \/ CancelContract(r)
    BY <1>4, <1>7, <2>3 DEF CreateContract, CancelContract, ReplyTo
  <2>4. CASE ChangeGuard(r) \/ CancelGuard(r) \/ WriteChange(r) \/ WriteCancel(r)
    BY <1>9, <2>4 DEF ChangeGuard, CancelGuard, WriteChange, WriteCancel
  <2> QED
    BY <1>10, <2>1, <2>2, <2>3, <2>4 DEF Serve
<1>11. ASSUME NEW r \in Requests, Fail(r) PROVE Claim
  BY <1>4, <1>11 DEF Fail
<1> HIDE DEF Claim
<1>12. Claim
  <2>1. CASE Tick \/ UNCHANGED vars
    BY <1>7, <2>1 DEF Tick, txVars, vars
  <2> QED
    BY <1>8, <1>10, <1>11, <2>1 DEF Next
<1> QED
  BY <1>12 DEF Claim

\* No handled event shortens the period of the row.
LEMMA HandledRowExtends ==
    ASSUME NEW ev \in EventType, NEW row \in RowType, NEW at, ev.kind # "other"
    PROVE  /\ HandledRow(ev, row, at).end >= row.end
           /\ HandledRow(ev, row, at).end \in OptTime /\ row.end \in OptTime
<1>1. row.end \in OptTime /\ ev.end \in OptTime
  BY DEF EventType, RowType
<1>2. HandledRow(ev, row, at).end \in {row.end, ExtendedEnd(row.end, ev.end)}
  BY DEF HandledRow, Paid, Failed, Cancelled, EventType, EventKinds, RowType
<1>3. ExtendedEnd(row.end, ev.end) >= row.end
  BY <1>1 DEF ExtendedEnd, OptTime, Null
<1> QED
  BY <1>1, <1>2, <1>3, ExtendedEndIsEnd DEF OptTime, Null

\* What the commit of a delivery does to the periods, when it knows the one that is there.
LEMMA DeliveryExtends ==
    ASSUME CurrentInv, NEW h \in Handlers, job[h] # None, Delivers(h), NEW j \in Requests
    PROVE  rows[j] # None => rows'[j].end >= rows[j].end
<1> DEFINE e == job[h].event
           i == job[h].id
           set == HandledRow(outbox[e], job[h].row, job[h].at)
<1>1. /\ i \in Requests /\ rows[i] \in RowType /\ rows \in [Requests -> RowType \cup {None}]
      /\ outbox[e] \in EventType /\ outbox[e].kind # "other" /\ job[h].row \in RowType
      /\ rows[i].end = job[h].row.end
  BY JobFacts DEF CurrentInv, WIndInv, WTypeOK, IndInv, TypeOK, JobType
<1>2. set.end >= rows[i].end /\ set.end \in OptTime /\ rows[i].end \in OptTime
  BY <1>1, HandledRowExtends
<1>3. rows' = [rows EXCEPT ![i] = Updated(rows[i], job[h].row, set, FALSE)]
  BY DEF Delivers
<1> HIDE DEF set, i
<1>4. rows'[i].end = set.end
  BY <1>1, <1>3 DEF Updated
<1>5. rows[j].end >= rows[j].end \/ rows[j] = None
  BY <1>1 DEF RowType, OptTime, Null
<1> QED
  BY <1>1, <1>2, <1>3, <1>4, <1>5

LEMMA WNextKeepsCurrentInv ==
    ASSUME OnlySubscribe, OneHandler, CurrentInv, [WNext]_allVars
    PROVE  CurrentInv'
<1>1. WIndInv /\ WIndInv'
  BY WNextKeepsWIndInv DEF CurrentInv
<1>2. \A h \in Handlers : job[h] # None => job[h].id \in Requests /\ rows[job[h].id] # None
  BY <1>1, JobFacts
<1>3. job \in [Handlers -> JobType \cup {None}]
  BY <1>1 DEF WIndInv, WTypeOK
<1>4. CASE [Next]_vars /\ UNCHANGED whVars
  BY <1>1, <1>2, <1>4, SubscribeKeepsPeriods DEF CurrentInv, whVars
<1>5. CASE UNCHANGED <<rows, txVars, job>>
  BY <1>1, <1>5 DEF CurrentInv, txVars
<1>6. ASSUME NEW h \in Handlers, NEW e \in EventIds, Begin(h, e) PROVE CurrentInv'
  <2>1. UNCHANGED <<rows, req>>
    BY <1>6 DEF Begin, vars
  <2>2. CASE UNCHANGED job
    BY <1>1, <2>1, <2>2 DEF CurrentInv
  <2>3. ASSUME NEW i \in Requests,
               job' = [job EXCEPT ![h] = [event |-> e, id |-> i, row |-> rows[i], at |-> now]]
        PROVE  CurrentInv'
    <3>1. job'[h] = [event |-> e, id |-> i, row |-> rows[i], at |-> now]
      BY <1>3, <2>3
    <3>2. \A g \in Handlers : g = h
      BY DEF OneHandler
    <3> QED
      BY <1>1, <2>1, <3>1, <3>2 DEF CurrentInv
  <2> QED
    BY <1>6, <2>2, <2>3 DEF Begin, RowsFor
<1>7. ASSUME NEW h \in Handlers, Finish(h) \/ HandlerFails(h) PROVE CurrentInv'
  <2>1. UNCHANGED req /\ job' = [job EXCEPT ![h] = None]
    BY <1>7 DEF Finish, HandlerFails, Abandon, txVars
  <2>2. \A g \in Handlers : job'[g] = None
    BY <1>3, <2>1 DEF OneHandler
  <2> QED
    BY <1>1, <2>1, <2>2 DEF CurrentInv
<1>8. ASSUME \/ \E c \in ContractIds : Charge(c) \/ Stop(c)
             \/ \E p \in EventIds : Recharge(p)
             \/ Notify
      PROVE  UNCHANGED <<rows, txVars, job>>
  BY <1>8 DEF Charge, Stop, Recharge, Notify, Emit
<1> QED
  BY <1>4, <1>5, <1>6, <1>7, <1>8 DEF WNext, allVars

LEMMA StepKeepsPaidTime ==
    ASSUME OnlySubscribe, CurrentInv, [WNext]_allVars, NEW i \in Requests, rows[i] # None
    PROVE  rows'[i].end >= rows[i].end
<1>1. rows[i].end >= rows[i].end
  BY DEF CurrentInv, WIndInv, IndInv, TypeOK, RowType, OptTime, Null
<1>2. CASE [Next]_vars
  BY <1>1, <1>2, SubscribeKeepsPeriods
<1>3. CASE UNCHANGED rows
  BY <1>1, <1>3
<1>4. ASSUME NEW h \in Handlers, Finish(h) PROVE rows'[i].end >= rows[i].end
  BY <1>3, <1>4, DeliveryExtends DEF Finish, Abandon, Delivers
<1>5. ASSUME ~UNCHANGED rows
      PROVE  [Next]_vars \/ \E h \in Handlers : Finish(h)
  BY <1>5 DEF WNext, allVars, vars, Charge, Stop, Recharge, Notify, Emit, Begin, HandlerFails,
              Abandon
<1> QED
  BY <1>2, <1>3, <1>4, <1>5

\* Events in any order, late or repeated, never take paid time away from a row, when they are
\* delivered one at a time to clients that only subscribe: only_extend of
\* apply_current_period_end. The hypotheses are needed, because a delivery compares the period
\* with the row it loaded, which another delivery or a cancel may have extended since.
THEOREM EventsKeepPaidTime ==
    ASSUME OnlySubscribe, OneHandler
    PROVE  WSpec => PaidTimeKept
<1>1. WInit => CurrentInv
  BY WInitEstablishesWIndInv DEF WInit, Init, CurrentInv
<1>2. CurrentInv /\ [WNext]_allVars => CurrentInv'
  BY WNextKeepsCurrentInv
<1>3. CurrentInv /\ [WNext]_allVars =>
        [\A i \in Requests :
            rows[i] # None /\ rows[i].contract # None /\ rows'[i].contract = rows[i].contract
            => rows'[i].end >= rows[i].end]_allVars
  BY StepKeepsPaidTime
<1> QED
  BY <1>1, <1>2, <1>3, PTL DEF WSpec, PaidTimeKept

-----------------------------------------------------------------------------
(* One delivery at a time, for clients that change no plan: the account    *)
(* follows the payments.                                                   *)

NoPlanChange == \A q \in ClientRequests : q.op # "change"

\* An event about a payment is about the contract of the event that first reported it; only
\* these, and stops, name a contract.
PaymentsNamed ==
    \A e \in Emitted :
        /\ outbox[e].kind \in {"succeeded", "failed"} <=> outbox[e].payment # None
        /\ outbox[e].kind = "other" <=> outbox[e].contract = None
        /\ outbox[e].payment # None =>
              LET p == outbox[e].payment
              IN  p \in Emitted /\ outbox[p].payment = p /\ outbox[p].contract = outbox[e].contract

\* A row that a request is about to finalize has been cancelled.
FinalsCancelled == \A r \in Requests : \A i \in finals[r] : rows[i].cancelled

\* No two rows have one contract, and every event that took effect is about that of a row.
RowsNamed ==
    /\ \A i, j \in Requests :
          /\ rows[i] # None /\ rows[j] # None
          /\ rows[i].contract # None /\ rows[i].contract = rows[j].contract
          => i = j
    /\ \A n \in DOMAIN applied :
          \E i \in Requests : rows[i] # None /\ rows[i].contract = outbox[applied[n]].contract

\* A delivery knows its row as it is, unless that was cancelled meanwhile.
JobsCurrent ==
    \A h \in Handlers : job[h] # None =>
        /\ rows[job[h].id].contract = outbox[job[h].event].contract
        /\ rows[job[h].id] = job[h].row \/ rows[job[h].id].cancelled

\* The n-th event that took effect is the last one about payment p.
LastAbout(n, p) ==
    /\ outbox[applied[n]].payment = p
    /\ \A m \in DOMAIN applied : m > n => outbox[applied[m]].payment # p

Pays(e, c) == outbox[e].payment # None /\ outbox[e].contract = c

\* The same, about any payment of contract c.
LastPaying(n, c) ==
    Pays(applied[n], c) /\ \A m \in DOMAIN applied : m > n => ~Pays(applied[m], c)

\* The billing history has the status the last event about a payment gave it.
ResultsFollow ==
    \A n \in DOMAIN applied, p \in EventIds : LastAbout(n, p) => results[p] = outbox[applied[n]].kind

\* A contract that is not cancelled is unpaid when the last event about its payments was a failure.
StatusFollows ==
    \A n \in DOMAIN applied, i \in Requests :
        rows[i] # None /\ Live(i, rows) /\ ~rows[i].cancelled /\ LastPaying(n, rows[i].contract)
        => (rows[i].status = "unpaid" <=> outbox[applied[n]].kind = "failed")

PayInv ==
    /\ WIndInv
    /\ \A r \in Requests : req[r] # None => req[r].op # "change"
    /\ PaymentsNamed /\ FinalsCancelled /\ RowsNamed /\ JobsCurrent
    /\ ResultsFollow /\ StatusFollows

\* A nonempty set of numbers up to N has a largest one.
LEMMA HasMaximum ==
    ASSUME NEW N \in Nat, NEW S \in SUBSET (1..N), S # {}
    PROVE  \E x \in S : \A y \in S : y <= x
<1> DEFINE T == {N - x : x \in S}
<1>1. T \subseteq Nat
  OBVIOUS
<1>2. T # {}
  <2>1. PICK x \in S : TRUE
    OBVIOUS
  <2>2. N - x \in T
    BY <2>1
  <2> QED
    BY <2>2
<1>3. IsWellFoundedOn(OpToRel(<, Nat), Nat)
  BY NatLessThanWellFounded
<1> HIDE DEF T
<1>4. PICK t \in T : \A u \in T : <<u, t>> \notin OpToRel(<, Nat)
  BY <1>1, <1>2, <1>3, WFMin
<1>5. \A u \in T : ~(u < t)
  BY <1>1, <1>4 DEF OpToRel
<1>6. PICK x \in S : t = N - x
  BY DEF T
<1>7. \A y \in S : ~(N - y < N - x)
  BY <1>5, <1>6 DEF T
<1> QED
  BY <1>6, <1>7

\* What the API does to the table when no plan is changed: a row keeps its contract, a
\* finalized or cancelled one is flagged as cancelled, any other keeps all its columns, and a
\* row that is added brings a contract no row had.
LEMMA NoChangeKeepsRows ==
    ASSUME NoPlanChange, PayInv, [Next]_vars
    PROVE  /\ \A r \in Requests : req'[r] # None => req'[r].op # "change"
           /\ \A i \in Requests : rows[i] # None =>
                 /\ rows'[i] # None /\ rows'[i].contract = rows[i].contract
                 /\ rows'[i] = rows[i] \/ rows'[i].cancelled
           /\ \A i, j \in Requests :
                 /\ rows'[i] # None /\ rows'[j] # None /\ rows'[i].contract # None
                 /\ rows'[i].contract = rows'[j].contract
                 => i = j
<1>1. /\ TypeOK /\ ControlOK /\ FinalsCancelled
      /\ \A r \in Requests : req[r] # None => req[r].op # "change"
  BY DEF PayInv, WIndInv, IndInv
<1>2. \A i, j \in Requests :
          /\ rows[i] # None /\ rows[j] # None
          /\ rows[i].contract # None /\ rows[i].contract = rows[j].contract
          => i = j
  BY DEF PayInv, RowsNamed
<1> DEFINE Asked == \A r \in Requests : req'[r] # None => req'[r].op # "change"
           Kept(i) == /\ rows'[i] # None /\ rows'[i].contract = rows[i].contract
                      /\ rows'[i] = rows[i] \/ rows'[i].cancelled
           Apart == \A i, j \in Requests :
                       /\ rows'[i] # None /\ rows'[j] # None /\ rows'[i].contract # None
                       /\ rows'[i].contract = rows'[j].contract
                       => i = j
           Claim == Asked /\ (\A i \in Requests : rows[i] # None => Kept(i)) /\ Apart
<1>3. ASSUME NEW r \in Requests, Forget(r) PROVE Asked
  BY <1>1, <1>3 DEF Forget, TypeOK
<1>4. ASSUME NEW r \in Requests, NEW i \in Requests, rows[i] # None
      PROVE  /\ View(r)[i] # None /\ View(r)[i].contract = rows[i].contract
             /\ View(r)[i] = rows[i] \/ View(r)[i].cancelled
  <2>1. rows[i] \in RowType /\ View(r)[i] # None
    BY <1>1, <1>4, ViewIsTable DEF TypeOK
  <2>2. i \in finals[r] => rows[i].cancelled
    BY <1>1 DEF FinalsCancelled
  <2> QED
    BY <1>1, <2>1, <2>2 DEF View, RowType
<1>5. ASSUME UNCHANGED rows, Asked PROVE Claim
  BY <1>2, <1>5
<1>6. ASSUME NEW r \in Requests, Rollback(r) PROVE Claim
  BY <1>3, <1>5, <1>6 DEF Rollback
<1>7. ASSUME NEW r \in Requests, Commit(r, View(r)) PROVE Claim
  <2>1. \A i \in Requests : rows[i] = None => rows'[i] = None
    BY <1>1, <1>7, ViewIsTable DEF Commit
  <2>2. \A i \in Requests : rows[i] # None => Kept(i)
    BY <1>4, <1>7 DEF Commit
  <2> QED
    BY <1>2, <1>3, <1>7, <2>1, <2>2 DEF Commit
<1>8. ASSUME NEW r \in Requests, NEW row \in RowType, pc[r] # "done",
             Commit(r, [View(r) EXCEPT ![r] = row]),
             row.contract # None => ~ContractTaken(row.contract, r)
      PROVE  Claim
  <2>1. rows[r] = None
    BY <1>1, <1>8 DEF ControlOK
  <2>2. rows'[r] = row /\ \A i \in Requests \ {r} : rows'[i] = View(r)[i]
    BY <1>1, <1>8, ViewIsTable DEF Commit
  <2>3. \A i \in Requests : rows[i] # None => Kept(i)
    BY <1>4, <2>1, <2>2
  <2>4. \A i \in Requests \ {r} : rows'[i] # None => rows[i] # None
    BY <1>1, <2>2, ViewIsTable
  <2>5. ASSUME row.contract # None, NEW i \in Requests \ {r}, rows'[i] # None
        PROVE  rows'[i].contract # row.contract
    BY <1>8, <2>3, <2>4, <2>5 DEF ContractTaken
  <2>6. Apart
    BY <1>2, <2>2, <2>3, <2>4, <2>5
  <2> QED
    BY <1>3, <1>8, <2>3, <2>6 DEF Commit
<1>9. ASSUME NEW r \in Requests, WriteCancel(r) PROVE Claim
  <2> DEFINE i == target[r]
             row == Updated(rows[i], seen[r], CancelledRow(r), TRUE)
  <2>1. pc[r] = "write" /\ HasTarget(r) /\ req[r].op = "cancel"
    BY <1>1, <1>9 DEF ControlOK, WriteCancel
  <2>2. i \in Requests /\ rows[i] \in RowType /\ rows[i] # None /\ seen[r] \in RowType
    BY <1>1, <2>1 DEF HasTarget, TypeOK
  <2>3. CancelledRow(r) \in RowType
    BY <1>1, <2>1, SetRowsAreRows
  <2>4. /\ CancelledRow(r).cancelled = TRUE /\ CancelledRow(r).contract = seen[r].contract
    BY <2>2 DEF CancelledRow, RowType
  <2>5. row \in RowType
    BY <2>2, <2>3, UpdatedIsRow
  <2>6. row.cancelled /\ row.contract = rows[i].contract
    BY <2>4 DEF Updated
  <2>7. Rollback(r) \/ Commit(r, [View(r) EXCEPT ![i] = row])
    BY <1>9 DEF WriteCancel, Flush
  <2> HIDE DEF i, row
  <2>8. ASSUME Commit(r, [View(r) EXCEPT ![i] = row]) PROVE Claim
    <3>1. rows'[i] = row /\ \A j \in Requests \ {i} : rows'[j] = View(r)[j]
      BY <1>1, <2>2, <2>8, ViewIsTable DEF Commit
    <3>2. row # None
      BY <2>5, NoneIsApart
    <3>3. \A j \in Requests : rows[j] # None => Kept(j)
      BY <1>4, <2>6, <3>1, <3>2
    <3>4. \A j \in Requests : rows[j] = None => rows'[j] = None
      BY <1>1, <2>2, <3>1, ViewIsTable
    <3>5. Apart
      BY <1>2, <3>3, <3>4
    <3> QED
      BY <1>3, <2>8, <3>3, <3>5 DEF Commit
  <2> QED
    BY <1>6, <2>7, <2>8
<1>10. ASSUME NEW r \in Requests, NEW q \in ClientRequests, Receive(r, q) PROVE Claim
  BY <1>1, <1>5, <1>10 DEF Receive, NoPlanChange, TypeOK
<1>11. ASSUME NEW r \in Requests, Insert(r) PROVE Claim
  <2>1. req[r] # None /\ NewRow(r, None, Null) \in RowType
    BY <1>1, <1>11, NewRowIsRow DEF Insert, ControlOK, OptTime
  <2>2. NewRow(r, None, Null).contract = None
    BY DEF NewRow
  <2> QED
    BY <1>1, <1>5, <1>6, <1>8, <1>11, <2>1, <2>2 DEF Insert, Goto
<1>12. ASSUME NEW r \in Requests, WriteSubscribe(r) PROVE Claim
  <2> DEFINE row == NewRow(r, reply[r].id, AppliedEnd(Null, reply[r].end))
  <2>1. req[r] # None /\ reply[r] \in ReplyType /\ pc[r] = "write"
    BY <1>1, <1>12 DEF WriteSubscribe, ControlOK, TypeOK
  <2>2. reply[r].id \in ContractIds /\ AppliedEnd(Null, reply[r].end) \in OptTime
    BY <2>1 DEF ReplyType, AppliedEnd, OptTime
  <2>3. row \in RowType /\ row.contract = reply[r].id
    BY <1>1, <2>1, <2>2, NewRowIsRow DEF NewRow
  <2>4. Rollback(r) \/ (~ContractTaken(reply[r].id, r) /\ Commit(r, [View(r) EXCEPT ![r] = row]))
    BY <1>12 DEF WriteSubscribe
  <2> HIDE DEF row
  <2> QED
    BY <1>6, <1>8, <2>1, <2>3, <2>4
<1>13. ASSUME NEW r \in Requests, ChangeGuard(r) \/ CancelGuard(r) PROVE Claim
  BY <1>1, <1>5, <1>6, <1>7, <1>13 DEF ChangeGuard, CancelGuard, Load
<1>14. ASSUME NEW r \in Requests, CreateContract(r) \/ CancelContract(r) PROVE Claim
  BY <1>1, <1>5, <1>6, <1>14 DEF CreateContract, CancelContract, ReplyTo
<1>15. ASSUME NEW r \in Requests, Finalize(r) \/ Replay(r) \/ SubscribeGuard(r) \/ Fail(r)
       PROVE  Claim
  BY <1>1, <1>5, <1>6, <1>7, <1>15 DEF Finalize, Replay, SubscribeGuard, Fail, Goto
<1>16. ASSUME NEW r \in Requests, WriteChange(r) PROVE FALSE
  BY <1>1, <1>16 DEF WriteChange, ControlOK
<1>17. ASSUME Tick \/ UNCHANGED vars PROVE Claim
  BY <1>1, <1>5, <1>17 DEF Tick, txVars, vars
<1> HIDE DEF Claim
<1>18. ASSUME NEW r \in Requests, Serve(r) PROVE Claim
  BY <1>9, <1>11, <1>12, <1>13, <1>14, <1>15, <1>16, <1>18 DEF Serve
<1>19. Claim
  <2>1. CASE Tick \/ UNCHANGED vars
    BY <1>17, <2>1
  <2>2. ASSUME NEW r \in Requests, \/ \E q \in ClientRequests : Receive(r, q)
                                  \/ Serve(r) \/ Fail(r)
        PROVE  Claim
    BY <1>10, <1>15, <1>18, <2>2
  <2> QED
    BY <2>1, <2>2 DEF Next
<1> QED
  BY <1>19 DEF Claim

\* An event that took effect was emitted.
LEMMA AppliedIsEmitted ==
    ASSUME WIndInv, NEW n \in DOMAIN applied
    PROVE  /\ applied[n] \in EventIds /\ applied[n] \in Emitted
           /\ outcome[applied[n]] = "applied" /\ outbox[applied[n]] \in EventType
<1>1. applied[n] \in EventIds
  BY ElementOfSeq, LenProperties DEF WIndInv, WTypeOK
<1>2. outcome[applied[n]] = "applied" /\ applied[n] \in Emitted
  BY <1>1 DEF WIndInv, RecordsOK, Seen
<1>3. outbox[applied[n]] \in EventType
  BY <1>2, ElementOfSeq DEF WIndInv, WTypeOK, Emitted
<1> QED
  BY <1>1, <1>2, <1>3

\* A request finalizes rows that it found cancelled when it arrived.
LEMMA FinalsAreElapsed ==
    ASSUME TypeOK, [Next]_vars, NEW r \in Requests, NEW i \in finals'[r], i \notin finals[r]
    PROVE  i \in Requests /\ rows[i] # None /\ rows[i].cancelled /\ rows' = rows
<1> DEFINE Claim == i \in Requests /\ rows[i] # None /\ rows[i].cancelled /\ rows' = rows
<1>1. ASSUME NEW q \in Requests, Forget(q) PROVE FALSE
  BY <1>1 DEF Forget, TypeOK
<1>2. finals' # finals
  OBVIOUS
<1>3. ASSUME NEW q \in Requests, NEW p \in ClientRequests, Receive(q, p) PROVE Claim
  BY <1>3 DEF Receive, RowsOf, Elapsed, TypeOK
<1>4. ASSUME NEW q \in Requests, Serve(q) \/ Fail(q) PROVE FALSE
  <2>1. CASE Finalize(q) \/ Replay(q) \/ SubscribeGuard(q) \/ Insert(q) \/ WriteSubscribe(q) \/ Fail(q)
    BY <1>1, <1>2, <2>1
       DEF Finalize, Replay, SubscribeGuard, Insert, WriteSubscribe, Fail, Goto, Commit, Rollback
  <2>2. CASE CreateContract(q) \/ CancelContract(q) \/ ChangeGuard(q) \/ CancelGuard(q)
    BY <1>1, <1>2, <2>2
       DEF CreateContract, CancelContract, ChangeGuard, CancelGuard, ReplyTo, Load, Commit, Rollback
  <2>3. CASE WriteChange(q) \/ WriteCancel(q)
    BY <1>1, <2>3 DEF WriteChange, WriteCancel, Flush, Commit, Rollback
  <2> QED
    BY <1>4, <2>1, <2>2, <2>3 DEF Serve
<1> HIDE DEF Claim
<1>5. Claim
  <2>1. ~Tick /\ ~UNCHANGED vars
    BY <1>2 DEF Tick, txVars, vars
  <2> QED
    BY <1>3, <1>4, <2>1 DEF Next
<1> QED
  BY <1>5 DEF Claim

\* No request of the API makes the account forget what the payments said: a new row has had
\* no payment, and of the rows there were only those that are cancelled now are written.
LEMMA ApiKeepsPayInv ==
    ASSUME NoPlanChange, PayInv, [Next]_vars, UNCHANGED whVars
    PROVE  PayInv'
<1>1. WIndInv /\ WIndInv' /\ TypeOK /\ ControlOK
  BY ApiKeepsWIndInv DEF PayInv, WIndInv, IndInv
<1>2. UNCHANGED <<outbox, results, job, applied>>
  BY DEF whVars
<1>3. \A r \in Requests : req'[r] # None => req'[r].op # "change"
  BY NoChangeKeepsRows
<1>4. \A i \in Requests : rows[i] # None =>
        /\ rows'[i] # None /\ rows'[i].contract = rows[i].contract
        /\ rows'[i] = rows[i] \/ rows'[i].cancelled
  BY NoChangeKeepsRows
<1>5. \A i, j \in Requests :
        /\ rows'[i] # None /\ rows'[j] # None /\ rows'[i].contract # None
        /\ rows'[i].contract = rows'[j].contract
        => i = j
  BY NoChangeKeepsRows
<1>6. PaymentsNamed'
  BY <1>2 DEF PayInv, PaymentsNamed, Emitted
<1>7. FinalsCancelled'
  <2> SUFFICES ASSUME NEW r \in Requests, NEW i \in finals'[r] PROVE rows'[i].cancelled
    BY DEF FinalsCancelled
  <2>1. CASE i \notin finals[r]
    BY <1>1, <2>1, FinalsAreElapsed
  <2>2. CASE i \in finals[r]
    <3>1. i \in Requests /\ rows[i] # None /\ rows[i].cancelled
      BY <1>1, <2>2 DEF TypeOK, ControlOK, PayInv, FinalsCancelled
    <3> QED
      BY <1>4, <3>1
  <2> QED
    BY <2>1, <2>2
<1>8. ASSUME NEW n \in DOMAIN applied
      PROVE  \E i \in Requests : rows[i] # None /\ rows[i].contract = outbox[applied[n]].contract
  BY DEF PayInv, RowsNamed
<1>9. RowsNamed'
  BY <1>2, <1>4, <1>5, <1>8 DEF RowsNamed
<1>10. JobsCurrent'
  <2> SUFFICES ASSUME NEW h \in Handlers, job[h] # None
               PROVE  /\ rows'[job[h].id].contract = outbox[job[h].event].contract
                      /\ rows'[job[h].id] = job[h].row \/ rows'[job[h].id].cancelled
    BY <1>2 DEF JobsCurrent
  <2>1. job[h].id \in Requests /\ rows[job[h].id] # None
    BY <1>1, JobFacts
  <2>2. /\ rows[job[h].id].contract = outbox[job[h].event].contract
        /\ rows[job[h].id] = job[h].row \/ rows[job[h].id].cancelled
    BY DEF PayInv, JobsCurrent
  <2> QED
    BY <1>4, <2>1, <2>2
<1>11. ResultsFollow'
  BY <1>2 DEF PayInv, ResultsFollow, LastAbout
<1>12. StatusFollows'
  <2> SUFFICES ASSUME NEW n \in DOMAIN applied, NEW i \in Requests, rows'[i] # None,
                      Live(i, rows'), ~rows'[i].cancelled, LastPaying(n, rows'[i].contract)
               PROVE  rows'[i].status = "unpaid" <=> outbox[applied[n]].kind = "failed"
    BY <1>2 DEF StatusFollows, LastPaying, Pays, Live
  <2>1. rows[i] # None
    <3>1. /\ outbox[applied[n]].contract = rows'[i].contract
          /\ outbox[applied[n]].contract # None
      BY <1>1, AppliedIsEmitted DEF LastPaying, Pays, WIndInv, RecordsOK
    <3>2. PICK j \in Requests :
            rows[j] # None /\ rows[j].contract = outbox[applied[n]].contract
      BY <1>8
    <3> QED
      BY <1>4, <1>5, <3>1, <3>2
  <2>2. rows'[i] = rows[i]
    BY <1>4, <2>1
  <2> QED
    BY <2>1, <2>2 DEF PayInv, StatusFollows, Live
<1> QED
  BY <1>1, <1>3, <1>6, <1>7, <1>9, <1>10, <1>11, <1>12 DEF PayInv

\* An event more changes nothing of the account; it names its payment as the others do.
LEMMA EmitKeepsPayInv ==
    ASSUME PayInv, WIndInv', NEW ev, Emit(ev), PaymentsNamed'
    PROVE  PayInv'
<1>1. UNCHANGED <<rows, req, finals, results, job, applied>> /\ WIndInv
  BY DEF PayInv, Emit, txVars
<1>2. \A e \in Emitted : outbox'[e] = outbox[e]
  BY AppendProperties DEF PayInv, WIndInv, WTypeOK, Emit, Emitted
<1>3. \A n \in DOMAIN applied : outbox'[applied[n]] = outbox[applied[n]]
  BY <1>1, <1>2, AppliedIsEmitted
<1>4. \A h \in Handlers : job[h] # None => outbox'[job[h].event] = outbox[job[h].event]
  BY <1>1, <1>2 DEF WIndInv, JobsOK
<1>5. FinalsCancelled' /\ RowsNamed'
  BY <1>1, <1>3 DEF PayInv, FinalsCancelled, RowsNamed
<1>6. JobsCurrent'
  BY <1>1, <1>4 DEF PayInv, JobsCurrent
<1>7. ResultsFollow'
  BY <1>1, <1>3 DEF PayInv, ResultsFollow, LastAbout
<1>8. StatusFollows'
  BY <1>1, <1>3 DEF PayInv, StatusFollows, LastPaying, Pays, Live
<1> QED
  BY <1>1, <1>5, <1>6, <1>7, <1>8 DEF PayInv

\* The name of the payment in a new event: its own, or that of the one that failed.
LEMMA NamedPayments ==
    ASSUME PayInv, NEW ev, Emit(ev),
           ev.kind \in {"succeeded", "failed"} <=> ev.payment # None,
           ev.kind = "other" <=> ev.contract = None,
           ev.payment # None =>
              \/ ev.payment = Len(outbox) + 1
              \/ ev.payment \in Payments /\ ev.contract = outbox[ev.payment].contract
    PROVE  PaymentsNamed'
<1>1. /\ outbox' = Append(outbox, ev) /\ outbox \in Seq(EventType)
      /\ Len(outbox) \in Nat
  BY LenProperties DEF PayInv, Emit, WIndInv, WTypeOK
<1>2. /\ Emitted' = Emitted \cup {Len(outbox) + 1} /\ outbox'[Len(outbox) + 1] = ev
      /\ \A e \in Emitted : outbox'[e] = outbox[e]
  BY <1>1, AppendProperties DEF Emitted
<1>3. ASSUME NEW e \in Emitted
      PROVE  /\ outbox'[e].kind \in {"succeeded", "failed"} <=> outbox'[e].payment # None
             /\ outbox'[e].kind = "other" <=> outbox'[e].contract = None
             /\ outbox'[e].payment # None =>
                   /\ outbox'[e].payment \in Emitted'
                   /\ outbox'[outbox'[e].payment].payment = outbox'[e].payment
                   /\ outbox'[outbox'[e].payment].contract = outbox'[e].contract
  BY <1>2 DEF PayInv, PaymentsNamed
<1>4. ev.payment # None =>
         /\ ev.payment \in Emitted'
         /\ outbox'[ev.payment].payment = ev.payment
         /\ outbox'[ev.payment].contract = ev.contract
  BY <1>2 DEF Payments
<1> QED
  BY <1>2, <1>3, <1>4 DEF PaymentsNamed

LEMMA FincodeKeepsPayInv ==
    ASSUME PayInv,
           \/ \E c \in ContractIds : Charge(c) \/ Stop(c)
           \/ \E p \in EventIds : Recharge(p)
           \/ Notify
    PROVE  PayInv'
<1>1. WIndInv /\ WIndInv'
  BY FincodeKeepsWIndInv DEF PayInv
<1>2. ASSUME NEW ev, Emit(ev) PROVE Len(outbox) + 1 \in EventIds /\ Len(outbox) + 1 # None
  <2>1. Len(outbox) \in Nat /\ Len(outbox) < MaxEvents
    BY <1>1, <1>2, LenProperties DEF WIndInv, WTypeOK, Emit
  <2>2. Len(outbox) + 1 \in EventIds
    BY <2>1, WebhookAssumption DEF EventIds
  <2> QED
    BY <2>2, NoneIsNoEvent
<1>3. ASSUME NEW ev, Emit(ev), PaymentsNamed' PROVE PayInv'
  BY <1>1, <1>3, EmitKeepsPayInv
<1>4. ASSUME NEW c \in ContractIds, Charge(c) PROVE PayInv'
  <2>1. PICK ev :
          /\ Emit(ev) /\ ev.kind \in {"succeeded", "failed"} /\ ev.contract = c
          /\ ev.payment = Len(outbox) + 1
    <3>1. PICK end : \E kind \in {"succeeded", "failed"} :
            Emit([kind |-> kind, contract |-> c, payment |-> Len(outbox) + 1, end |-> end])
      BY <1>4 DEF Charge
    <3> QED
      BY <3>1
  <2>2. ev.payment # None /\ ev.contract # None /\ ev.kind # "other"
    BY <1>2, <2>1, NoneIsApart
  <2>3. PaymentsNamed'
    BY <2>1, <2>2, NamedPayments
  <2> QED
    BY <1>3, <2>1, <2>3
<1>5. ASSUME NEW c \in ContractIds, Stop(c) PROVE PayInv'
  <2>1. PICK end : Emit([kind |-> "cancelled", contract |-> c, payment |-> None, end |-> end])
    BY <1>5 DEF Stop
  <2>2. PaymentsNamed'
    BY <2>1, NamedPayments, NoneIsApart
  <2> QED
    BY <1>3, <2>1, <2>2
<1>6. ASSUME NEW p \in EventIds, Recharge(p) PROVE PayInv'
  <2>1. PICK c, end :
          /\ c = outbox[p].contract
          /\ Emit([kind |-> "succeeded", contract |-> c, payment |-> p, end |-> end])
    BY <1>6 DEF Recharge
  <2>2. p \in Payments /\ p # None
    BY <1>6, NoneIsNoEvent DEF Recharge
  <2>3. c # None
    BY <1>1, <2>1, <2>2 DEF Payments, WIndInv, RecordsOK
  <2>4. PaymentsNamed'
    BY <2>1, <2>2, <2>3, NamedPayments
  <2> QED
    BY <1>3, <2>1, <2>4
<1>7. CASE Notify
  <2>1. Emit([kind |-> "other", contract |-> None, payment |-> None, end |-> Null])
    BY <1>7 DEF Notify
  <2>2. PaymentsNamed'
    BY <2>1, NamedPayments
  <2> QED
    BY <1>3, <2>1, <2>2
<1> QED
  BY <1>4, <1>5, <1>6, <1>7

\* A delivery that begins loads the row of the contract as it is.
LEMMA BeginKeepsPayInv ==
    ASSUME PayInv, NEW h \in Handlers, NEW e \in EventIds, Begin(h, e)
    PROVE  PayInv'
<1>1. WIndInv /\ WIndInv'
  BY BeginKeepsWIndInv DEF PayInv
<1>2. UNCHANGED <<rows, req, finals, outbox, results, applied>>
  BY DEF Begin, vars
<1>3. /\ \A r \in Requests : req'[r] # None => req'[r].op # "change"
      /\ PaymentsNamed' /\ FinalsCancelled' /\ RowsNamed' /\ ResultsFollow' /\ StatusFollows'
  BY <1>2 DEF PayInv, PaymentsNamed, Emitted, FinalsCancelled, RowsNamed, ResultsFollow,
              LastAbout, StatusFollows, LastPaying, Pays, Live
<1>4. JobsCurrent'
  <2>1. CASE UNCHANGED job
    BY <1>2, <2>1 DEF PayInv, JobsCurrent
  <2>2. ASSUME NEW i \in RowsFor(outbox[e].contract),
               job' = [job EXCEPT ![h] = [event |-> e, id |-> i, row |-> rows[i], at |-> now]]
        PROVE  JobsCurrent'
    <3>1. rows[i].contract = outbox[e].contract /\ job \in [Handlers -> JobType \cup {None}]
      BY <1>1 DEF RowsFor, WIndInv, WTypeOK
    <3>2. /\ job'[h].event = e /\ job'[h].id = i /\ job'[h].row = rows[i]
          /\ \A g \in Handlers \ {h} : job'[g] = job[g]
      BY <2>2, <3>1
    <3> QED
      BY <1>2, <3>1, <3>2 DEF PayInv, JobsCurrent
  <2> QED
    BY <2>1, <2>2 DEF Begin
<1> QED
  BY <1>1, <1>3, <1>4 DEF PayInv

\* A delivery that is rolled back leaves the account as it is.
LEMMA AbandonKeepsPayInv ==
    ASSUME PayInv, NEW h \in Handlers, Abandon(h), UNCHANGED <<contracts, now, txVars, outbox>>
    PROVE  PayInv'
<1>1. WIndInv /\ WIndInv'
  BY AbandonKeepsWIndInv DEF PayInv
<1>2. UNCHANGED <<rows, req, finals, outbox, results, applied>>
  BY DEF Abandon, txVars
<1>3. /\ \A r \in Requests : req'[r] # None => req'[r].op # "change"
      /\ PaymentsNamed' /\ FinalsCancelled' /\ RowsNamed' /\ ResultsFollow' /\ StatusFollows'
  BY <1>2 DEF PayInv, PaymentsNamed, Emitted, FinalsCancelled, RowsNamed, ResultsFollow,
              LastAbout, StatusFollows, LastPaying, Pays, Live
<1>4. job'[h] = None /\ \A g \in Handlers \ {h} : job'[g] = job[g]
  BY <1>1 DEF Abandon, WIndInv, WTypeOK
<1>5. JobsCurrent'
  BY <1>2, <1>4 DEF PayInv, JobsCurrent
<1> QED
  BY <1>1, <1>3, <1>5 DEF PayInv

\* The handler leaves the contract of a row, and takes the flag of a cancelled row from none; a
\* row whose contract was stopped is flagged or cancelled.
LEMMA HandledFlags ==
    ASSUME NEW ev \in EventType, ev.kind # "other", NEW loaded \in RowType, NEW at
    PROVE  /\ HandledRow(ev, loaded, at).contract = loaded.contract
           /\ HandledRow(ev, loaded, at).cancelled = TRUE
              \/ HandledRow(ev, loaded, at).cancelled = loaded.cancelled
           /\ ev.kind = "cancelled" => \/ HandledRow(ev, loaded, at).cancelled = TRUE
                                       \/ HandledRow(ev, loaded, at).status = "cancelled"
<1>1. ev.kind \in {"succeeded", "failed", "cancelled"} /\ loaded.cancelled \in BOOLEAN
  BY DEF EventType, EventKinds, RowType
<1> HIDE DEF ExtendedEnd, HasFuturePeriod
<1>2. CASE ev.kind = "succeeded"
  BY <1>2 DEF HandledRow, Paid, RowType
<1>3. CASE ev.kind = "failed"
  BY <1>3 DEF HandledRow, Failed, RowType
<1>4. CASE ev.kind = "cancelled"
  BY <1>1, <1>4 DEF HandledRow, Cancelled, RowType
<1> QED
  BY <1>1, <1>2, <1>3, <1>4

\* The status a payment gives a row in use.
LEMMA PaidStatus ==
    ASSUME NEW ev \in EventType, NEW loaded \in RowType, NEW at,
           ev.kind \in {"succeeded", "failed"},
           HandledRow(ev, loaded, at).status \in LiveStatuses
    PROVE  HandledRow(ev, loaded, at).status = "unpaid" <=> ev.kind = "failed"
<1>1. CASE ev.kind = "succeeded"
  BY <1>1 DEF HandledRow, Paid, RowType
<1>2. CASE ev.kind = "failed"
  BY <1>2 DEF HandledRow, Failed, RowType, LiveStatuses
<1> QED
  BY <1>1, <1>2

\* The commit of a delivery takes the account to what its event says.
LEMMA DeliveryKeepsPayInv ==
    ASSUME OneHandler, PayInv, WIndInv', NEW h \in Handlers, job[h] # None, Delivers(h),
           UNCHANGED <<txVars, outbox>>
    PROVE  PayInv'
<1>1. PICK e, i, loaded, at, set, row :
        /\ e = job[h].event /\ e \in EventIds
        /\ i = job[h].id /\ i \in Requests
        /\ loaded = job[h].row /\ at = job[h].at /\ set = HandledRow(outbox[e], loaded, at)
        /\ row = Updated(rows[i], loaded, set, FALSE)
  BY JobFacts DEF PayInv
<1>2. /\ e \in Emitted /\ outbox[e] \in EventType
      /\ outbox[e].kind \in {"succeeded", "failed", "cancelled"}
      /\ rows[i] \in RowType /\ rows[i] # None /\ row # None
  BY <1>1, JobFacts, NoneIsApart DEF PayInv, EventType, EventKinds
<1>3. /\ rows' = [rows EXCEPT ![i] = row] /\ rows \in [Requests -> RowType \cup {None}]
      /\ applied' = Append(applied, e) /\ applied \in Seq(EventIds)
      /\ results' = Upserted(outbox[e])
      /\ results \in [EventIds -> {"none", "succeeded", "failed"}]
      /\ job' = [job EXCEPT ![h] = None] /\ job \in [Handlers -> JobType \cup {None}]
  BY <1>1 DEF Delivers, PayInv, WIndInv, WTypeOK, IndInv, TypeOK
<1>4. rows'[i] = row /\ \A j \in Requests \ {i} : rows'[j] = rows[j]
  BY <1>1, <1>3
<1> DEFINE L == Len(applied)
<1>5. /\ L \in Nat /\ DOMAIN applied = 1..L /\ DOMAIN applied' = 1..(L + 1)
      /\ applied'[L + 1] = e /\ \A n \in 1..L : applied'[n] = applied[n]
  BY <1>3, AppendProperties, LenProperties
<1> HIDE DEF L
<1>6. UNCHANGED <<req, finals, outbox>>
  BY DEF txVars
<1>7. /\ rows[i].contract = outbox[e].contract
      /\ rows[i] = loaded \/ rows[i].cancelled
  BY <1>1 DEF PayInv, JobsCurrent
<1>8. loaded \in RowType
  BY <1>1, <1>3 DEF JobType
<1>9. /\ row.contract = rows[i].contract
      /\ rows[i].cancelled => row.cancelled
      /\ rows[i] = loaded => row.status = set.status /\ row.cancelled = set.cancelled
      /\ outbox[e].kind = "cancelled" => set.cancelled \/ set.status = "cancelled"
  <2>1. outbox[e].kind # "other"
    BY <1>2
  <2>2. /\ set.contract = loaded.contract
        /\ set.cancelled = TRUE \/ set.cancelled = loaded.cancelled
        /\ outbox[e].kind = "cancelled" => set.cancelled = TRUE \/ set.status = "cancelled"
    <3>1. set = HandledRow(outbox[e], loaded, at)
      BY <1>1
    <3> QED
      BY <1>2, <1>8, <2>1, <3>1, HandledFlags
  <2> QED
    BY <1>1, <2>2 DEF Updated
<1>10. /\ outbox[e].kind \in {"succeeded", "failed"} <=> outbox[e].payment # None
       /\ outbox[e].contract # None
  BY <1>2 DEF PayInv, PaymentsNamed
<1>11. \A j \in Requests : rows'[j] # None => rows[j] # None /\ rows'[j].contract = rows[j].contract
  BY <1>2, <1>4, <1>9
<1>12. (\A r \in Requests : req'[r] # None => req'[r].op # "change") /\ PaymentsNamed'
  BY <1>6 DEF PayInv, PaymentsNamed, Emitted
<1>13. FinalsCancelled'
  <2>1. \A r \in Requests : finals[r] \subseteq Requests
    BY DEF PayInv, WIndInv, IndInv, TypeOK
  <2>2. \A r \in Requests : \A j \in finals[r] : rows[j].cancelled
    BY DEF PayInv, FinalsCancelled
  <2> QED
    BY <1>4, <1>6, <1>9, <2>1, <2>2 DEF FinalsCancelled
<1>14. RowsNamed'
  <2>1. \A j, k \in Requests :
          /\ rows'[j] # None /\ rows'[k] # None
          /\ rows'[j].contract # None /\ rows'[j].contract = rows'[k].contract
          => j = k
    BY <1>11 DEF PayInv, RowsNamed
  <2>2. ASSUME NEW n \in 1..(L + 1)
        PROVE  \E j \in Requests : rows'[j] # None /\ rows'[j].contract = outbox[applied'[n]].contract
    <3>1. CASE n = L + 1
      BY <1>1, <1>2, <1>4, <1>5, <1>6, <1>7, <1>9, <3>1
    <3>2. CASE n # L + 1
      <4>1. n \in 1..L
        BY <1>5, <3>2
      <4>2. PICK j \in Requests : rows[j] # None /\ rows[j].contract = outbox[applied[n]].contract
        BY <1>5, <4>1 DEF PayInv, RowsNamed
      <4>3. rows'[j] # None /\ rows'[j].contract = rows[j].contract
        BY <1>2, <1>4, <1>9, <4>2
      <4> QED
        BY <1>5, <4>1, <4>2, <4>3
    <3> QED
      BY <3>1, <3>2
  <2> QED
    BY <1>5, <1>6, <2>1, <2>2 DEF RowsNamed
<1>15. JobsCurrent'
  <2>1. \A g \in Handlers : job'[g] = None
    BY <1>3 DEF OneHandler
  <2> QED
    BY <2>1 DEF JobsCurrent
<1>16. ResultsFollow'
  <2> SUFFICES ASSUME NEW n \in DOMAIN applied', NEW p \in EventIds,
                      outbox[applied'[n]].payment = p,
                      \A m \in DOMAIN applied' : m > n => outbox[applied'[m]].payment # p
               PROVE  results'[p] = outbox[applied'[n]].kind
    BY <1>6 DEF ResultsFollow, LastAbout
  <2>1. CASE n = L + 1
    <3>1. applied'[n] = e /\ p # None
      BY <1>5, <2>1, NoneIsNoEvent
    <3>2. outbox[e].kind \in {"succeeded", "failed"}
      BY <1>10, <3>1
    <3> QED
      BY <1>3, <3>1, <3>2 DEF Upserted
  <2>2. CASE n # L + 1
    <3>1. n \in 1..L /\ L + 1 > n
      BY <1>5, <2>2
    <3>2. outbox[e].payment # p
      BY <1>5, <3>1
    <3>3. LastAbout(n, p)
      <4>1. \A m \in 1..L : m \in 1..(L + 1)
        BY <1>5
      <4> QED
        BY <1>5, <3>1, <4>1 DEF LastAbout
    <3>4. results[p] = outbox[applied[n]].kind
      BY <1>5, <3>1, <3>3 DEF PayInv, ResultsFollow
    <3> QED
      BY <1>3, <1>5, <3>1, <3>2, <3>4 DEF Upserted
  <2> QED
    BY <2>1, <2>2
<1>17. StatusFollows'
  <2> SUFFICES ASSUME NEW n \in DOMAIN applied', NEW j \in Requests, rows'[j] # None,
                      Live(j, rows'), ~rows'[j].cancelled, Pays(applied'[n], rows'[j].contract),
                      \A m \in DOMAIN applied' : m > n => ~Pays(applied'[m], rows'[j].contract)
               PROVE  rows'[j].status = "unpaid" <=> outbox[applied'[n]].kind = "failed"
    BY <1>6 DEF StatusFollows, LastPaying, Pays, Live
  <2>1. CASE j = i
    <3>1. /\ rows[i] = loaded
          /\ row.status = set.status /\ row.status \in LiveStatuses
          /\ ~set.cancelled
      BY <1>4, <1>7, <1>9, <2>1 DEF Live
    <3>2. outbox[e].kind \in {"succeeded", "failed"}
      BY <1>2, <1>9, <3>1 DEF LiveStatuses
    <3>3. row.status = "unpaid" <=> outbox[e].kind = "failed"
      <4>1. set = HandledRow(outbox[e], loaded, at)
        BY <1>1
      <4> QED
        BY <1>2, <1>8, <3>1, <3>2, <4>1, PaidStatus
    <3>4. Pays(e, rows'[j].contract)
      BY <1>4, <1>7, <1>9, <1>10, <2>1, <3>2 DEF Pays
    <3>5. n = L + 1
      BY <1>5, <3>4
    <3> QED
      BY <1>4, <1>5, <2>1, <3>3, <3>5
  <2>2. CASE j # i
    <3>1. rows'[j] = rows[j] /\ rows[j] # None
      BY <1>4, <2>2
    <3>2. ~Pays(e, rows[j].contract)
      BY <1>1, <1>2, <1>7, <1>10, <2>2, <3>1 DEF Pays, PayInv, RowsNamed
    <3>3. n \in 1..L
      BY <1>5, <3>1, <3>2
    <3>4. LastPaying(n, rows[j].contract)
      <4>1. \A m \in 1..L : m \in 1..(L + 1)
        BY <1>5
      <4> QED
        BY <1>5, <3>1, <3>3, <4>1 DEF LastPaying
    <3> QED
      BY <1>5, <3>1, <3>3, <3>4 DEF PayInv, StatusFollows, Live
  <2> QED
    BY <2>1, <2>2
<1> QED
  BY <1>12, <1>13, <1>14, <1>15, <1>16, <1>17 DEF PayInv

LEMMA WNextKeepsPayInv ==
    ASSUME NoPlanChange, OneHandler, PayInv, [WNext]_allVars
    PROVE  PayInv'
<1>1. WIndInv /\ WIndInv'
  BY WNextKeepsWIndInv DEF PayInv
<1>2. ASSUME NEW h \in Handlers, Finish(h) \/ HandlerFails(h) PROVE PayInv'
  <2>1. UNCHANGED <<contracts, now, txVars, outbox>> /\ job[h] # None
    BY <1>2 DEF Finish, HandlerFails
  <2>2. Abandon(h) \/ Delivers(h)
    BY <1>2 DEF Finish, HandlerFails, Delivers
  <2> QED
    BY <1>1, <2>1, <2>2, AbandonKeepsPayInv, DeliveryKeepsPayInv
<1>3. CASE [Next]_vars /\ UNCHANGED whVars
  BY <1>3, ApiKeepsPayInv
<1> QED
  BY <1>2, <1>3, FincodeKeepsPayInv, BeginKeepsPayInv DEF WNext, allVars

\* Events are numbered in the order fincode emits them.
LEMMA EmittedAreEvents ==
    ASSUME WIndInv
    PROVE  Emitted \subseteq EventIds /\ EventIds \subseteq Nat
<1>1. Len(outbox) \in Nat /\ Len(outbox) <= MaxEvents /\ MaxEvents \in Nat
  BY LenProperties, WebhookAssumption DEF WIndInv, WTypeOK
<1>2. \A e \in 1..Len(outbox) : e \in 1..MaxEvents
  BY <1>1
<1> QED
  BY <1>2 DEF Emitted, EventIds

\* The CHOOSE of LastOf chooses: an event about payment p is the last one.
LEMMA LastOfIsLast ==
    ASSUME WIndInv, NEW p \in Payments
    PROVE  /\ LastOf(p) \in Emitted /\ outbox[LastOf(p)].payment = p
           /\ \A d \in Emitted : outbox[d].payment = p => d <= LastOf(p)
<1> DEFINE S == {e \in Emitted : outbox[e].payment = p}
<1>1. Len(outbox) \in Nat /\ S \in SUBSET (1..Len(outbox)) /\ p \in S
  BY LenProperties DEF WIndInv, WTypeOK, Emitted, Payments
<1>2. S # {}
  BY <1>1
<1> HIDE DEF S
<1>3. PICK x \in S : \A y \in S : y <= x
  BY <1>1, <1>2, HasMaximum
<1>4. \E e \in Emitted :
         outbox[e].payment = p /\ \A d \in Emitted : outbox[d].payment = p => d <= e
  BY <1>3 DEF S
<1> QED
  BY <1>4 DEF LastOf

\* So does the CHOOSE of the payment with the last event of all.
LEMMA LastPaymentIsLast ==
    ASSUME WIndInv, NEW ps \in SUBSET Payments, ps # {},
           NEW last, last = CHOOSE e \in ps : \A d \in ps : LastOf(d) <= LastOf(e)
    PROVE  last \in ps /\ \A d \in ps : LastOf(d) <= LastOf(last)
<1> DEFINE S == {LastOf(p) : p \in ps}
<1>1. \A p \in ps : LastOf(p) \in Emitted
  BY LastOfIsLast
<1>2. Len(outbox) \in Nat /\ S \in SUBSET (1..Len(outbox))
  BY <1>1, LenProperties DEF WIndInv, WTypeOK, Emitted
<1>3. S # {}
  <2>1. PICK p \in ps : TRUE
    OBVIOUS
  <2>2. LastOf(p) \in S
    BY <2>1
  <2> QED
    BY <2>2
<1> HIDE DEF S
<1>4. PICK x \in S : \A y \in S : y <= x
  BY <1>2, <1>3, HasMaximum
<1>5. PICK e \in ps : x = LastOf(e)
  BY <1>4 DEF S
<1>6. \A d \in ps : LastOf(d) <= LastOf(e)
  BY <1>4, <1>5 DEF S
<1> QED
  BY <1>6

\* When the events of a contract took effect in their order, the last one about a payment took
\* effect last.
LEMMA LastTookEffectLast ==
    ASSUME PayInv, NEW c, c # None, InOrder(c),
           NEW p \in Payments, outbox[p].contract = c, outcome[LastOf(p)] = "applied"
    PROVE  \E n \in DOMAIN applied :
              /\ applied[n] = LastOf(p) /\ LastAbout(n, p) /\ Pays(applied[n], c)
              /\ \A m \in DOMAIN applied :
                    m > n /\ Pays(applied[m], c) => applied[m] > applied[n]
<1>1. /\ WIndInv /\ PaymentsNamed /\ DOMAIN applied \subseteq Nat
  BY LenProperties DEF PayInv, WIndInv, WTypeOK
<1>2. /\ LastOf(p) \in Emitted /\ outbox[LastOf(p)].payment = p
      /\ \A d \in Emitted : outbox[d].payment = p => d <= LastOf(p)
  BY <1>1, LastOfIsLast
<1>3. Emitted \subseteq EventIds /\ EventIds \subseteq Nat
  BY <1>1, EmittedAreEvents
<1>4. PICK n \in DOMAIN applied : applied[n] = LastOf(p)
  BY <1>1, <1>2, <1>3 DEF WIndInv, RecordsOK
<1>5. p # None /\ Pays(applied[n], c)
  <2>1. p # None
    BY <1>3, NoneIsNoEvent DEF Payments
  <2> QED
    BY <1>1, <1>2, <1>4, <2>1 DEF Pays, PaymentsNamed
<1>6. ASSUME NEW m \in DOMAIN applied, m > n, Pays(applied[m], c)
      PROVE  applied[m] > applied[n] /\ applied[m] \in Emitted
  <2>1. n < m /\ {outbox[applied[n]].contract, outbox[applied[m]].contract} = {c}
    BY <1>1, <1>5, <1>6 DEF Pays
  <2>2. applied[n] < applied[m]
    BY <2>1 DEF InOrder
  <2>3. applied[m] \in Emitted /\ applied[m] \in Nat /\ applied[n] \in Nat
    BY <1>1, <1>3, AppliedIsEmitted
  <2> QED
    BY <2>2, <2>3
<1>7. LastAbout(n, p)
  <2> SUFFICES ASSUME NEW m \in DOMAIN applied, m > n, outbox[applied[m]].payment = p
               PROVE  FALSE
    BY <1>2, <1>4 DEF LastAbout
  <2>1. applied[m] \in Emitted
    BY <1>1, AppliedIsEmitted
  <2>2. Pays(applied[m], c)
    BY <1>1, <1>5, <2>1 DEF Pays, PaymentsNamed
  <2>3. applied[m] > applied[n] /\ applied[m] <= applied[n]
    BY <1>2, <1>4, <1>6, <2>1, <2>2
  <2>4. applied[m] \in Nat /\ applied[n] \in Nat
    BY <1>2, <1>3, <1>4, <2>1
  <2> QED
    BY <2>3, <2>4
<1> QED
  BY <1>4, <1>5, <1>6, <1>7

LEMMA PayInvImpliesAccount == PayInv => AccountFollowsPayments
<1> SUFFICES ASSUME PayInv, NEW i \in Requests, rows[i] # None, rows[i].contract # None
             PROVE  LET ps == {p \in Payments : outbox[p].contract = rows[i].contract}
                        last == CHOOSE e \in ps : \A d \in ps : LastOf(d) <= LastOf(e)
                        known == Settled /\ InOrder(rows[i].contract)
                                   /\ (\A p \in ps : outcome[LastOf(p)] = "applied")
                    IN  /\ known => \A p \in ps : results[p] = outbox[LastOf(p)].kind
                        /\ known /\ Live(i, rows) /\ ~rows[i].cancelled /\ ps # {}
                             => ((rows[i].status = "unpaid")
                                   <=> (outbox[LastOf(last)].kind = "failed"))
  BY DEF AccountFollowsPayments
<1> DEFINE c == rows[i].contract
           ps == {p \in Payments : outbox[p].contract = c}
           last == CHOOSE e \in ps : \A d \in ps : LastOf(d) <= LastOf(e)
<1>1. WIndInv /\ PaymentsNamed /\ Payments \subseteq EventIds
  BY EmittedAreEvents DEF PayInv, Payments
<1>2. ASSUME InOrder(c), NEW p \in ps, outcome[LastOf(p)] = "applied"
      PROVE  \E n \in DOMAIN applied :
                /\ applied[n] = LastOf(p) /\ LastAbout(n, p) /\ Pays(applied[n], c)
                /\ \A m \in DOMAIN applied :
                      m > n /\ Pays(applied[m], c) => applied[m] > applied[n]
  BY <1>2, LastTookEffectLast
<1>3. ASSUME InOrder(c), NEW p \in ps, outcome[LastOf(p)] = "applied"
      PROVE  results[p] = outbox[LastOf(p)].kind
  <2>1. PICK n \in DOMAIN applied : applied[n] = LastOf(p) /\ LastAbout(n, p)
    BY <1>2, <1>3
  <2>2. p \in EventIds
    BY <1>1
  <2> QED
    BY <2>1, <2>2 DEF PayInv, ResultsFollow
<1>4. ASSUME InOrder(c), \A p \in ps : outcome[LastOf(p)] = "applied",
             Live(i, rows), ~rows[i].cancelled, ps # {}
      PROVE  rows[i].status = "unpaid" <=> outbox[LastOf(last)].kind = "failed"
  <2>1. ps \in SUBSET Payments
    OBVIOUS
  <2> HIDE DEF ps
  <2>2. last \in ps /\ \A d \in ps : LastOf(d) <= LastOf(last)
    BY <1>1, <1>4, <2>1, LastPaymentIsLast
  <2> HIDE DEF last
  <2>3. outcome[LastOf(last)] = "applied"
    BY <1>4, <2>2
  <2>4. PICK n \in DOMAIN applied :
          /\ applied[n] = LastOf(last) /\ Pays(applied[n], c)
          /\ \A m \in DOMAIN applied : m > n /\ Pays(applied[m], c) => applied[m] > applied[n]
    BY <1>2, <1>4, <2>2, <2>3
  <2>5. ASSUME NEW m \in DOMAIN applied, m > n, Pays(applied[m], c) PROVE FALSE
    <3> DEFINE d == outbox[applied[m]].payment
    <3>1. applied[m] \in Emitted /\ applied[n] \in Emitted
      BY <1>1, AppliedIsEmitted
    <3>2. d \in ps
      BY <1>1, <2>5, <3>1 DEF Pays, PaymentsNamed, Payments, ps
    <3>3. d \in Payments
      BY <2>1, <3>2
    <3>4. applied[m] <= LastOf(d) /\ LastOf(d) \in Emitted
      BY <1>1, <3>1, <3>3, LastOfIsLast
    <3>5. LastOf(d) <= applied[n]
      BY <2>2, <2>4, <3>2
    <3>6. applied[m] > applied[n]
      BY <2>4, <2>5
    <3>7. applied[m] \in Int /\ applied[n] \in Int /\ LastOf(d) \in Int
      BY <3>1, <3>4, LenProperties DEF Emitted, PayInv, WIndInv, WTypeOK
    <3> HIDE DEF d
    <3> QED
      BY <3>4, <3>5, <3>6, <3>7
  <2>6. LastPaying(n, c)
    BY <2>4, <2>5 DEF LastPaying
  <2>7. rows[i].status = "unpaid" <=> outbox[applied[n]].kind = "failed"
    BY <1>4, <2>6 DEF PayInv, StatusFollows
  <2> QED
    BY <2>4, <2>7
<1> QED
  BY <1>3, <1>4

\* The account is what fincode last said of it, when its events took effect in their order: the
\* history has the status of the last event about each payment, and a contract that is not
\* cancelled is unpaid when its last payment failed. One delivery at a time, and nobody changes
\* plans; events come late, repeated and after crashes, requests overlap and fail. Two
\* deliveries that overlap would break it: a success that read the row before a failure was
\* committed leaves it unpaid.
THEOREM AccountFollows ==
    ASSUME NoPlanChange, OneHandler
    PROVE  WSpec => []AccountFollowsPayments
<1>1. WInit => PayInv
  <2> SUFFICES ASSUME WInit PROVE PayInv
    OBVIOUS
  <2>1. WIndInv
    BY WInitEstablishesWIndInv
  <2>2. outbox = <<>> /\ applied = <<>> /\ Emitted = {} /\ DOMAIN applied = {}
    BY DEF WInit, Emitted
  <2> QED
    BY <2>1, <2>2 DEF WInit, Init, PayInv, PaymentsNamed, FinalsCancelled, RowsNamed, JobsCurrent,
                      ResultsFollow, StatusFollows
<1>2. PayInv /\ [WNext]_allVars => PayInv'
  BY WNextKeepsPayInv
<1> QED
  BY <1>1, <1>2, PayInvImpliesAccount, PTL DEF WSpec
=============================================================================
