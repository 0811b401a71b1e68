---------------------- MODULE SubscriptionBillingProofs ----------------------
(***************************************************************************)
(* What fincode charges, whoever the users are and however their requests  *)
(* overlap.  Whatever fails, a cancelled row stays cancelled and its       *)
(* contract is stopped, as long as nobody changes a plan (CancelInv).  When*)
(* nothing fails either, the contracts that are charged are those of the   *)
(* rows (BillingInv), so that a user is never charged for two.  Plan       *)
(* changes keep this when each is served alone and no client reuses a key  *)
(* (AloneInv).  Two that overlap, or one that is retried after a lost      *)
(* reply, break it: the runs ConcurrentChange and RetriedChange.           *)
(***************************************************************************)
EXTENDS SubscriptionManagerProofs, FiniteSetTheorems

NoChange == \A q \in ClientRequests : q.op # "change"
NoFault == Faults = {}

\* No request that is being served changes a plan.
NobodyChanges == \A r \in Requests : req[r] # None => req[r].op # "change"

\* A request that has called DELETE for the contract of the row it loaded, and has not
\* committed the cancellation.
Cancels(r) == pc[r] = "write" /\ req[r].op = "cancel"

\* A request whose contract exists, and whose row does not.
Creates(r) == pc[r] = "write" /\ req[r].op = "subscribe"

Loaded(r) == pc[r] \in {"cancel_call", "write"} /\ req[r].op = "cancel"

\* Nothing brings a cancelled row back: what a request has loaded to cancel was active, with
\* the contract the row still has, and the rows it finalizes have been cancelled before.
CancelInv ==
    /\ IndInv
    /\ NobodyChanges
    /\ \A i \in Requests : rows[i] # None => rows[i].status # "unpaid"
    /\ \A r \in Requests : Loaded(r) =>
          seen[r].status = "active" /\ seen[r].contract = rows[target[r]].contract
    /\ \A r \in Requests : \A i \in finals[r] : rows[i].cancelled
    /\ \A r \in Requests : Cancels(r) /\ seen[r].contract # None
          => contracts[seen[r].contract].state = "stopped"
    /\ CancelledNotCharged

\* fincode's id of a subscription is in the table.
Recorded(c, table) == \E i \in Requests : table[i] # None /\ table[i].contract = c

\* A contract that is in no row any more: a plan change has stopped it, and the request that
\* created it has ended.
Dropped(c) == contracts[c].state = "stopped" /\ c[2] \in Requests /\ pc[c[2]] = "done"

Billed(i) == Live(i, rows) /\ ~rows[i].cancelled /\ rows[i].contract # None

\* Without a fault no contract is lost: each is in one row, of the user it belongs to, or in the
\* hands of the request that is about to record it, or dropped, and only a cancel that is under
\* way has stopped one that its row calls charged.
BillingInv ==
    /\ CancelInv
    /\ \A c \in ContractIds : contracts[c].state # "none" =>
          Recorded(c, rows) \/ Dropped(c) \/ \E q \in Requests : Creates(q) /\ reply[q].id = c
    /\ \A q \in Requests : Creates(q) =>
          /\ reply[q].id[1] = req[q].user
          /\ contracts[reply[q].id].state = "live" \/ Recorded(reply[q].id, rows)
    /\ \A i \in Requests : rows[i] # None /\ rows[i].contract # None =>
          /\ rows[i].contract[1] = rows[i].user
          /\ \A j \in Requests \ {i} : rows[j] # None => rows[j].contract # rows[i].contract
    /\ \A i \in Requests : Billed(i) =>
          \/ contracts[rows[i].contract].state = "live"
          \/ \E r \in Requests : Cancels(r) /\ target[r] = i

\* No call to fincode starts a stopped contract again.
StaysStopped ==
    \A c \in ContractIds : contracts[c].state = "stopped" => contracts'[c].state = "stopped"

\* What a commit of such a client does to the rows that were there.
OnlyCancels(i) ==
    /\ rows'[i] # None /\ rows'[i].contract = rows[i].contract /\ rows'[i].user = rows[i].user
    /\ rows[i].status = "cancelled" => rows'[i].status = "cancelled"
    /\ rows[i].cancelled => rows'[i].cancelled
    /\ rows'[i].status # "unpaid"
    /\ rows'[i].status = "cancelled" \/ rows'[i].cancelled =>
          \/ rows[i].status = "cancelled" \/ rows[i].cancelled
          \/ rows[i].contract = None
          \/ contracts[rows[i].contract].state = "stopped"

\* A request that ends, its writes being such.
LEMMA EndKeepsCancelInv ==
    ASSUME CancelInv, IndInv', NEW r \in Requests, Forget(r), StaysStopped,
           \A i \in Requests : rows[i] # None => OnlyCancels(i),
           \A i \in Requests : rows[i] = None /\ rows'[i] # None =>
               rows'[i].status = "active" /\ ~rows'[i].cancelled
    PROVE  CancelInv'
<1>1. /\ pc'[r] = "done" /\ req'[r] = None /\ finals'[r] = {}
      /\ \A q \in Requests \ {r} :
            /\ pc'[q] = pc[q] /\ req'[q] = req[q] /\ finals'[q] = finals[q]
            /\ target'[q] = target[q] /\ seen'[q] = seen[q]
  BY DEF CancelInv, IndInv, TypeOK, Forget
<1>2. NobodyChanges'
  BY <1>1 DEF CancelInv, NobodyChanges
<1>3. \A i \in Requests : rows'[i] # None => rows'[i].status # "unpaid"
  BY DEF OnlyCancels
<1>4. \A q \in Requests : Loaded(q) => HasTarget(q)
  BY DEF Loaded, CancelInv, IndInv, ControlOK
<1>5. \A q \in Requests : Loaded(q)' => Loaded(q) /\ q # r
  BY <1>1 DEF Loaded
<1>6. \A q \in Requests : Loaded(q)' =>
        seen'[q].status = "active" /\ seen'[q].contract = rows'[target'[q]].contract
  BY <1>1, <1>4, <1>5 DEF CancelInv, HasTarget, OnlyCancels
<1>7. \A q \in Requests : \A i \in finals'[q] : rows'[i].cancelled
  BY <1>1 DEF CancelInv, IndInv, TypeOK, ControlOK, OnlyCancels
<1>8. \A q \in Requests : Cancels(q)' => Cancels(q) /\ q # r
  BY <1>1 DEF Cancels
<1>9. \A q \in Requests : Cancels(q)' /\ seen'[q].contract # None
          => contracts'[seen'[q].contract].state = "stopped"
  <2>1. \A q \in Requests : Cancels(q) => seen[q] \in RowType
    BY <1>4 DEF Cancels, Loaded, HasTarget, CancelInv, IndInv, TypeOK
  <2> QED
    BY <1>1, <1>8, <2>1 DEF CancelInv, RowType, StaysStopped
<1>10. CancelledNotCharged'
  <2>1. \A i \in Requests : rows[i] # None /\ rows[i].contract # None => rows[i].contract \in ContractIds
    BY DEF CancelInv, IndInv, TypeOK, RowType
  <2> QED
    BY <2>1 DEF CancelInv, CancelledNotCharged, OnlyCancels, StaysStopped
<1> QED
  BY <1>2, <1>3, <1>6, <1>7, <1>9, <1>10 DEF CancelInv

\* The view of a transaction only cancels.
LEMMA ViewOnlyCancels ==
    ASSUME CancelInv, NEW r \in Requests, NEW i \in Requests, rows[i] # None, rows'[i] = View(r)[i]
    PROVE  OnlyCancels(i)
<1>1. rows[i] \in RowType /\ TypeOK /\ ControlOK
  BY DEF CancelInv, IndInv, TypeOK
<1>2. CASE i \notin finals[r]
  BY <1>1, <1>2, ViewIsTable DEF OnlyCancels, CancelInv
<1>3. CASE i \in finals[r]
  <2>1. rows'[i] = [rows[i] EXCEPT !.status = "cancelled"] /\ rows[i].cancelled
    BY <1>3 DEF View, CancelInv
  <2>2. /\ rows'[i].status = "cancelled" /\ rows'[i].contract = rows[i].contract
        /\ rows'[i].user = rows[i].user
        /\ rows'[i].cancelled = rows[i].cancelled
    BY <1>1, <2>1 DEF RowType
  <2>3. rows'[i] # None
    BY <1>1, ViewIsTable
  <2> QED
    BY <1>3, <2>1, <2>2, <2>3 DEF OnlyCancels
<1> QED
  BY <1>2, <1>3

LEMMA RollbackKeepsCancelInv ==
    ASSUME CancelInv, IndInv', NEW r \in Requests, Rollback(r), StaysStopped
    PROVE  CancelInv'
<1>1. Forget(r) /\ rows' = rows
  BY DEF Rollback
<1>2. \A i \in Requests : rows[i] # None => OnlyCancels(i)
  BY <1>1 DEF OnlyCancels, CancelInv
<1> QED
  BY <1>1, <1>2, EndKeepsCancelInv

\* A commit of the finalizations, alone or with the row of a subscribe.
LEMMA SubscribeCommitKeepsCancelInv ==
    ASSUME CancelInv, IndInv', NEW r \in Requests, UNCHANGED contracts, pc[r] # "done",
           \/ Commit(r, View(r))
           \/ \E contract, end : Commit(r, [View(r) EXCEPT ![r] = NewRow(r, contract, end)])
    PROVE  CancelInv'
<1>1. TypeOK /\ ControlOK /\ rows[r] = None /\ Forget(r)
  BY DEF CancelInv, IndInv, ControlOK, Commit
<1>2. \A i \in Requests \ {r} : rows'[i] = View(r)[i]
  BY <1>1, ViewIsTable DEF Commit
<1>3. \A i \in Requests : rows[i] # None => OnlyCancels(i)
  BY <1>1, <1>2, ViewOnlyCancels
<1>4. \A i \in Requests : rows[i] = None /\ rows'[i] # None =>
        rows'[i].status = "active" /\ ~rows'[i].cancelled
  BY <1>1, <1>2, ViewIsTable DEF Commit, NewRow
<1> QED
  BY <1>1, <1>3, <1>4, EndKeepsCancelInv DEF StaysStopped

\* The flush of a cancel: a row that was cancelled meanwhile stays so, and is not put back into
\* the index.
LEMMA WriteCancelFacts ==
    ASSUME CancelInv, NEW r \in Requests, WriteCancel(r)
    PROVE  LET i == target[r]
               row == Updated(rows[i], seen[r], CancelledRow(r), TRUE)
           IN  /\ i \in Requests /\ rows[i] \in RowType /\ rows[i] # None /\ seen[r] \in RowType
               /\ row \in RowType /\ row.contract = rows[i].contract /\ row.user = rows[i].user
               /\ row.cancelled
               /\ seen[r].contract = rows[i].contract
               /\ row.status \in {"cancelled", rows[i].status}
               /\ \/ Commit(r, [View(r) EXCEPT ![i] = row])
                  \/ Rollback(r) /\ row.contract # None /\ ContractTaken(row.contract, i)
<1> DEFINE i == target[r]
           set == CancelledRow(r)
           row == Updated(rows[i], seen[r], set, TRUE)
<1>1. /\ TypeOK /\ ControlOK /\ pc[r] = "write" /\ req[r].op = "cancel"
      /\ Loaded(r) /\ Flush(r, set, TRUE)
  BY DEF CancelInv, IndInv, WriteCancel, Loaded
<1>2. HasTarget(r)
  BY <1>1 DEF ControlOK
<1>3. /\ i \in Requests /\ rows[i] \in RowType /\ rows[i] # None
      /\ seen[r] \in RowType /\ set \in RowType
  BY <1>1, <1>2, SetRowsAreRows DEF HasTarget, TypeOK
<1>4. seen[r].status = "active" /\ seen[r].contract = rows[i].contract
  BY <1>1 DEF CancelInv
<1>5. /\ set.contract = seen[r].contract /\ set.cancelled
      /\ set.status \in {"active", "cancelled"}
  BY <1>3 DEF CancelledRow, RowType
<1> HIDE DEF set
<1>6. row \in RowType
  BY <1>3, UpdatedIsRow
<1>7. /\ row.contract = rows[i].contract /\ row.user = rows[i].user /\ row.cancelled
      /\ row.status \in {"cancelled", rows[i].status}
  BY <1>4, <1>5 DEF Updated
<1>8. row.status \in IndexedStatuses => rows[i].status \in IndexedStatuses
  BY <1>7 DEF IndexedStatuses
<1> HIDE DEF row
<1>9. \/ Commit(r, [View(r) EXCEPT ![i] = row])
      \/ Rollback(r) /\ row.contract # None /\ ContractTaken(row.contract, i)
  BY <1>1, <1>8 DEF Flush, row
<1> QED
  BY <1>3, <1>4, <1>6, <1>7, <1>9 DEF i, set, row

LEMMA WriteCancelOnlyCancels ==
    ASSUME CancelInv, NEW r \in Requests, WriteCancel(r), NEW j \in Requests
    PROVE  IF rows[j] = None THEN rows'[j] = None ELSE OnlyCancels(j)
<1> DEFINE i == target[r]
           row == Updated(rows[i], seen[r], CancelledRow(r), TRUE)
<1>1. /\ i \in Requests /\ rows[i] \in RowType /\ rows[i] # None /\ seen[r] \in RowType
      /\ row \in RowType /\ row.contract = rows[i].contract /\ row.user = rows[i].user
      /\ row.cancelled
      /\ seen[r].contract = rows[i].contract
      /\ row.status \in {"cancelled", rows[i].status}
      /\ Rollback(r) \/ Commit(r, [View(r) EXCEPT ![i] = row])
  BY WriteCancelFacts
<1>2. Cancels(r) /\ TypeOK /\ ControlOK
  BY DEF WriteCancel, Cancels, CancelInv, IndInv
<1> HIDE DEF row
<1>3. CASE Rollback(r)
  BY <1>3 DEF Rollback, OnlyCancels, CancelInv
<1>4. CASE Commit(r, [View(r) EXCEPT ![i] = row])
  <2>1. rows'[i] = row /\ \A k \in Requests \ {i} : rows'[k] = View(r)[k]
    BY <1>1, <1>2, <1>4, ViewIsTable DEF Commit
  <2>2. rows[i].contract # None => contracts[rows[i].contract].state = "stopped"
    BY <1>1, <1>2 DEF CancelInv
  <2>3. rows[i].status # "unpaid"
    BY <1>1 DEF CancelInv
  <2>4. OnlyCancels(i)
    BY <1>1, <2>1, <2>2, <2>3, NoneIsApart DEF OnlyCancels
  <2> QED
    BY <1>1, <1>2, <2>1, <2>4, ViewOnlyCancels, ViewIsTable
<1> QED
  BY <1>1, <1>3, <1>4

LEMMA WriteCancelKeepsCancelInv ==
    ASSUME CancelInv, IndInv', NEW r \in Requests, WriteCancel(r)
    PROVE  CancelInv'
<1>1. Forget(r) /\ StaysStopped
  BY WriteCancelFacts DEF WriteCancel, StaysStopped, Commit, Rollback
<1> QED
  BY <1>1, WriteCancelOnlyCancels, EndKeepsCancelInv

\* A step inside a handler that calls nobody.
LEMMA MoveKeepsCancelInv ==
    ASSUME CancelInv, IndInv', NEW r \in Requests, Moves(r), UNCHANGED <<rows, contracts>>,
           NobodyChanges',
           Loaded(r)' => seen'[r].status = "active" /\ seen'[r].contract = rows[target'[r]].contract,
           Cancels(r)' => seen'[r].contract = None,
           \A i \in finals'[r] : rows[i].cancelled
    PROVE  CancelInv'
<1>1. \A q \in Requests \ {r} :
        /\ pc'[q] = pc[q] /\ req'[q] = req[q] /\ finals'[q] = finals[q]
        /\ target'[q] = target[q] /\ seen'[q] = seen[q]
  BY DEF Moves
<1>2. /\ \A i \in Requests : rows'[i] # None => rows'[i].status # "unpaid"
      /\ \A q \in Requests : \A i \in finals'[q] : rows'[i].cancelled
  BY <1>1 DEF CancelInv
<1>3. \A q \in Requests : Loaded(q)' =>
        seen'[q].status = "active" /\ seen'[q].contract = rows'[target'[q]].contract
  BY <1>1 DEF CancelInv, Loaded
<1>4. \A q \in Requests : Cancels(q)' /\ seen'[q].contract # None
          => contracts'[seen'[q].contract].state = "stopped"
  BY <1>1 DEF CancelInv, Cancels
<1>5. CancelledNotCharged'
  BY DEF CancelInv, CancelledNotCharged
<1> QED
  BY <1>2, <1>3, <1>4, <1>5 DEF CancelInv

\* A reply of fincode.
LEMMA ReplyKeepsCancelInv ==
    ASSUME CancelInv, IndInv', NEW r \in Requests, NEW id, NEW end, NEW label,
           ReplyTo(r, id, end, label), StaysStopped,
           \/ pc[r] = "create_call" /\ req[r].op # "cancel"
           \/ /\ Loaded(r)
              /\ seen[r].contract # None => contracts'[seen[r].contract].state = "stopped"
    PROVE  CancelInv'
<1>1. /\ UNCHANGED <<rows, req, finals, target, seen>>
      /\ \A q \in Requests \ {r} : pc'[q] = pc[q]
  BY DEF ReplyTo, CancelInv, IndInv, TypeOK
<1>2. \A q \in Requests : Loaded(q)' => Loaded(q)
  BY <1>1 DEF Loaded
<1>3. \A q \in Requests : Loaded(q) => seen[q] \in RowType
  BY DEF Loaded, CancelInv, IndInv, ControlOK, HasTarget, TypeOK
<1>4. \A q \in Requests : Cancels(q)' => Loaded(q) /\ (Cancels(q) \/ q = r)
  BY <1>1 DEF Loaded, Cancels
<1>5. \A q \in Requests : Cancels(q)' /\ seen[q].contract # None
          => contracts'[seen[q].contract].state = "stopped"
  <2> SUFFICES ASSUME NEW q \in Requests, Cancels(q)', seen[q].contract # None
               PROVE  contracts'[seen[q].contract].state = "stopped"
    OBVIOUS
  <2>1. CASE q = r
    BY <1>1, <2>1 DEF Cancels
  <2>2. CASE q # r
    <3>1. seen[q].contract \in ContractIds
      BY <1>3, <1>4 DEF RowType
    <3> QED
      BY <1>4, <2>2, <3>1 DEF CancelInv, StaysStopped
  <2> QED
    BY <2>1, <2>2
<1>6. CancelledNotCharged'
  <2>1. \A i \in Requests : rows[i] # None /\ rows[i].contract # None => rows[i].contract \in ContractIds
    BY DEF CancelInv, IndInv, TypeOK, RowType
  <2> QED
    BY <1>1, <2>1 DEF CancelInv, CancelledNotCharged, StaysStopped
<1> QED
  BY <1>1, <1>2, <1>5, <1>6 DEF CancelInv, NobodyChanges

\* The two calls to fincode: a create starts no stopped contract, a cancel stops the one of the
\* row that was loaded.
LEMMA CallsKeepCancelInv ==
    ASSUME CancelInv, IndInv', NEW r \in Requests, CreateContract(r) \/ CancelContract(r)
    PROVE  CancelInv'
<1>1. TypeOK /\ ControlOK /\ contracts \in [ContractIds -> ContractType]
  BY DEF CancelInv, IndInv, TypeOK
<1>2. CASE CreateContract(r)
  <2> DEFINE id == <<req[r].user, Nonce(r)>>
  <2>1. pc[r] = "create_call" /\ contracts' = Created(id) /\ req[r] # None
    BY <1>1, <1>2 DEF CreateContract, ControlOK
  <2>2. StaysStopped
    BY <1>1, <2>1 DEF StaysStopped, Created
  <2>3. req[r].op # "cancel"
    BY <1>1, <2>1 DEF ControlOK
  <2>4. Rollback(r) \/ \E end : ReplyTo(r, id, end, "write")
    BY <1>2 DEF CreateContract
  <2> HIDE DEF id
  <2> QED
    BY <2>1, <2>2, <2>3, <2>4, RollbackKeepsCancelInv, ReplyKeepsCancelInv
<1>3. CASE CancelContract(r)
  <2> DEFINE id == seen[r].contract
  <2>1. /\ pc[r] = "cancel_call" /\ contracts' = Stopped(id) /\ req[r] # None
        /\ seen[r] \in RowType /\ id # None
    BY <1>1, <1>3 DEF CancelContract, ControlOK, HasTarget, TypeOK
  <2>2. id \in ContractIds
    BY <2>1 DEF RowType
  <2>3. contracts'[id].state = "stopped" /\ \A c \in ContractIds \ {id} : contracts'[c] = contracts[c]
    BY <1>1, <2>1, <2>2 DEF Stopped, ContractType
  <2>4. StaysStopped
    BY <2>3 DEF StaysStopped
  <2>5. req[r].op \notin {"subscribe", "change"}
    BY <1>1, <2>1 DEF ControlOK, CancelInv, NobodyChanges
  <2>6. Loaded(r)
    BY <1>1, <2>1, <2>5 DEF Loaded, TypeOK, RequestType
  <2>7. Rollback(r) \/ \E end, label : ReplyTo(r, id, end, label)
    BY <1>3 DEF CancelContract
  <2> HIDE DEF id
  <2>8. ASSUME NEW end, NEW label, ReplyTo(r, id, end, label) PROVE CancelInv'
    BY <2>3, <2>4, <2>6, <2>8, ReplyKeepsCancelInv DEF id
  <2> QED
    BY <2>4, <2>7, <2>8, RollbackKeepsCancelInv
<1> QED
  BY <1>2, <1>3

\* get_active returned the row: active, since no unpaid one is there, and not finalized.
LEMMA CancelGuardKeepsCancelInv ==
    ASSUME CancelInv, IndInv', NEW r \in Requests, CancelGuard(r)
    PROVE  CancelInv'
<1>1. /\ TypeOK /\ ControlOK /\ pc[r] = "guard" /\ req[r].op = "cancel"
      /\ UNCHANGED <<contracts, now>>
  BY DEF CancelInv, IndInv, CancelGuard
<1>2. CASE Rollback(r)
  BY <1>1, <1>2, RollbackKeepsCancelInv DEF StaysStopped
<1>3. CASE Commit(r, View(r))
  BY <1>1, <1>3, SubscribeCommitKeepsCancelInv
<1>4. ASSUME NEW i \in UsableRows(r),
             Load(r, i, IF View(r)[i].contract = None THEN "write" ELSE "cancel_call")
      PROVE  CancelInv'
  <2>1. /\ i \in Requests /\ rows[i] # None /\ View(r)[i].status \in LiveStatuses
    BY <1>1, <1>4, ViewIsTable DEF UsableRows, RowsOf, Usable
  <2>2. View(r)[i] = rows[i]
    <3>1. i \in finals[r] => View(r)[i].status = "cancelled"
      BY <1>1, <2>1 DEF View, TypeOK, RowType
    <3> QED
      BY <1>1, <2>1, <3>1, ViewIsTable DEF LiveStatuses
  <2>3. rows[i].status = "active"
    BY <2>1, <2>2 DEF CancelInv, LiveStatuses
  <2>4. /\ Moves(r) /\ UNCHANGED <<rows, req, finals>> /\ target'[r] = i /\ seen'[r] = rows[i]
        /\ pc'[r] = IF rows[i].contract = None THEN "write" ELSE "cancel_call"
    BY <1>1, <1>4, <2>2 DEF Load, Moves, TypeOK
  <2> QED
    BY <1>1, <2>3, <2>4, MoveKeepsCancelInv DEF CancelInv, Cancels, NobodyChanges
<1> QED
  BY <1>2, <1>3, <1>4 DEF CancelGuard

\* Goto and Receive.
LEMMA GotoKeepsCancelInv ==
    ASSUME CancelInv, IndInv', NEW r \in Requests, NEW label \in {"replay", "guard", "insert", "create_call"},
           Goto(r, label), UNCHANGED contracts
    PROVE  CancelInv'
<1>1. Moves(r) /\ pc'[r] = label /\ UNCHANGED <<rows, req, finals>>
  BY DEF Goto, Moves, CancelInv, IndInv, TypeOK
<1> QED
  BY <1>1, MoveKeepsCancelInv DEF CancelInv, Cancels, Loaded, NobodyChanges

LEMMA ReceiveKeepsCancelInv ==
    ASSUME CancelInv, IndInv', NobodyChanges', NEW r \in Requests, NEW q \in ClientRequests, Receive(r, q)
    PROVE  CancelInv'
<1>1. /\ Moves(r) /\ pc'[r] = "finalize" /\ req'[r] = q /\ UNCHANGED <<rows, contracts>>
      /\ finals'[r] = {i \in RowsOf(q.user, rows) : Elapsed(rows[i], now)}
  BY DEF Receive, Moves, CancelInv, IndInv, TypeOK
<1> QED
  BY <1>1, MoveKeepsCancelInv DEF Cancels, Loaded, Elapsed

LEMMA NextKeepsCancelInv ==
    ASSUME CancelInv, [Next]_vars, NobodyChanges'
    PROVE  CancelInv'
<1>1. IndInv' /\ TypeOK /\ ControlOK
  BY NextKeepsIndInv DEF CancelInv, IndInv
<1>2. ASSUME NEW r \in Requests, pc[r] \notin {"unsent", "done"}
      PROVE  req[r].op # "change"
  BY <1>1, <1>2 DEF CancelInv, ControlOK, NobodyChanges
<1>3. ASSUME NEW r \in Requests, Serve(r) PROVE CancelInv'
  <2>1. CASE Finalize(r) \/ Replay(r) \/ SubscribeGuard(r)
    BY <1>1, <2>1, GotoKeepsCancelInv, RollbackKeepsCancelInv, SubscribeCommitKeepsCancelInv
       DEF Finalize, Replay, SubscribeGuard, StaysStopped
  <2>2. CASE Insert(r) \/ WriteSubscribe(r)
    BY <1>1, <2>2, GotoKeepsCancelInv, RollbackKeepsCancelInv, SubscribeCommitKeepsCancelInv
       DEF Insert, WriteSubscribe, StaysStopped
  <2>3. CASE ChangeGuard(r) \/ WriteChange(r)
    BY <1>2, <2>3 DEF ChangeGuard, WriteChange
  <2> QED
    BY <1>1, <1>3, <2>1, <2>2, <2>3, CallsKeepCancelInv, CancelGuardKeepsCancelInv,
       WriteCancelKeepsCancelInv DEF Serve
<1>4. ASSUME NEW r \in Requests, Fail(r) PROVE CancelInv'
  BY <1>1, <1>4, RollbackKeepsCancelInv DEF Fail, StaysStopped
<1>5. CASE Tick \/ UNCHANGED vars
  <2>1. UNCHANGED <<rows, contracts, pc, req, finals, target, seen, reply>>
    BY <1>5 DEF Tick, txVars, vars
  <2> QED
    BY <1>1, <2>1 DEF CancelInv, Loaded, Cancels, CancelledNotCharged, NobodyChanges
<1> QED
  BY <1>1, <1>3, <1>4, <1>5, ReceiveKeepsCancelInv DEF Next

LEMMA InitEstablishesCancelInv == Init => CancelInv
  BY InitEstablishesIndInv DEF Init, CancelInv, Loaded, Cancels, CancelledNotCharged, NobodyChanges

\* Without plan changes there is none to serve.
LEMMA NobodyEverChanges == NoChange /\ CancelInv /\ [Next]_vars => NobodyChanges'
<1> SUFFICES ASSUME NoChange, CancelInv, [Next]_vars, NEW q \in Requests, req'[q] # None
             PROVE  req'[q].op # "change"
  BY DEF NobodyChanges
<1>1. req \in [Requests -> RequestType \cup {None}] /\ (req[q] # None => req[q].op # "change")
  BY DEF CancelInv, IndInv, TypeOK, NobodyChanges
<1>2. ASSUME NEW r \in Requests, Serve(r) \/ Fail(r) PROVE req'[q] \in {req[q], None}
  BY <1>1, <1>2 DEF Serve, Finalize, Replay, SubscribeGuard, Insert, WriteSubscribe, CreateContract,
     CancelContract, ChangeGuard, CancelGuard, WriteChange, WriteCancel, Flush, Fail, Goto, Load,
     ReplyTo, Rollback, Commit, Forget
<1>3. ASSUME NEW r \in Requests, NEW c \in ClientRequests, Receive(r, c) PROVE req'[q] \in {req[q], c}
  BY <1>1, <1>3 DEF Receive
<1>4. CASE Tick \/ UNCHANGED vars
  BY <1>1, <1>4 DEF Tick, txVars, vars
<1> QED
  BY <1>1, <1>2, <1>3, <1>4 DEF Next, NoChange

\* What any step does to the rows that are there.
LEMMA NextOnlyCancels ==
    ASSUME CancelInv, [Next]_vars, NEW i \in Requests, rows[i] # None
    PROVE  OnlyCancels(i)
<1>1. TypeOK /\ ControlOK
  BY DEF CancelInv, IndInv
<1>2. CASE UNCHANGED rows
  BY <1>2 DEF OnlyCancels, CancelInv
<1>3. ASSUME NEW r \in Requests, Serve(r) PROVE OnlyCancels(i)
  <2>1. ASSUME Commit(r, View(r)) PROVE OnlyCancels(i)
    BY <2>1, ViewOnlyCancels DEF Commit
  <2>2. ASSUME pc[r] # "done", NEW contract, NEW end,
               Commit(r, [View(r) EXCEPT ![r] = NewRow(r, contract, end)])
        PROVE  OnlyCancels(i)
    <3>1. i # r
      BY <1>1, <2>2 DEF ControlOK
    <3>2. rows'[i] = View(r)[i]
      BY <1>1, <2>2, <3>1, ViewIsTable DEF Commit
    <3> QED
      BY <3>2, ViewOnlyCancels
  <2>3. CASE Finalize(r) \/ Replay(r) \/ SubscribeGuard(r)
    BY <1>2, <2>1, <2>3 DEF Finalize, Replay, SubscribeGuard, Goto, Rollback
  <2>4. CASE Insert(r) \/ WriteSubscribe(r)
    BY <1>2, <2>2, <2>4 DEF Insert, WriteSubscribe, Goto, Rollback
  <2>5. CASE CreateContract(r) \/ CancelContract(r) \/ CancelGuard(r)
    BY <1>2, <2>1, <2>5 DEF CreateContract, CancelContract, CancelGuard, ReplyTo, Load, Rollback
  <2>6. CASE ChangeGuard(r) \/ WriteChange(r)
    BY <1>1, <2>6 DEF ChangeGuard, WriteChange, CancelInv, ControlOK, NobodyChanges
  <2> QED
    BY <1>3, <2>3, <2>4, <2>5, <2>6, WriteCancelOnlyCancels DEF Serve
<1> QED
  BY <1>2, <1>3 DEF Next, Receive, Fail, Rollback, Tick, txVars, vars

-----------------------------------------------------------------------------
(* The theorems about cancelled rows.                                      *)

\* A row that is cancelled, or whose cancellation is scheduled, is not charged: its contract has
\* been stopped at fincode before the row says so, whatever overlaps and whatever fails.
THEOREM CancelledStopsCharges == ASSUME NoChange PROVE Spec => []CancelledNotCharged
<1>1. Init => CancelInv
  BY InitEstablishesCancelInv
<1>2. CancelInv /\ [Next]_vars => CancelInv'
  BY NextKeepsCancelInv, NobodyEverChanges
<1>3. CancelInv => CancelledNotCharged
  BY DEF CancelInv
<1> QED
  BY <1>1, <1>2, <1>3, PTL DEF Spec

\* A cancelled row stays cancelled, with the contract it had: a request that loaded it before
\* does not bring it back.
THEOREM CancelledStaysFinal == ASSUME NoChange PROVE Spec => CancelledIsFinal
<1> DEFINE Final == \A i \in Requests :
                        rows[i] # None /\ rows[i].status = "cancelled" =>
                            rows'[i].status = "cancelled" /\ rows'[i].contract = rows[i].contract
<1>1. Init => CancelInv
  BY InitEstablishesCancelInv
<1>2. CancelInv /\ [Next]_vars => CancelInv'
  BY NextKeepsCancelInv, NobodyEverChanges
<1>3. CancelInv /\ [Next]_vars => [Final]_vars
  BY NextOnlyCancels DEF OnlyCancels
<1> QED
  BY <1>1, <1>2, <1>3, PTL DEF Spec, CancelledIsFinal

-----------------------------------------------------------------------------
(* Without a fault.                                                        *)

\* A request that ends and calls nobody: if it was about to record a contract, the contract is in
\* the table now, and if it was about to cancel a row, the row is cancelled.
LEMMA EndKeepsBillingInv ==
    ASSUME BillingInv, CancelInv', NEW r \in Requests, Forget(r), UNCHANGED contracts,
           \A i \in Requests : rows[i] # None => OnlyCancels(i),
           \A i \in Requests : rows[i] = None /\ rows'[i] # None /\ rows'[i].contract # None =>
               /\ i = r /\ Creates(r)
               /\ rows'[i].contract = reply[r].id /\ rows'[i].user = req[r].user
               /\ ~ContractTaken(reply[r].id, r),
           Creates(r) => Recorded(reply[r].id, rows'),
           Cancels(r) => rows'[target[r]].cancelled
    PROVE  BillingInv'
<1>1. /\ TypeOK /\ ControlOK /\ CancelInv
      /\ pc'[r] = "done"
      /\ \A q \in Requests \ {r} :
            /\ pc'[q] = pc[q] /\ req'[q] = req[q] /\ target'[q] = target[q] /\ reply'[q] = reply[q]
  BY DEF BillingInv, CancelInv, IndInv, TypeOK, Forget
<1>2. \A c : Recorded(c, rows) => Recorded(c, rows')
  BY DEF Recorded, OnlyCancels
<1>3. \A q \in Requests : Creates(q)' <=> Creates(q) /\ q # r
  BY <1>1 DEF Creates
<1>4. \A q \in Requests \ {r} : Cancels(q)' <=> Cancels(q)
  BY <1>1 DEF Cancels
<1>5. \A c \in ContractIds : contracts'[c].state # "none" =>
        Recorded(c, rows') \/ Dropped(c)' \/ \E q \in Requests : Creates(q)' /\ reply'[q].id = c
  BY <1>1, <1>2, <1>3 DEF BillingInv, Dropped
<1>6. \A q \in Requests : Creates(q)' =>
        /\ reply'[q].id[1] = req'[q].user
        /\ contracts'[reply'[q].id].state = "live" \/ Recorded(reply'[q].id, rows')
  BY <1>1, <1>2, <1>3 DEF BillingInv
<1>7. ASSUME NEW i \in Requests, rows'[i] # None, rows'[i].contract # None
      PROVE  /\ rows'[i].contract[1] = rows'[i].user
             /\ \A j \in Requests \ {i} : rows'[j] # None => rows'[j].contract # rows'[i].contract
  BY <1>7 DEF BillingInv, OnlyCancels, ContractTaken
<1>8. ASSUME NEW i \in Requests, Billed(i)'
      PROVE  \/ contracts'[rows'[i].contract].state = "live"
             \/ \E q \in Requests : Cancels(q)' /\ target'[q] = i
  <2>1. CASE rows[i] = None
    <3>1. /\ Creates(r) /\ rows'[i].contract = reply[r].id
          /\ ~ContractTaken(reply[r].id, r) /\ i = r
      BY <1>8, <2>1 DEF Billed, Live
    <3>2. ~Recorded(reply[r].id, rows)
      BY <2>1, <3>1 DEF Recorded, ContractTaken
    <3> QED
      BY <3>1, <3>2 DEF BillingInv
  <2>2. CASE rows[i] # None
    <3>1. rows[i].status \in Statuses
      BY <1>1, <2>2 DEF TypeOK, RowType
    <3>2. Billed(i) /\ rows'[i].contract = rows[i].contract /\ ~rows'[i].cancelled
      BY <1>8, <2>2, <3>1 DEF Billed, Live, LiveStatuses, Statuses, OnlyCancels
    <3>3. \A q \in Requests : Cancels(q) /\ target[q] = i => q # r
      BY <3>2
    <3> QED
      BY <1>1, <1>4, <3>2, <3>3 DEF BillingInv
  <2> QED
    BY <2>1, <2>2
<1> QED
  BY <1>5, <1>6, <1>7, <1>8 DEF BillingInv

\* A step inside a handler that calls nobody.
LEMMA MoveKeepsBillingInv ==
    ASSUME BillingInv, CancelInv', NEW r \in Requests, Moves(r), UNCHANGED <<rows, contracts>>,
           pc[r] # "done", ~Creates(r), ~Cancels(r), ~Creates(r)'
    PROVE  BillingInv'
<1>1. \A q \in Requests \ {r} :
        /\ pc'[q] = pc[q] /\ req'[q] = req[q] /\ target'[q] = target[q] /\ reply'[q] = reply[q]
  BY DEF Moves
<1>2. \A q \in Requests : Creates(q)' <=> Creates(q)
  BY <1>1 DEF Creates
<1>3. \A q \in Requests : Cancels(q) => Cancels(q)' /\ q # r
  BY <1>1 DEF Cancels
<1>4. \A c : (Recorded(c, rows') <=> Recorded(c, rows)) /\ (Dropped(c) => Dropped(c)')
  BY <1>1 DEF Recorded, Dropped
<1> QED
  BY <1>1, <1>2, <1>3, <1>4 DEF BillingInv, Billed, Live, Creates

\* fincode creates a contract, or returns one the table has: nobody else is about to record it.
LEMMA CreateKeepsBillingInv ==
    ASSUME NoFault, BillingInv, CancelInv', NEW r \in Requests, CreateContract(r)
    PROVE  BillingInv'
<1> DEFINE id == <<req[r].user, Nonce(r)>>
<1>1. /\ TypeOK /\ ControlOK /\ CancelInv /\ IndexReserved
      /\ pc[r] = "create_call" /\ req[r] # None /\ contracts' = Created(id)
  BY DEF BillingInv, CancelInv, IndInv, ControlOK, CreateContract
<1>2. req[r] \in RequestType /\ id \in ContractIds /\ id[1] = req[r].user
  BY <1>1 DEF TypeOK, RequestType, ContractIds, Nonce, Nonces
<1>3. \E end : ReplyTo(r, id, end, "write")
  BY DEF NoFault, CreateContract
<1> HIDE DEF id
<1>4. /\ pc'[r] = "write" /\ reply'[r].id = id /\ UNCHANGED <<rows, req, target>>
      /\ \A q \in Requests \ {r} : pc'[q] = pc[q] /\ reply'[q] = reply[q]
  BY <1>1, <1>3 DEF ReplyTo, TypeOK
<1>5. req[r].op = "subscribe"
  BY <1>1 DEF ControlOK, CancelInv, NobodyChanges
<1>6. \A q \in Requests : Creates(q)' <=> Creates(q) \/ q = r
  BY <1>4, <1>5 DEF Creates
<1>7. \A q \in Requests : Cancels(q)' <=> Cancels(q)
  BY <1>1, <1>4, <1>5 DEF Cancels
<1>8. /\ contracts[id].state # "none" => contracts' = contracts
      /\ contracts[id].state = "none" => contracts'[id].state = "live"
      /\ \A c \in ContractIds \ {id} : contracts'[c] = contracts[c]
  BY <1>1, <1>2 DEF Created, TypeOK
<1>9. \A q \in Requests : Creates(q) => q # r /\ req[q].user # req[r].user
  BY <1>1, <1>5 DEF IndexReserved, HoldsInsert, Creates
<1>10. contracts[id].state # "none" => Recorded(id, rows)
  <2>1. ~Dropped(id)
    BY <1>1, <1>2, ConstantsAssumption DEF Dropped, id, Nonce, RequestType
  <2> QED
    BY <1>2, <1>9, <2>1 DEF BillingInv
<1>11. \A c \in ContractIds : contracts'[c].state # "none" =>
        Recorded(c, rows') \/ Dropped(c)' \/ \E q \in Requests : Creates(q)' /\ reply'[q].id = c
  <2>1. \A c \in ContractIds : Dropped(c) => Dropped(c)'
    BY <1>1, <1>4, <1>8 DEF Dropped
  <2> QED
    BY <1>4, <1>6, <1>8, <1>9, <2>1 DEF BillingInv
<1>12. \A c \in ContractIds : contracts[c].state = "live" => contracts'[c].state = "live"
  BY <1>8
<1>13. ASSUME NEW q \in Requests, Creates(q)'
       PROVE  /\ reply'[q].id[1] = req'[q].user
              /\ contracts'[reply'[q].id].state = "live" \/ Recorded(reply'[q].id, rows')
  <2>1. CASE q = r
    BY <1>2, <1>4, <1>8, <1>10, <2>1
  <2>2. CASE q # r
    <3>1. Creates(q) /\ reply'[q] = reply[q] /\ req'[q] = req[q]
      BY <1>4, <1>6, <1>13, <2>2
    <3>2. reply[q].id \in ContractIds
      <4>1. reply[q] \in ReplyType
        BY <1>1, <3>1 DEF ControlOK, TypeOK, Creates
      <4> QED
        BY <4>1 DEF ReplyType
    <3> QED
      BY <1>4, <1>12, <3>1, <3>2 DEF BillingInv
  <2> QED
    BY <2>1, <2>2
<1>14. \A i \in Requests : Billed(i) => rows[i].contract \in ContractIds
  BY <1>1 DEF Billed, Live, TypeOK, RowType
<1>15. \A i \in Requests : Billed(i)' =>
          \/ contracts'[rows'[i].contract].state = "live"
          \/ \E q \in Requests : Cancels(q)' /\ target'[q] = i
  BY <1>4, <1>7, <1>12, <1>14 DEF BillingInv, Billed, Live
<1> QED
  BY <1>4, <1>11, <1>13, <1>15 DEF BillingInv

\* fincode stops the contract of one row, and the request is about to say so there.
LEMMA StopKeepsBillingInv ==
    ASSUME NoFault, BillingInv, CancelInv', NEW r \in Requests, CancelContract(r)
    PROVE  BillingInv'
<1> DEFINE id == seen[r].contract
<1>1. /\ TypeOK /\ ControlOK /\ CancelInv
      /\ pc[r] = "cancel_call" /\ req[r] # None /\ id # None /\ contracts' = Stopped(id)
      /\ HasTarget(r)
  BY DEF BillingInv, CancelInv, IndInv, ControlOK, CancelContract
<1>2. req[r].op = "cancel"
  BY <1>1 DEF ControlOK, CancelInv, NobodyChanges, TypeOK, RequestType
<1>3. /\ target[r] \in Requests /\ rows[target[r]] # None /\ id = rows[target[r]].contract
      /\ id \in ContractIds
  BY <1>1, <1>2 DEF HasTarget, CancelInv, Loaded, TypeOK, RowType
<1>4. \E end : ReplyTo(r, id, end, "write")
  BY <1>2 DEF NoFault, CancelContract
<1> HIDE DEF id
<1>5. /\ pc'[r] = "write" /\ UNCHANGED <<rows, req, target>>
      /\ \A q \in Requests \ {r} : pc'[q] = pc[q] /\ reply'[q] = reply[q]
  BY <1>1, <1>4 DEF ReplyTo, TypeOK
<1>6. \A q \in Requests : Creates(q)' <=> Creates(q)
  BY <1>1, <1>2, <1>5 DEF Creates
<1>7. \A q \in Requests : Cancels(q)' <=> Cancels(q) \/ q = r
  BY <1>2, <1>5 DEF Cancels
<1>8. \A c \in ContractIds \ {id} : contracts'[c] = contracts[c]
  BY <1>1, <1>3 DEF Stopped, TypeOK
<1>9. Recorded(id, rows)
  BY <1>3 DEF Recorded
<1>10. \A q \in Requests : Creates(q) => q # r /\ reply[q].id \in ContractIds
  <2>1. \A q \in Requests : Creates(q) => reply[q] \in ReplyType
    BY <1>1 DEF ControlOK, TypeOK, Creates
  <2> QED
    BY <1>1, <2>1 DEF ReplyType, Creates
<1>11. \A c \in ContractIds : contracts'[c].state # "none" =>
        Recorded(c, rows') \/ Dropped(c)' \/ \E q \in Requests : Creates(q)' /\ reply'[q].id = c
  <2>1. \A c \in ContractIds \ {id} : Dropped(c) => Dropped(c)'
    BY <1>1, <1>5, <1>8 DEF Dropped
  <2> QED
    BY <1>5, <1>6, <1>8, <1>9, <1>10, <2>1 DEF BillingInv
<1>12. \A q \in Requests : Creates(q)' =>
          /\ reply'[q].id[1] = req'[q].user
          /\ contracts'[reply'[q].id].state = "live" \/ Recorded(reply'[q].id, rows')
  BY <1>5, <1>6, <1>8, <1>9, <1>10 DEF BillingInv
<1>13. \A i \in Requests : Billed(i) => rows[i].contract \in ContractIds
  BY <1>1 DEF Billed, Live, TypeOK, RowType
<1>14. ASSUME NEW i \in Requests, Billed(i)
       PROVE  \/ contracts'[rows[i].contract].state = "live"
              \/ \E q \in Requests : Cancels(q)' /\ target[q] = i
  <2>1. CASE rows[i].contract = id
    <3>1. i = target[r]
      BY <1>1, <1>3, <1>14, <2>1, NoneIsApart DEF BillingInv, Billed, Live
    <3> QED
      BY <1>7, <3>1
  <2>2. CASE rows[i].contract # id
    BY <1>7, <1>8, <1>13, <1>14, <2>2 DEF BillingInv
  <2> QED
    BY <2>1, <2>2
<1>15. \A i \in Requests : Billed(i)' =>
          \/ contracts'[rows'[i].contract].state = "live"
          \/ \E q \in Requests : Cancels(q)' /\ target'[q] = i
  BY <1>5, <1>14 DEF Billed, Live
<1> QED
  BY <1>5, <1>11, <1>12, <1>15 DEF BillingInv

\* The request that created a contract records it, unless another row has it already.
LEMMA WriteSubscribeKeepsBillingInv ==
    ASSUME BillingInv, CancelInv', [Next]_vars, NEW r \in Requests, WriteSubscribe(r)
    PROVE  BillingInv'
<1> DEFINE row == NewRow(r, reply[r].id, AppliedEnd(Null, reply[r].end))
<1>1. /\ TypeOK /\ ControlOK /\ CancelInv /\ UNCHANGED contracts
      /\ Creates(r) /\ ~Cancels(r) /\ rows[r] = None
  BY DEF BillingInv, CancelInv, IndInv, ControlOK, WriteSubscribe, Creates, Cancels
<1>2. \A i \in Requests : rows[i] # None => OnlyCancels(i)
  BY <1>1, NextOnlyCancels
<1>3. CASE ContractTaken(reply[r].id, r) /\ Rollback(r)
  <2>1. Recorded(reply[r].id, rows')
    BY <1>3 DEF ContractTaken, Recorded, Rollback
  <2> QED
    BY <1>1, <1>2, <1>3, <2>1, EndKeepsBillingInv DEF Rollback
<1>4. CASE ~ContractTaken(reply[r].id, r) /\ Commit(r, [View(r) EXCEPT ![r] = row])
  <2>1. rows'[r] = row /\ \A i \in Requests \ {r} : rows'[i] = View(r)[i]
    BY <1>1, <1>4, ViewIsTable DEF Commit
  <2>2. row.contract = reply[r].id /\ row.user = req[r].user
    BY DEF NewRow
  <2>3. row # None
    <3>1. /\ req[r] # None /\ reply[r] \in ReplyType
      BY <1>1 DEF ControlOK, TypeOK, Creates
    <3>2. reply[r].id \in ContractIds /\ AppliedEnd(Null, reply[r].end) \in OptTime
      BY <3>1 DEF ReplyType, AppliedEnd, OptTime
    <3> QED
      BY <1>1, <3>1, <3>2, NewRowIsRow, NoneIsApart
  <2> HIDE DEF row
  <2>4. Recorded(reply[r].id, rows')
    BY <2>1, <2>2, <2>3 DEF Recorded
  <2>5. \A i \in Requests : rows[i] = None /\ rows'[i] # None => i = r
    BY <1>1, <2>1, ViewIsTable
  <2> QED
    BY <1>1, <1>2, <1>4, <2>1, <2>2, <2>4, <2>5, EndKeepsBillingInv DEF Commit
<1> QED
  BY <1>3, <1>4 DEF WriteSubscribe

\* The contract of a row is in no other, so that the commit of a cancel never fails.
LEMMA WriteCancelKeepsBillingInv ==
    ASSUME BillingInv, CancelInv', [Next]_vars, NEW r \in Requests, WriteCancel(r)
    PROVE  BillingInv'
<1> DEFINE i == target[r]
           row == Updated(rows[i], seen[r], CancelledRow(r), TRUE)
<1>1. /\ TypeOK /\ ControlOK /\ CancelInv /\ UNCHANGED contracts /\ ~Creates(r)
  BY DEF BillingInv, CancelInv, IndInv, WriteCancel, Creates
<1>2. /\ i \in Requests /\ rows[i] # None
      /\ row.contract = rows[i].contract /\ row.cancelled
      /\ \/ Commit(r, [View(r) EXCEPT ![i] = row])
         \/ row.contract # None /\ ContractTaken(row.contract, i)
  BY <1>1, WriteCancelFacts
<1> HIDE DEF row
<1>3. ~(row.contract # None /\ ContractTaken(row.contract, i))
  BY <1>2 DEF BillingInv, ContractTaken
<1>4. rows' = [View(r) EXCEPT ![i] = row] /\ Forget(r)
  BY <1>2, <1>3 DEF Commit
<1>5. rows'[i] = row
  BY <1>1, <1>2, <1>4, ViewIsTable
<1>6. \A j \in Requests : IF rows[j] = None THEN rows'[j] = None ELSE OnlyCancels(j)
  BY <1>1, WriteCancelOnlyCancels
<1> QED
  BY <1>1, <1>2, <1>4, <1>5, <1>6, EndKeepsBillingInv

LEMMA NextKeepsBillingInv ==
    ASSUME NoFault, BillingInv, [Next]_vars, NobodyChanges'
    PROVE  BillingInv'
<1>1. CancelInv /\ CancelInv' /\ TypeOK /\ ControlOK
  BY NextKeepsCancelInv DEF BillingInv, CancelInv, IndInv
<1>2. \A i \in Requests : rows[i] # None => OnlyCancels(i)
  BY <1>1, NextOnlyCancels
<1>3. ASSUME NEW r \in Requests, pc[r] # "write", pc[r] # "done", UNCHANGED contracts,
             \/ Rollback(r) \/ Commit(r, View(r))
             \/ Commit(r, [View(r) EXCEPT ![r] = NewRow(r, None, Null)])
      PROVE  BillingInv'
  <2>1. ~Creates(r) /\ ~Cancels(r) /\ rows[r] = None /\ Forget(r)
    BY <1>1, <1>3 DEF Creates, Cancels, ControlOK, Commit, Rollback
  <2>2. \A i \in Requests : rows[i] = None /\ rows'[i] # None => rows'[i].contract = None
    BY <1>1, <1>3, <2>1, ViewIsTable DEF Rollback, Commit, NewRow
  <2> QED
    BY <1>1, <1>2, <1>3, <2>1, <2>2, EndKeepsBillingInv
<1>4. ASSUME NEW r \in Requests, Moves(r), UNCHANGED <<rows, contracts>>,
             pc[r] \notin {"write", "done"}, ~Creates(r)'
      PROVE  BillingInv'
  BY <1>1, <1>4, MoveKeepsBillingInv DEF Creates, Cancels
<1>5. ASSUME NEW r \in Requests, NEW label, Goto(r, label), label # "write",
             pc[r] \notin {"write", "done"}, UNCHANGED contracts
      PROVE  BillingInv'
  <2>1. Moves(r) /\ UNCHANGED rows /\ (r \in DOMAIN pc => pc'[r] = label)
    BY <1>5 DEF Goto, Moves
  <2> QED
    BY <1>1, <1>4, <1>5, <2>1 DEF Creates, TypeOK
<1>6. ASSUME NEW r \in Requests, Serve(r) PROVE BillingInv'
  <2>1. CASE Finalize(r) \/ Replay(r) \/ SubscribeGuard(r) \/ Insert(r)
    BY <1>3, <1>5, <2>1 DEF Finalize, Replay, SubscribeGuard, Insert
  <2>2. CASE CancelGuard(r)
    <3>1. pc[r] = "guard" /\ req[r].op = "cancel" /\ UNCHANGED contracts
      BY <2>2 DEF CancelGuard
    <3>2. ASSUME NEW i, NEW label, Load(r, i, label) PROVE BillingInv'
      <4>1. Moves(r) /\ UNCHANGED <<rows, req>>
        BY <3>2 DEF Load, Moves
      <4> QED
        BY <1>4, <3>1, <4>1 DEF Creates
    <3> QED
      BY <1>3, <2>2, <3>1, <3>2 DEF CancelGuard
  <2>3. CASE ChangeGuard(r) \/ WriteChange(r)
    BY <1>1, <2>3 DEF ChangeGuard, WriteChange, CancelInv, ControlOK, NobodyChanges
  <2> QED
    BY <1>1, <1>6, <2>1, <2>2, <2>3, CreateKeepsBillingInv, StopKeepsBillingInv,
       WriteSubscribeKeepsBillingInv, WriteCancelKeepsBillingInv DEF Serve
<1>7. ASSUME NEW r \in Requests, NEW q \in ClientRequests, Receive(r, q) PROVE BillingInv'
  <2>1. /\ Moves(r) /\ UNCHANGED <<rows, contracts>>
        /\ pc[r] = "unsent" /\ pc'[r] = "finalize"
    BY <1>1, <1>7 DEF Receive, Moves, TypeOK
  <2> QED
    BY <1>4, <2>1 DEF Creates
<1>8. CASE Tick \/ UNCHANGED vars
  <2>1. UNCHANGED <<rows, contracts, pc, req, finals, target, seen, reply>>
    BY <1>8 DEF Tick, txVars, vars
  <2> QED
    BY <1>1, <2>1 DEF BillingInv, Billed, Live, Creates, Cancels, Dropped
<1> QED
  BY <1>6, <1>7, <1>8 DEF Next, Fail, NoFault

LEMMA InitEstablishesBillingInv == Init => BillingInv
  BY InitEstablishesCancelInv DEF Init, BillingInv, Billed, Live, Creates

-----------------------------------------------------------------------------
(* The theorems about what fincode charges.                                *)

\* Two contracts of a user are never charged together.
LEMMA ChargedIsOne ==
    ASSUME BillingInv, NEW u \in Users, NEW c \in LiveContracts(u), NEW d \in LiveContracts(u)
    PROVE  c = d
<1>1. /\ CancelInv /\ TypeOK /\ IndexReserved /\ OneContract
      /\ c \in ContractIds /\ c[1] = u /\ contracts[c].state = "live"
      /\ d \in ContractIds /\ d[1] = u /\ contracts[d].state = "live"
  BY DEF BillingInv, CancelInv, IndInv, LiveContracts
<1>2. ASSUME NEW i \in Requests, rows[i] # None, rows[i].contract \in {c, d}
      PROVE  Live(i, rows) /\ ~rows[i].cancelled /\ rows[i].user = u
  <2>1. rows[i].contract # None /\ rows[i].status \in Statuses
    BY <1>1, <1>2, NoneIsApart DEF TypeOK, RowType
  <2>2. ~rows[i].cancelled /\ rows[i].status # "cancelled"
    BY <1>1, <1>2, <2>1 DEF CancelInv, CancelledNotCharged
  <2> QED
    BY <1>1, <1>2, <2>1, <2>2 DEF BillingInv, Live, LiveStatuses, Statuses
<1>3. ASSUME NEW q \in Requests, Creates(q), reply[q].id \in {c, d}
      PROVE  HoldsInsert(q) /\ req[q].user = u
  BY <1>1, <1>3 DEF BillingInv, HoldsInsert, Creates
<1>4. \A q, i \in Requests : Creates(q) /\ reply[q].id \in {c, d} /\ rows[i] # None
                               => rows[i].contract \notin {c, d}
  BY <1>1, <1>2, <1>3 DEF IndexReserved, CancelInv
<1>5. \/ Recorded(c, rows) /\ Recorded(d, rows)
      \/ \E p, q \in Requests : /\ Creates(p) /\ reply[p].id = c
                                /\ Creates(q) /\ reply[q].id = d
  BY <1>1, <1>4 DEF BillingInv, Recorded, Dropped
<1>6. CASE Recorded(c, rows) /\ Recorded(d, rows)
  BY <1>2, <1>6 DEF Recorded, OneContract, IndInv, CancelInv, BillingInv
<1>7. CASE \E p, q \in Requests : /\ Creates(p) /\ reply[p].id = c
                                  /\ Creates(q) /\ reply[q].id = d
  BY <1>1, <1>3, <1>7 DEF IndexReserved
<1> QED
  BY <1>5, <1>6, <1>7

\* A set whose elements are all equal has at most one.
LEMMA AtMostOneElement ==
    ASSUME NEW S, \A c, d \in S : c = d
    PROVE  Cardinality(S) <= 1
<1>1. CASE S = {}
  <2>1. Cardinality(S) = 0
    BY <1>1, FS_EmptySet
  <2> QED
    BY <2>1
<1>2. ASSUME NEW c \in S PROVE Cardinality(S) <= 1
  <2>1. S = {c}
    BY <1>2
  <2>2. Cardinality({c}) = 1
    BY FS_Singleton
  <2> QED
    BY <2>1, <2>2
<1> QED
  BY <1>1, <1>2

LEMMA BillingInvChargesOnce == BillingInv => AtMostOneCharged
<1> SUFFICES ASSUME BillingInv, NEW u \in Users PROVE Cardinality(LiveContracts(u)) <= 1
  BY DEF AtMostOneCharged
<1>1. \A c, d \in LiveContracts(u) : c = d
  BY ChargedIsOne
<1> QED
  BY <1>1, AtMostOneElement

LEMMA BillingInvFollowsRows == BillingInv => BillingAgrees
<1> SUFFICES ASSUME BillingInv, NEW u \in Users, Quiet(u)
             PROVE  LiveContracts(u) = {rows[i].contract : i \in BilledRows(u)}
  BY DEF BillingAgrees
<1>1. TypeOK /\ ControlOK /\ CancelInv
  BY DEF BillingInv, CancelInv, IndInv
<1>2. ASSUME NEW i \in BilledRows(u) PROVE rows[i].contract \in LiveContracts(u)
  <2>1. /\ i \in Requests /\ Billed(i) /\ rows[i].user = u /\ rows[i] # None
        /\ rows[i].contract \in ContractIds
    BY <1>1, <1>2 DEF BilledRows, RowsOf, Billed, TypeOK, RowType
  <2>2. \A r \in Requests : Cancels(r) => req[r].user = rows[target[r]].user /\ r \in InFlight
    BY <1>1 DEF ControlOK, HasTarget, Cancels, InFlight
  <2> QED
    BY <2>1, <2>2 DEF BillingInv, Quiet, LiveContracts, Billed
<1>3. ASSUME NEW c \in LiveContracts(u) PROVE \E i \in BilledRows(u) : rows[i].contract = c
  <2>1. c \in ContractIds /\ c[1] = u /\ contracts[c].state = "live"
    BY <1>3 DEF LiveContracts
  <2>2. \A q \in Requests : Creates(q) => reply[q].id # c
    BY <2>1 DEF BillingInv, Quiet, InFlight, Creates
  <2>3. PICK i \in Requests : rows[i] # None /\ rows[i].contract = c
    BY <2>1, <2>2 DEF BillingInv, Recorded, Dropped
  <2>4. rows[i].status \in Statuses /\ rows[i].contract # None
    BY <1>1, <2>1, <2>3, NoneIsApart DEF TypeOK, RowType
  <2>5. ~rows[i].cancelled /\ rows[i].status # "cancelled"
    BY <1>1, <2>1, <2>3, <2>4 DEF CancelInv, CancelledNotCharged
  <2>6. rows[i].user = u
    BY <2>1, <2>3, <2>4 DEF BillingInv
  <2> QED
    BY <2>3, <2>4, <2>5, <2>6 DEF BilledRows, RowsOf, Live, LiveStatuses, Statuses
<1> QED
  BY <1>2, <1>3

\* Users are never charged for two contracts at a time, not even between the call that creates one
\* and the commit that records it: the INSERT before the call keeps a racing subscribe out.
THEOREM NeverChargedTwice == ASSUME NoChange, NoFault PROVE Spec => []AtMostOneCharged
<1>1. Init => BillingInv
  BY InitEstablishesBillingInv
<1>2. BillingInv /\ [Next]_vars => BillingInv'
  BY NextKeepsBillingInv, NobodyEverChanges DEF BillingInv
<1> QED
  BY <1>1, <1>2, BillingInvChargesOnce, PTL DEF Spec

\* Whenever no request of a user is being served, fincode charges exactly the contracts the user's
\* rows say are charged.
THEOREM BillingFollowsRows == ASSUME NoChange, NoFault PROVE Spec => []BillingAgrees
<1>1. Init => BillingInv
  BY InitEstablishesBillingInv
<1>2. BillingInv /\ [Next]_vars => BillingInv'
  BY NextKeepsBillingInv, NobodyEverChanges DEF BillingInv
<1> QED
  BY <1>1, <1>2, BillingInvFollowsRows, PTL DEF Spec

-----------------------------------------------------------------------------
(* Clients that change plans as well, each while no other request is       *)
(* being served (ChangesAlone), and nothing fails.                         *)

\* No client sends an Idempotency-Key, like the shipped frontend (HomePage.tsx).
NoKeys == \A q \in ClientRequests : q.key = None

\* A contract that a row, or a request that is being served, knows.
Named(c) ==
    \E i \in Requests :
        \/ rows[i] # None /\ rows[i].contract = c
        \/ seen[i] # None /\ seen[i].contract = c
        \/ reply[i] # None /\ reply[i].id = c

\* A contract has the nonce of a request that has called fincode, so that one that has not will be
\* given a contract of its own.
FreshInv ==
    /\ IndInv
    /\ \A r \in Requests : req[r] # None => req[r].key = None
    /\ \A c \in ContractIds : contracts[c].state # "none" =>
          c[2] \in Requests /\ pc[c[2]] \in {"write", "done"}
    /\ \A c \in ContractIds : Named(c) => contracts[c].state # "none"

\* fincode's id of the contract that a request creates, without a key.
Own(r) == <<req[r].user, r>>

\* Where the requests come from, and where they go.
LEMMA RequestsStay ==
    ASSUME TypeOK, [Next]_vars, NEW r \in Requests
    PROVE  /\ \/ req'[r] \in {req[r], None}
              \/ \E q \in ClientRequests : Receive(r, q) /\ req'[r] = q
           /\ pc[r] \in {"write", "done"} => pc'[r] \in {"write", "done"}
<1>1. ASSUME NEW p \in Requests, Serve(p) \/ Fail(p)
      PROVE  /\ req'[r] \in {req[r], None}
             /\ pc[r] \in {"write", "done"} => pc'[r] \in {"write", "done"}
  <2>1. CASE Finalize(p) \/ Replay(p) \/ SubscribeGuard(p) \/ Insert(p) \/ WriteSubscribe(p) \/ Fail(p)
    BY <2>1 DEF TypeOK, Finalize, Replay, SubscribeGuard, Insert, WriteSubscribe, Fail, InFlight, Goto,
                Rollback, Commit, Forget
  <2>2. CASE CreateContract(p) \/ CancelContract(p) \/ ChangeGuard(p) \/ CancelGuard(p)
    BY <2>2 DEF TypeOK, CreateContract, CancelContract, ChangeGuard, CancelGuard, Load, ReplyTo,
                Rollback, Commit, Forget
  <2>3. CASE WriteChange(p) \/ WriteCancel(p)
    BY <2>3 DEF TypeOK, WriteChange, WriteCancel, Flush, Rollback, Commit, Forget
  <2> QED
    BY <1>1, <2>1, <2>2, <2>3 DEF Serve
<1>2. ASSUME NEW p \in Requests, NEW q \in ClientRequests, Receive(p, q)
      PROVE  /\ req'[r] = req[r] \/ (p = r /\ req'[r] = q)
             /\ pc[r] \in {"write", "done"} => pc'[r] \in {"write", "done"}
  BY <1>2 DEF TypeOK, Receive
<1>3. CASE Tick \/ UNCHANGED vars
  BY <1>3 DEF TypeOK, Tick, txVars, vars
<1> QED
  BY <1>1, <1>2, <1>3 DEF Next

\* What the columns of a row name after a flush was named before.
LEMMA RowsNameOld ==
    ASSUME FreshInv, [Next]_vars, NEW i \in Requests, rows'[i] # None, rows'[i].contract # None
    PROVE  Named(rows'[i].contract)
<1>1. TypeOK /\ ControlOK
  BY DEF FreshInv, IndInv
<1>2. CASE UNCHANGED rows
  BY <1>2 DEF Named
<1>3. ASSUME NEW r \in Requests, rows[i] # None, rows'[i] = View(r)[i] PROVE Named(rows'[i].contract)
  <2>1. View(r)[i].contract = rows[i].contract
    BY <1>1, <1>3 DEF View, TypeOK, RowType
  <2> QED
    BY <1>3, <2>1 DEF Named
<1>4. ASSUME NEW r \in Requests, Commit(r, View(r)) PROVE Named(rows'[i].contract)
  <2>1. rows'[i] = View(r)[i] /\ rows[i] # None
    BY <1>1, <1>4, ViewIsTable DEF Commit
  <2> QED
    BY <1>3, <2>1
<1>5. ASSUME NEW r \in Requests, NEW j \in Requests, NEW row, Commit(r, [View(r) EXCEPT ![j] = row]),
             row.contract = None \/ Named(row.contract)
      PROVE  Named(rows'[i].contract)
  <2>1. CASE i = j
    BY <1>1, <1>5, <2>1, ViewIsTable DEF Commit
  <2>2. CASE i # j
    <3>1. rows'[i] = View(r)[i] /\ rows[i] # None
      BY <1>1, <1>5, <2>2, ViewIsTable DEF Commit
    <3> QED
      BY <1>3, <3>1
  <2> QED
    BY <2>1, <2>2
<1>6. ASSUME NEW r \in Requests, Serve(r) PROVE Named(rows'[i].contract)
  <2>1. CASE Finalize(r) \/ Replay(r) \/ SubscribeGuard(r)
    BY <1>2, <1>4, <2>1 DEF Finalize, Replay, SubscribeGuard, Goto, Rollback
  <2>2. CASE Insert(r) \/ WriteSubscribe(r)
    <3>1. ASSUME NEW contract, NEW end, contract = None \/ Named(contract),
                 Commit(r, [View(r) EXCEPT ![r] = NewRow(r, contract, end)])
          PROVE  Named(rows'[i].contract)
      <4>1. NewRow(r, contract, end).contract = contract
        BY DEF NewRow
      <4> HIDE DEF NewRow
      <4> QED
        BY <1>5, <3>1, <4>1
    <3>2. WriteSubscribe(r) => Named(reply[r].id)
      BY <1>1 DEF WriteSubscribe, ControlOK, Named
    <3> QED
      BY <1>2, <2>2, <3>1, <3>2 DEF Insert, WriteSubscribe, Goto, Rollback
  <2>3. CASE CreateContract(r) \/ CancelContract(r) \/ ChangeGuard(r) \/ CancelGuard(r)
    BY <1>2, <1>4, <2>3 DEF CreateContract, CancelContract, ChangeGuard, CancelGuard, ReplyTo, Load, Rollback
  <2>4. ASSUME NEW set, NEW stamp, HasTarget(r), Flush(r, set, stamp),
               set.contract = None \/ Named(set.contract)
        PROVE  Named(rows'[i].contract)
    <3> PICK row : row = Updated(rows[target[r]], seen[r], set, stamp)
      OBVIOUS
    <3>1. target[r] \in Requests /\ rows[target[r]] # None
      BY <2>4 DEF HasTarget
    <3>2. row.contract \in {set.contract, rows[target[r]].contract}
      BY DEF Updated
    <3>3. row.contract = None \/ Named(row.contract)
      BY <2>4, <3>1, <3>2 DEF Named
    <3>4. Rollback(r) \/ Commit(r, [View(r) EXCEPT ![target[r]] = row])
      BY <2>4 DEF Flush
    <3> QED
      BY <1>2, <1>5, <3>1, <3>3, <3>4 DEF Rollback
  <2>5. CASE WriteChange(r) \/ WriteCancel(r)
    <3>1. /\ HasTarget(r) /\ seen[r] \in RowType /\ seen[r] # None
          /\ WriteChange(r) /\ req[r].plan # Free => reply[r] # None
      BY <1>1, <2>5 DEF WriteChange, WriteCancel, ControlOK, HasTarget, TypeOK
    <3>2. WriteChange(r) => ChangedRow(r).contract = None \/ Named(ChangedRow(r).contract)
      BY <3>1 DEF ChangedRow, RowType, Named
    <3>3. WriteCancel(r) => CancelledRow(r).contract = None \/ Named(CancelledRow(r).contract)
      BY <3>1 DEF CancelledRow, RowType, Named
    <3> QED
      BY <2>4, <2>5, <3>1, <3>2, <3>3 DEF WriteChange, WriteCancel
  <2> QED
    BY <1>6, <2>1, <2>2, <2>3, <2>5 DEF Serve
<1> QED
  BY <1>2, <1>6 DEF Next, Receive, Fail, Rollback, Tick, txVars, vars

\* The only contract that a step gives a name to is the one it creates.
LEMMA NamesAreOldOrCreated ==
    ASSUME NoKeys, FreshInv, [Next]_vars, NEW c \in ContractIds, Named(c)'
    PROVE  Named(c) \/ \E r \in Requests : CreateContract(r) /\ c = Own(r)
<1>1. TypeOK /\ ControlOK
  BY DEF FreshInv, IndInv
<1>2. c # None
  BY NoneIsApart
<1>3. PICK i \in Requests : \/ rows'[i] # None /\ rows'[i].contract = c
                            \/ seen'[i] # None /\ seen'[i].contract = c
                            \/ reply'[i] # None /\ reply'[i].id = c
  BY DEF Named
<1>4. CASE rows'[i] # None /\ rows'[i].contract = c
  BY <1>2, <1>4, RowsNameOld
<1>5. ASSUME seen'[i] \in {seen[i], None}, reply'[i] \in {reply[i], None}
      PROVE  (rows'[i] # None /\ rows'[i].contract = c) \/ Named(c)
  BY <1>3, <1>5 DEF Named
<1>6. ASSUME NEW r \in Requests, Forget(r) PROVE seen'[i] \in {seen[i], None} /\ reply'[i] \in {reply[i], None}
  BY <1>1, <1>6 DEF Forget, TypeOK
<1>7. ASSUME NEW r \in Requests, NEW j \in UsableRows(r), NEW label, Load(r, j, label)
      PROVE  (rows'[i] # None /\ rows'[i].contract = c) \/ Named(c)
  <2>1. reply' = reply /\ (seen'[i] = seen[i] \/ seen'[i] = View(r)[j])
    BY <1>1, <1>7 DEF Load, TypeOK
  <2>2. j \in Requests /\ rows[j] # None /\ View(r)[j].contract = rows[j].contract
    <3>1. j \in Requests /\ View(r)[j] # None
      BY DEF UsableRows, RowsOf
    <3>2. rows[j] # None
      BY <1>1, <3>1, ViewIsTable
    <3> QED
      BY <1>1, <3>1, <3>2 DEF View, TypeOK, RowType
  <2> QED
    BY <1>3, <2>1, <2>2 DEF Named
<1>8. ASSUME NEW r \in Requests, NEW id, NEW end, NEW label, ReplyTo(r, id, end, label), id # c
      PROVE  (rows'[i] # None /\ rows'[i].contract = c) \/ Named(c)
  <2>1. seen' = seen /\ (reply'[i] = reply[i] \/ reply'[i] = [id |-> id, end |-> end])
    BY <1>1, <1>8 DEF ReplyTo, TypeOK
  <2> QED
    BY <1>3, <1>8, <2>1 DEF Named
<1>9. ASSUME NEW r \in Requests, Serve(r)
      PROVE  \/ (rows'[i] # None /\ rows'[i].contract = c) \/ Named(c)
             \/ CreateContract(r) /\ c = Own(r)
  <2>1. CASE Finalize(r) \/ Replay(r) \/ SubscribeGuard(r) \/ Insert(r) \/ WriteSubscribe(r)
    BY <1>5, <1>6, <2>1 DEF Finalize, Replay, SubscribeGuard, Insert, WriteSubscribe, Goto, Rollback, Commit
  <2>2. CASE CreateContract(r)
    <3>1. Nonce(r) = r
      BY <1>1, <2>2 DEF CreateContract, ControlOK, FreshInv, Nonce
    <3> QED
      BY <1>5, <1>6, <1>8, <2>2, <3>1 DEF CreateContract, Rollback, Own
  <2>3. CASE CancelContract(r)
    <3>1. seen[r] # None /\ (Rollback(r) \/ \E end, label : ReplyTo(r, seen[r].contract, end, label))
      BY <1>1, <2>3 DEF CancelContract, ControlOK, HasTarget
    <3>2. seen[r].contract = c => Named(c)
      BY <3>1 DEF Named
    <3> QED
      BY <1>5, <1>6, <1>8, <3>1, <3>2 DEF Rollback
  <2>4. CASE ChangeGuard(r) \/ CancelGuard(r)
    BY <1>5, <1>6, <1>7, <2>4 DEF ChangeGuard, CancelGuard, Rollback, Commit
  <2>5. CASE WriteChange(r) \/ WriteCancel(r)
    BY <1>5, <1>6, <2>5 DEF WriteChange, WriteCancel, Flush, Rollback, Commit
  <2> QED
    BY <1>9, <2>1, <2>2, <2>3, <2>4, <2>5 DEF Serve
<1>10. CASE \E r \in Requests : Fail(r) \/ \E q \in ClientRequests : Receive(r, q)
  BY <1>4, <1>5, <1>6, <1>10 DEF Fail, Rollback, Receive
<1>11. CASE Tick \/ UNCHANGED vars
  BY <1>4, <1>5, <1>11 DEF Tick, txVars, vars
<1> QED
  BY <1>4, <1>9, <1>10, <1>11 DEF Next

\* No contract goes away, and only the two calls make one or name one.
LEMMA ContractsStay ==
    ASSUME FreshInv, [Next]_vars, NEW c \in ContractIds
    PROVE  /\ contracts[c].state # "none" => contracts'[c].state # "none"
           /\ contracts'[c].state = "none" \/ contracts[c].state # "none" \/ Named(c)
              \/ \E r \in Requests : CreateContract(r) /\ c = <<req[r].user, Nonce(r)>>
<1>1. TypeOK /\ ControlOK /\ contracts \in [ContractIds -> ContractType]
  BY DEF FreshInv, IndInv, TypeOK
<1>2. CASE UNCHANGED contracts
  BY <1>2
<1>3. ASSUME NEW r \in Requests, CreateContract(r)
      PROVE  \/ contracts'[c] = contracts[c]
             \/ contracts'[c].state = "live" /\ c = <<req[r].user, Nonce(r)>>
  BY <1>1, <1>3 DEF CreateContract, Created
<1>4. ASSUME NEW r \in Requests, CancelContract(r)
      PROVE  contracts'[c] = contracts[c] \/ (contracts'[c].state = "stopped" /\ Named(c))
  <2>1. contracts' = Stopped(seen[r].contract) /\ seen[r] # None
    BY <1>1, <1>4 DEF CancelContract, ControlOK, HasTarget
  <2>2. CASE seen[r].contract = c
    BY <1>1, <2>1, <2>2 DEF Stopped, Named, ContractType
  <2>3. CASE seen[r].contract # c
    BY <1>1, <2>1, <2>3 DEF Stopped
  <2> QED
    BY <2>2, <2>3
<1> QED
  BY <1>2, <1>3, <1>4 DEF Next, Serve, Receive, Finalize, Replay, SubscribeGuard, Insert, WriteSubscribe,
     ChangeGuard, CancelGuard, WriteChange, WriteCancel, Fail, Tick, vars

LEMMA NextKeepsFreshInv ==
    ASSUME NoKeys, FreshInv, [Next]_vars
    PROVE  FreshInv'
<1>1. IndInv' /\ TypeOK /\ ControlOK
  BY NextKeepsIndInv DEF FreshInv, IndInv
<1>2. \A r \in Requests : req'[r] # None => req'[r].key = None
  BY <1>1, RequestsStay DEF FreshInv, NoKeys
<1>3. ASSUME NEW r \in Requests, CreateContract(r)
      PROVE  /\ <<req[r].user, Nonce(r)>> = Own(r) /\ Own(r)[2] = r
             /\ pc'[r] \in {"write", "done"} /\ contracts'[Own(r)].state # "none"
  <2>1. Nonce(r) = r /\ req[r] \in RequestType
    BY <1>1, <1>3, NoneIsApart DEF CreateContract, ControlOK, TypeOK, FreshInv, Nonce
  <2>2. Own(r) \in ContractIds
    BY <2>1 DEF Own, RequestType, ContractIds, Nonces
  <2>3. pc'[r] \in {"write", "done"}
    BY <1>1, <1>3 DEF CreateContract, ReplyTo, Rollback, Forget, TypeOK
  <2>4. contracts'[Own(r)].state # "none"
    BY <1>1, <1>3, <2>1, <2>2 DEF CreateContract, Created, Own, TypeOK
  <2> QED
    BY <2>1, <2>3, <2>4 DEF Own
<1>4. ASSUME NEW c \in ContractIds, contracts'[c].state # "none"
      PROVE  c[2] \in Requests /\ pc'[c[2]] \in {"write", "done"}
  <2>1. CASE contracts[c].state # "none" \/ Named(c)
    BY <1>1, <2>1, RequestsStay DEF FreshInv
  <2> QED
    BY <1>3, <1>4, <2>1, ContractsStay
<1>5. ASSUME NEW c \in ContractIds, Named(c)' PROVE contracts'[c].state # "none"
  BY <1>3, <1>5, NamesAreOldOrCreated, ContractsStay DEF FreshInv
<1> QED
  BY <1>1, <1>2, <1>4, <1>5 DEF FreshInv

LEMMA InitEstablishesFreshInv == Init => FreshInv
  BY InitEstablishesIndInv DEF Init, FreshInv, Named

\* What the rows and the contracts have in common whoever is served.
RowsSettled ==
    /\ \A i \in Requests : rows[i] # None => rows[i].status # "unpaid"
    /\ \A q \in Requests : \A i \in finals[q] : rows[i].cancelled
    /\ CancelledNotCharged
    /\ \A i \in Requests : rows[i] # None /\ rows[i].contract # None =>
          /\ rows[i].contract[1] = rows[i].user
          /\ \A j \in Requests \ {i} : rows[j] # None => rows[j].contract # rows[i].contract

\* The only request that is being served changes a plan.
AloneWith(r) ==
    /\ InFlight = {r} /\ req[r].op = "change" /\ pc[r] # "replay"
    /\ \A q \in Requests \ {r} : req[q] # None => req[q].op # "change"

\* It has stopped the contract of its row; it has created the new one.
Stops(r) == pc[r] \in {"create_call", "write"}
Renews(r) == pc[r] = "write" /\ req[r].plan # Free

\* It knows its row as it is.
RowLoaded(r) ==
    /\ pc[r] = "cancel_call" \/ Stops(r) =>
          seen[r] = rows[target[r]] /\ seen[r].status = "active" /\ ~seen[r].cancelled
    /\ Stops(r) /\ seen[r].contract # None => contracts[seen[r].contract].state = "stopped"
    /\ pc[r] = "create_call" => req[r].plan # Free
    /\ Renews(r) =>
          /\ reply[r].id = Own(r) /\ contracts[Own(r)].state = "live"
          /\ ~Recorded(Own(r), rows)

\* As in BillingInv, with the contracts in the hands of the change.
ChargesHeld(r) ==
    /\ \A c \in ContractIds : contracts[c].state # "none" =>
          Recorded(c, rows) \/ Dropped(c) \/ (Renews(r) /\ c = Own(r))
    /\ \A i \in Requests : Billed(i) =>
          contracts[rows[i].contract].state = "live" \/ (Stops(r) /\ target[r] = i)

\* A plan change is being served, alone.
Changing(r) == IndInv /\ RowsSettled /\ AloneWith(r) /\ RowLoaded(r) /\ ChargesHeld(r)

\* With plan changes that overlap nothing.
AloneInv == FreshInv /\ (BillingInv \/ \E r \in Requests : Changing(r))

LEMMA BillingInvSettlesRows == BillingInv => RowsSettled
  BY DEF BillingInv, CancelInv, RowsSettled

\* A cancelled row stays so, with the contract it has.
CancelledStays ==
    \A i \in Requests :
        rows[i] # None /\ rows[i].status = "cancelled" =>
            rows'[i].status = "cancelled" /\ rows'[i].contract = rows[i].contract

\* What a request flushes without having changed it is the table, with some rows finalized.
LEMMA ViewCancels ==
    ASSUME TypeOK, ControlOK, RowsSettled, NEW r \in Requests, NEW i \in Requests, rows[i] # None
    PROVE  /\ View(r)[i] # None /\ View(r)[i].user = rows[i].user
           /\ View(r)[i].contract = rows[i].contract /\ View(r)[i].cancelled = rows[i].cancelled
           /\ View(r)[i].status = rows[i].status \/ (rows[i].cancelled /\ View(r)[i].status = "cancelled")
           /\ ~rows[i].cancelled => View(r)[i] = rows[i]
<1>1. rows[i] \in RowType
  BY DEF TypeOK
<1>2. CASE i \notin finals[r]
  BY <1>2 DEF View
<1>3. CASE i \in finals[r]
  <2>1. View(r)[i] = [rows[i] EXCEPT !.status = "cancelled"] /\ rows[i].cancelled
    BY <1>3 DEF View, RowsSettled
  <2>2. View(r)[i] # None
    BY <1>1, ViewIsTable
  <2>3. /\ View(r)[i].user = rows[i].user /\ View(r)[i].contract = rows[i].contract
        /\ View(r)[i].cancelled = rows[i].cancelled /\ View(r)[i].status = "cancelled"
    BY <1>1, <2>1 DEF RowType
  <2> QED
    BY <2>1, <2>2, <2>3
<1> QED
  BY <1>2, <1>3

\* When the change has ended, nobody is served, and what holds then is BillingInv.
LEMMA ChangeEnds ==
    ASSUME NEW r \in Requests, Changing(r), IndInv', Forget(r), RowsSettled', UNCHANGED contracts,
           \A c \in ContractIds : contracts[c].state # "none" => Recorded(c, rows') \/ Dropped(c)',
           \A i \in Requests : Billed(i)' => contracts[rows'[i].contract].state = "live"
    PROVE  BillingInv'
<1>1. TypeOK /\ InFlight = {r} /\ \A q \in Requests \ {r} : req[q] # None => req[q].op # "change"
  BY DEF Changing, IndInv, AloneWith
<1>2. /\ pc'[r] = "done" /\ req'[r] = None
      /\ \A q \in Requests \ {r} : pc'[q] = pc[q] /\ req'[q] = req[q]
  BY <1>1 DEF Forget, TypeOK
<1>3. \A q \in Requests : pc'[q] \in {"unsent", "done"}
  BY <1>1, <1>2 DEF InFlight
<1>4. NobodyChanges'
  BY <1>1, <1>2 DEF NobodyChanges
<1>5. \A q \in Requests : ~Creates(q)' /\ ~Cancels(q)' /\ ~Loaded(q)'
  BY <1>3 DEF Creates, Cancels, Loaded
<1>6. CancelInv'
  BY <1>4, <1>5 DEF CancelInv, RowsSettled
<1> QED
  BY <1>5, <1>6 DEF BillingInv, RowsSettled

\* It ends before it has stopped a contract.
LEMMA ChangeEndsEarly ==
    ASSUME NEW r \in Requests, Changing(r), IndInv', ~Stops(r), UNCHANGED contracts,
           Rollback(r) \/ Commit(r, View(r))
    PROVE  BillingInv' /\ CancelledStays
<1>1. TypeOK /\ ControlOK /\ RowsSettled /\ Forget(r)
  BY DEF Changing, IndInv, Rollback, Commit
<1>2. ASSUME NEW i \in Requests
      PROVE  /\ rows'[i] = None <=> rows[i] = None
             /\ rows[i] # None =>
                  /\ rows'[i].user = rows[i].user /\ rows'[i].contract = rows[i].contract
                  /\ rows'[i].cancelled = rows[i].cancelled
                  /\ rows'[i].status = rows[i].status \/ (rows[i].cancelled /\ rows'[i].status = "cancelled")
  <2>1. CASE Rollback(r)
    BY <2>1 DEF Rollback
  <2>2. CASE Commit(r, View(r))
    BY <1>1, <2>2, ViewCancels, ViewIsTable DEF Commit
  <2> QED
    BY <2>1, <2>2
<1>3. pc'[r] = "done" /\ \A q \in Requests : finals'[q] \subseteq finals[q] /\ (q # r => pc'[q] = pc[q])
  BY <1>1 DEF Forget, TypeOK
<1>4. RowsSettled'
  <2>1. \A i \in Requests : rows'[i] # None => rows'[i].status # "unpaid"
    BY <1>1, <1>2 DEF RowsSettled
  <2>2. \A q \in Requests : \A i \in finals'[q] : rows'[i].cancelled
    BY <1>1, <1>2, <1>3 DEF RowsSettled, ControlOK, TypeOK
  <2>3. CancelledNotCharged'
    BY <1>1, <1>2 DEF RowsSettled, CancelledNotCharged
  <2>4. \A i \in Requests : rows'[i] # None /\ rows'[i].contract # None =>
          /\ rows'[i].contract[1] = rows'[i].user
          /\ \A j \in Requests \ {i} : rows'[j] # None => rows'[j].contract # rows'[i].contract
    BY <1>1, <1>2 DEF RowsSettled
  <2> QED
    BY <2>1, <2>2, <2>3, <2>4 DEF RowsSettled
<1>5. \A c \in ContractIds : contracts[c].state # "none" => Recorded(c, rows') \/ Dropped(c)'
  <2>1. \A c \in ContractIds : contracts[c].state # "none" => Recorded(c, rows) \/ Dropped(c)
    BY DEF Changing, ChargesHeld, Renews, Stops
  <2>2. \A c : Recorded(c, rows) => Recorded(c, rows')
    BY <1>2 DEF Recorded
  <2>3. \A c : Dropped(c) => Dropped(c)'
    BY <1>3 DEF Dropped
  <2> QED
    BY <2>1, <2>2, <2>3
<1>6. \A i \in Requests : Billed(i)' => contracts[rows'[i].contract].state = "live"
  <2>1. \A i \in Requests : Billed(i)' => Billed(i)
    BY <1>2 DEF Billed, Live, LiveStatuses
  <2> QED
    BY <1>2, <2>1 DEF Changing, ChargesHeld, Billed, Live
<1>7. CancelledStays
  BY <1>2 DEF CancelledStays
<1> QED
  BY <1>1, <1>4, <1>5, <1>6, <1>7, ChangeEnds

\* A step of the change that leaves the rows alone and does not end it.
LEMMA ChangeGoesOn ==
    ASSUME NEW r \in Requests, Changing(r), IndInv', UNCHANGED <<rows, req, finals>>,
           pc'[r] \notin {"unsent", "done", "replay"}, \A q \in Requests \ {r} : pc'[q] = pc[q],
           \A c \in ContractIds : contracts[c].state = "stopped" => contracts'[c].state = "stopped",
           RowLoaded(r)', ChargesHeld(r)'
    PROVE  Changing(r)' /\ CancelledStays
<1>1. TypeOK /\ RowsSettled /\ AloneWith(r) /\ r \in InFlight
  BY DEF Changing, IndInv, AloneWith
<1>2. InFlight' = InFlight
  BY <1>1 DEF InFlight
<1>3. AloneWith(r)'
  BY <1>1, <1>2 DEF AloneWith
<1>4. RowsSettled'
  <2>1. \A i \in Requests : rows[i] # None /\ rows[i].contract # None => rows[i].contract \in ContractIds
    BY <1>1 DEF TypeOK, RowType
  <2>2. CancelledNotCharged'
    BY <1>1, <2>1 DEF RowsSettled, CancelledNotCharged
  <2> QED
    BY <1>1, <2>2 DEF RowsSettled
<1> QED
  BY <1>3, <1>4 DEF Changing, CancelledStays

\* get_active returned a row that is active and whose cancellation is not scheduled.
LEMMA ChangeGuardSettles ==
    ASSUME NEW r \in Requests, FreshInv, Changing(r), IndInv', ChangeGuard(r)
    PROVE  (BillingInv' \/ Changing(r)') /\ CancelledStays
<1>1. /\ TypeOK /\ ControlOK /\ RowsSettled /\ ChargesHeld(r) /\ pc[r] = "guard" /\ ~Stops(r) /\ ~Renews(r)
      /\ UNCHANGED <<contracts, now>>
  BY DEF Changing, IndInv, ChangeGuard, Stops, Renews
<1>2. CASE Rollback(r) \/ Commit(r, View(r))
  BY <1>1, <1>2, ChangeEndsEarly
<1>3. ASSUME NEW i \in UsableRows(r), ~CancelAtPeriodEnd(View(r)[i], now),
             NEW label, Load(r, i, label), label \in {"cancel_call", "create_call", "write"},
             View(r)[i].contract # None => label = "cancel_call",
             label = "create_call" => req[r].plan # Free, label = "write" => req[r].plan = Free
      PROVE  Changing(r)' /\ CancelledStays
  <2>1. /\ i \in Requests /\ rows[i] # None /\ View(r)[i].status \in LiveStatuses
        /\ ~View(r)[i].cancelled \/ HasFuturePeriod(View(r)[i], now)
    BY <1>1, <1>3, ViewIsTable DEF UsableRows, RowsOf, Usable
  <2>2. View(r)[i].status = "active"
    BY <1>1, <2>1, ViewCancels DEF RowsSettled, LiveStatuses
  <2>3. ~rows[i].cancelled /\ View(r)[i] = rows[i]
    BY <1>1, <1>3, <2>1, <2>2, ViewCancels DEF CancelAtPeriodEnd
  <2>4. /\ UNCHANGED <<rows, req, finals, reply>> /\ target'[r] = i /\ seen'[r] = rows[i] /\ pc'[r] = label
        /\ \A q \in Requests \ {r} : pc'[q] = pc[q]
    BY <1>1, <1>3, <2>3 DEF Load, TypeOK
  <2>5. RowLoaded(r)'
    BY <1>3, <2>2, <2>3, <2>4 DEF RowLoaded, Stops, Renews
  <2>6. \A i_1 \in Requests : Billed(i_1)' => Billed(i_1)
    BY <2>4 DEF Billed, Live
  <2>7. \A c \in ContractIds : contracts[c].state # "none" => Recorded(c, rows') \/ Dropped(c)'
    BY <1>1, <2>4 DEF ChargesHeld, Recorded, Dropped
  <2>8. ChargesHeld(r)'
    BY <1>1, <2>4, <2>6, <2>7 DEF ChargesHeld
  <2> QED
    BY <1>1, <1>3, <2>4, <2>5, <2>8, ChangeGoesOn
<1> QED
  BY <1>2, <1>3 DEF ChangeGuard

\* fincode stops the contract of the row that was loaded.
LEMMA ChangeStops ==
    ASSUME NoFault, NEW r \in Requests, Changing(r), IndInv', CancelContract(r)
    PROVE  Changing(r)' /\ CancelledStays
<1>1. /\ TypeOK /\ ControlOK /\ RowsSettled /\ RowLoaded(r) /\ ChargesHeld(r)
      /\ pc[r] = "cancel_call" /\ ~Stops(r) /\ ~Renews(r) /\ req[r].op = "change"
  BY DEF Changing, IndInv, AloneWith, CancelContract, Stops, Renews
<1>2. PICK i, id : i = target[r] /\ id = seen[r].contract
  OBVIOUS
<1>3. /\ i \in Requests /\ rows[i] # None /\ seen[r] = rows[i] /\ rows[i].contract = id /\ id # None
      /\ rows[i] \in RowType /\ rows[i].status = "active" /\ ~rows[i].cancelled
  BY <1>1, <1>2 DEF ControlOK, HasTarget, RowLoaded, TypeOK
<1>4. id \in ContractIds
  BY <1>3 DEF RowType
<1>5. contracts'[id].state = "stopped" /\ \A c \in ContractIds \ {id} : contracts'[c] = contracts[c]
  BY <1>1, <1>2, <1>4 DEF CancelContract, Stopped, TypeOK, ContractType
<1>6. \E end : ReplyTo(r, id, end, IF req[r].plan # Free THEN "create_call" ELSE "write")
  BY <1>1, <1>2 DEF NoFault, CancelContract
<1>7. /\ UNCHANGED <<rows, req, finals, target, seen>>
      /\ pc'[r] = (IF req[r].plan # Free THEN "create_call" ELSE "write")
      /\ \A q \in Requests \ {r} : pc'[q] = pc[q]
  BY <1>1, <1>6 DEF ReplyTo, TypeOK
<1>8. Stops(r)' /\ ~Renews(r)'
  BY <1>7 DEF Stops, Renews
<1>9. RowLoaded(r)'
  BY <1>2, <1>3, <1>5, <1>7, <1>8 DEF RowLoaded
<1>10. \A c \in ContractIds : contracts'[c].state # "none" => Recorded(c, rows') \/ Dropped(c)'
  <2>1. Recorded(id, rows')
    BY <1>3, <1>7 DEF Recorded
  <2>2. \A c \in ContractIds \ {id} : Dropped(c) => Dropped(c)'
    BY <1>1, <1>5, <1>7 DEF Dropped
  <2>3. \A c \in ContractIds \ {id} : contracts[c].state # "none" => Recorded(c, rows') \/ Dropped(c)
    BY <1>1, <1>7 DEF ChargesHeld, Recorded
  <2> QED
    BY <1>5, <2>1, <2>2, <2>3
<1>11. ASSUME NEW j \in Requests, Billed(j)'
       PROVE  contracts'[rows'[j].contract].state = "live" \/ target'[r] = j
  <2>1. Billed(j) /\ rows[j] # None /\ rows[j].contract # None /\ rows[j].contract \in ContractIds
    BY <1>1, <1>7, <1>11 DEF Billed, Live, TypeOK, RowType
  <2>2. CASE rows[j].contract = id
    BY <1>1, <1>2, <1>3, <1>7, <2>1, <2>2 DEF RowsSettled
  <2>3. CASE rows[j].contract # id
    BY <1>1, <1>5, <1>7, <2>1, <2>3 DEF ChargesHeld
  <2> QED
    BY <2>2, <2>3
<1>12. ChargesHeld(r)'
  BY <1>8, <1>10, <1>11 DEF ChargesHeld
<1>13. \A c \in ContractIds : contracts[c].state = "stopped" => contracts'[c].state = "stopped"
  BY <1>5
<1> QED
  BY <1>7, <1>9, <1>12, <1>13, ChangeGoesOn

\* fincode creates the new contract: the nonce is fresh, so that no other one is returned.
LEMMA ChangeCreates ==
    ASSUME NoFault, NEW r \in Requests, FreshInv, Changing(r), IndInv', CreateContract(r)
    PROVE  Changing(r)' /\ CancelledStays
<1>1. /\ TypeOK /\ ControlOK /\ RowsSettled /\ RowLoaded(r) /\ ChargesHeld(r)
      /\ pc[r] = "create_call" /\ Stops(r) /\ ~Renews(r) /\ req[r].op = "change" /\ req[r] # None
  BY DEF Changing, IndInv, ControlOK, AloneWith, CreateContract, Stops, Renews
<1>2. PICK id : id = Own(r)
  OBVIOUS
<1>3. Nonce(r) = r /\ id \in ContractIds /\ id[2] = r /\ contracts[id].state = "none"
  <2>1. Nonce(r) = r /\ req[r] \in RequestType
    BY <1>1 DEF FreshInv, TypeOK, Nonce
  <2>2. id \in ContractIds /\ id[2] = r
    BY <1>2, <2>1 DEF Own, RequestType, ContractIds, Nonces
  <2> QED
    BY <1>1, <2>1, <2>2 DEF FreshInv
<1>4. contracts'[id].state = "live" /\ \A c \in ContractIds \ {id} : contracts'[c] = contracts[c]
  BY <1>1, <1>2, <1>3 DEF CreateContract, Created, Own, TypeOK
<1>5. \E end : ReplyTo(r, id, end, "write")
  BY <1>2, <1>3 DEF NoFault, CreateContract, Own
<1>6. /\ UNCHANGED <<rows, req, finals, target, seen>> /\ pc'[r] = "write" /\ reply'[r].id = id
      /\ \A q \in Requests \ {r} : pc'[q] = pc[q]
  BY <1>1, <1>5 DEF ReplyTo, TypeOK
<1>7. Own(r)' = id /\ Stops(r)'
  BY <1>2, <1>6 DEF Own, Stops
<1>8. \A i \in Requests : rows[i] # None => rows[i].contract # id
  BY <1>3 DEF FreshInv, Named
<1>9. seen[r].contract # None => seen[r].contract \in ContractIds
  BY <1>1 DEF ControlOK, HasTarget, TypeOK, RowType
<1>10. RowLoaded(r)'
  <2>1. seen[r].contract # None => contracts'[seen[r].contract].state = "stopped"
    BY <1>1, <1>3, <1>4, <1>9 DEF RowLoaded
  <2>2. ~Recorded(id, rows')
    BY <1>6, <1>8 DEF Recorded
  <2> QED
    BY <1>1, <1>4, <1>6, <1>7, <2>1, <2>2 DEF RowLoaded
<1>11. Renews(r)'
  BY <1>1, <1>6 DEF RowLoaded, Renews
<1>12. \A c \in ContractIds : contracts'[c].state # "none" => Recorded(c, rows') \/ Dropped(c)' \/ c = id
  BY <1>1, <1>4, <1>6 DEF ChargesHeld, Recorded, Dropped
<1>13. \A i \in Requests : Billed(i)' =>
          contracts'[rows'[i].contract].state = "live" \/ target'[r] = i
  <2>1. \A i \in Requests : Billed(i) => rows[i] # None /\ rows[i].contract \in ContractIds
    BY <1>1 DEF Billed, Live, TypeOK, RowType
  <2>2. \A i \in Requests : Billed(i)' => Billed(i)
    BY <1>6 DEF Billed, Live
  <2> QED
    BY <1>1, <1>4, <1>6, <1>8, <2>1, <2>2 DEF ChargesHeld
<1>14. ChargesHeld(r)'
  BY <1>7, <1>11, <1>12, <1>13 DEF ChargesHeld
<1>15. \A c \in ContractIds : contracts[c].state = "stopped" => contracts'[c].state = "stopped"
  BY <1>3, <1>4
<1> QED
  BY <1>6, <1>10, <1>14, <1>15, ChangeGoesOn

\* The commit of the change: the row has the new contract, or none, and the old one is dropped.
LEMMA ChangeCommits ==
    ASSUME NEW r \in Requests, FreshInv, Changing(r), IndInv', WriteChange(r)
    PROVE  BillingInv' /\ CancelledStays
<1>1. /\ TypeOK /\ ControlOK /\ RowsSettled /\ RowLoaded(r) /\ ChargesHeld(r) /\ InFlight = {r}
      /\ pc[r] = "write" /\ Stops(r) /\ (Renews(r) <=> req[r].plan # Free)
      /\ UNCHANGED contracts /\ Flush(r, ChangedRow(r), FALSE)
  BY DEF Changing, IndInv, AloneWith, WriteChange, Stops, Renews
<1>2. PICK i, set, row : /\ i = target[r] /\ set = ChangedRow(r)
                         /\ row = Updated(rows[i], seen[r], set, FALSE)
  OBVIOUS
<1>3. /\ i \in Requests /\ rows[i] # None /\ rows[i].user = req[r].user /\ seen[r] = rows[i]
      /\ rows[i] \in RowType /\ rows[i].status = "active" /\ ~rows[i].cancelled
  <2>1. HasTarget(r)
    BY <1>1 DEF ControlOK, Changing, AloneWith
  <2> QED
    BY <1>1, <1>2, <2>1 DEF HasTarget, RowLoaded, TypeOK
<1>4. set.status = "active" /\ set.cancelled = FALSE
      /\ set.contract = IF req[r].plan = Free THEN None ELSE Own(r)
  BY <1>1, <1>2, <1>3 DEF ChangedRow, RowType, RowLoaded
<1>5. /\ row.user = rows[i].user /\ row.status = "active" /\ row.cancelled = FALSE
      /\ row.contract = IF req[r].plan = Free THEN None ELSE Own(r)
  BY <1>2, <1>3, <1>4 DEF Updated, RowType
<1>6. row # None
  <2>1. set \in RowType
    BY <1>1, <1>2, SetRowsAreRows DEF Changing, AloneWith
  <2> QED
    BY <1>2, <1>3, <2>1, UpdatedIsRow, NoneIsApart
<1>7. Commit(r, [View(r) EXCEPT ![i] = row])
  <2>1. ~(row.contract # None /\ ContractTaken(row.contract, i))
    BY <1>1, <1>5 DEF RowLoaded, ContractTaken, Recorded
  <2>2. ~(row.status \in IndexedStatuses /\ rows[i].status \notin IndexedStatuses)
    BY <1>3 DEF IndexedStatuses
  <2> QED
    BY <1>1, <1>2, <2>1, <2>2 DEF Flush
<1>8. rows'[i] = row /\ Forget(r) /\ \A j \in Requests \ {i} : rows'[j] = View(r)[j]
  BY <1>1, <1>3, <1>7, ViewIsTable DEF Commit
<1>9. ASSUME NEW j \in Requests \ {i}
      PROVE  /\ rows'[j] = None <=> rows[j] = None
             /\ rows[j] # None =>
                  /\ rows'[j].user = rows[j].user /\ rows'[j].contract = rows[j].contract
                  /\ rows'[j].cancelled = rows[j].cancelled
                  /\ rows'[j].status = rows[j].status \/ (rows[j].cancelled /\ rows'[j].status = "cancelled")
  BY <1>1, <1>8, ViewCancels, ViewIsTable
<1>10. CancelledStays
  BY <1>3, <1>9 DEF CancelledStays
<1>11. /\ \A q \in Requests : finals'[q] \subseteq finals[q] /\ i \notin finals[q]
       /\ \A q \in Requests : pc[q] = "write" \/ pc[q] = "done" => pc'[q] = "done"
  <2>1. \A q \in Requests : i \notin finals[q]
    BY <1>1, <1>3 DEF RowsSettled
  <2>2. \A q \in Requests : finals'[q] \subseteq finals[q] /\ pc'[q] \in {pc[q], "done"} /\ pc'[r] = "done"
    BY <1>1, <1>8 DEF Forget, TypeOK
  <2> QED
    BY <1>1, <2>1, <2>2 DEF InFlight
<1>12. RowsSettled'
  <2>1. \A j \in Requests : rows'[j] # None => rows'[j].status # "unpaid"
    BY <1>1, <1>5, <1>8, <1>9 DEF RowsSettled
  <2>2. \A q \in Requests : \A j \in finals'[q] : rows'[j].cancelled
    BY <1>1, <1>9, <1>11 DEF RowsSettled, ControlOK, TypeOK
  <2>3. CancelledNotCharged'
    BY <1>1, <1>5, <1>8, <1>9 DEF RowsSettled, CancelledNotCharged
  <2>4. Own(r)[1] = rows[i].user /\ (Renews(r) => ~Recorded(Own(r), rows))
    BY <1>1, <1>3 DEF Own, RowLoaded
  <2>5. ASSUME NEW j \in Requests, rows'[j] # None, rows'[j].contract # None
        PROVE  /\ rows'[j].contract[1] = rows'[j].user
               /\ \A k \in Requests \ {j} : rows'[k] # None => rows'[k].contract # rows'[j].contract
    <3>1. CASE j = i
      BY <1>1, <1>5, <1>8, <1>9, <2>4, <2>5, <3>1 DEF Recorded
    <3>2. CASE j # i
      BY <1>1, <1>5, <1>8, <1>9, <2>4, <2>5, <3>2 DEF Recorded, RowsSettled
    <3> QED
      BY <3>1, <3>2
  <2> QED
    BY <2>1, <2>2, <2>3, <2>5 DEF RowsSettled
<1>13. ASSUME NEW c \in ContractIds, contracts[c].state # "none"
       PROVE  Recorded(c, rows') \/ Dropped(c)'
  <2>1. CASE Renews(r) /\ c = Own(r)
    BY <1>1, <1>3, <1>5, <1>6, <1>8, <2>1 DEF Recorded
  <2>2. CASE Dropped(c)
    BY <1>1, <1>11, <2>2 DEF Dropped
  <2>3. CASE rows[i].contract = c
    <3>1. contracts[c].state = "stopped"
      BY <1>1, <1>3, <2>3, NoneIsApart DEF RowLoaded
    <3>2. c[2] \in Requests /\ pc[c[2]] \in {"write", "done"}
      BY <1>13 DEF FreshInv
    <3> QED
      BY <1>1, <1>11, <3>1, <3>2 DEF Dropped
  <2>4. ASSUME NEW j \in Requests \ {i}, rows[j] # None, rows[j].contract = c
        PROVE  Recorded(c, rows')
    BY <1>9, <2>4 DEF Recorded
  <2> QED
    BY <1>1, <1>13, <2>1, <2>2, <2>3, <2>4 DEF ChargesHeld, Recorded
<1>14. ASSUME NEW j \in Requests, Billed(j)' PROVE contracts[rows'[j].contract].state = "live"
  <2>1. CASE j = i
    BY <1>1, <1>5, <1>8, <1>14, <2>1 DEF Billed, RowLoaded
  <2>2. CASE j # i
    <3>1. Billed(j) /\ rows'[j].contract = rows[j].contract
      BY <1>9, <1>14, <2>2 DEF Billed, Live, LiveStatuses
    <3>2. target[r] = i
      BY <1>2
    <3> QED
      BY <1>1, <2>2, <3>1, <3>2 DEF ChargesHeld
  <2> QED
    BY <2>1, <2>2
<1> QED
  BY <1>1, <1>8, <1>10, <1>12, <1>13, <1>14, ChangeEnds

\* A step while a plan change is being served.
LEMMA ChangingGoesOnOrEnds ==
    ASSUME NoFault, NEW r \in Requests, FreshInv, Changing(r), [Next]_vars, ChangesAlone'
    PROVE  (BillingInv' \/ Changing(r)') /\ CancelledStays
<1>1. /\ IndInv' /\ TypeOK /\ ControlOK /\ RowsSettled /\ RowLoaded(r) /\ ChargesHeld(r)
      /\ InFlight = {r} /\ req[r].op = "change" /\ req[r] # None /\ pc[r] \notin {"unsent", "done", "replay", "insert"}
  <2>1. r \in InFlight /\ IndInv'
    BY NextKeepsIndInv DEF Changing, AloneWith
  <2> QED
    BY <2>1 DEF Changing, IndInv, ControlOK, AloneWith, InFlight
<1>2. CASE Finalize(r)
  <2>1. /\ pc[r] = "finalize" /\ pc'[r] = "guard" /\ UNCHANGED <<rows, contracts, req, finals, target, seen, reply>>
        /\ \A q \in Requests \ {r} : pc'[q] = pc[q]
    BY <1>1, <1>2 DEF Finalize, Goto, TypeOK
  <2>2. RowLoaded(r)' /\ ~Stops(r) /\ ~Renews(r)
    BY <2>1 DEF RowLoaded, Stops, Renews
  <2>3. \A c : (Recorded(c, rows) => Recorded(c, rows')) /\ (Dropped(c) => Dropped(c)')
    BY <2>1 DEF Recorded, Dropped
  <2>4. \A i \in Requests : Billed(i)' => Billed(i)
    BY <2>1 DEF Billed, Live
  <2>5. ChargesHeld(r)'
    BY <1>1, <2>1, <2>2, <2>3, <2>4 DEF ChargesHeld
  <2> QED
    BY <1>1, <2>1, <2>2, <2>5, ChangeGoesOn
<1>3. ASSUME NEW p \in Requests, Serve(p) PROVE (BillingInv' \/ Changing(r)') /\ CancelledStays
  <2>1. p \in InFlight
    BY <1>3 DEF Serve, InFlight, Finalize, Replay, SubscribeGuard, Insert, WriteSubscribe, CreateContract,
       CancelContract, ChangeGuard, CancelGuard, WriteChange, WriteCancel
  <2>2. p = r
    BY <1>1, <2>1
  <2>3. ~(Replay(r) \/ SubscribeGuard(r) \/ Insert(r) \/ WriteSubscribe(r) \/ CancelGuard(r) \/ WriteCancel(r))
    BY <1>1 DEF Replay, SubscribeGuard, Insert, WriteSubscribe, CancelGuard, WriteCancel
  <2>4. \/ Finalize(r) \/ CreateContract(r) \/ CancelContract(r) \/ ChangeGuard(r) \/ WriteChange(r)
    BY <1>3, <2>2, <2>3 DEF Serve
  <2> QED
    BY <1>1, <1>2, <2>4, ChangeCreates, ChangeStops, ChangeGuardSettles, ChangeCommits
<1>4. ASSUME NEW p \in Requests, NEW q \in ClientRequests, Receive(p, q) PROVE FALSE
  <2>1. p # r /\ p \in InFlight' /\ r \in InFlight' /\ req'[r] = req[r]
    BY <1>1, <1>4 DEF Receive, InFlight, TypeOK
  <2> QED
    BY <1>1, <2>1 DEF ChangesAlone
<1>5. CASE Tick \/ UNCHANGED vars
  <2>1. UNCHANGED <<rows, contracts, pc, req, finals, target, seen, reply>>
    BY <1>5 DEF Tick, txVars, vars
  <2>2. RowsSettled' /\ CancelledStays
    BY <1>1, <2>1 DEF RowsSettled, CancelledNotCharged, CancelledStays
  <2>3. AloneWith(r)' /\ RowLoaded(r)'
    BY <2>1 DEF Changing, AloneWith, InFlight, RowLoaded, Stops, Renews, Own, Recorded
  <2>4. ChargesHeld(r)'
    BY <1>1, <2>1 DEF ChargesHeld, Stops, Renews, Own, Recorded, Dropped, Billed, Live
  <2> QED
    BY <1>1, <2>2, <2>3, <2>4 DEF Changing
<1> QED
  BY <1>3, <1>4, <1>5 DEF Next, Fail, NoFault

\* A plan change that arrives when nothing else is under way.
LEMMA ChangeBegins ==
    ASSUME FreshInv, BillingInv, IndInv', ChangesAlone',
           NEW r \in Requests, NEW q \in ClientRequests, q.op = "change", Receive(r, q)
    PROVE  Changing(r)'
<1>1. /\ TypeOK /\ ControlOK /\ CancelInv /\ RowsSettled /\ pc[r] = "unsent"
      /\ UNCHANGED <<rows, contracts>> /\ pc'[r] = "finalize" /\ req'[r] = q
      /\ finals'[r] = {i \in RowsOf(q.user, rows) : Elapsed(rows[i], now)}
      /\ \A p \in Requests \ {r} : pc'[p] = pc[p] /\ req'[p] = req[p] /\ finals'[p] = finals[p]
  BY BillingInvSettlesRows DEF BillingInv, CancelInv, IndInv, Receive, TypeOK
<1>2. InFlight' = {r} /\ \A p \in Requests : pc[p] \in {"unsent", "done"}
  <2>1. r \in InFlight'
    BY <1>1 DEF InFlight
  <2>2. InFlight' = {r}
    BY <1>1, <2>1 DEF ChangesAlone
  <2> QED
    BY <1>1, <2>2 DEF InFlight
<1>3. \A p \in Requests : ~Creates(p) /\ ~Cancels(p)
  BY <1>2 DEF Creates, Cancels
<1>4. RowsSettled'
  <2>1. \A p \in Requests : \A i \in finals'[p] : rows[i].cancelled
    BY <1>1 DEF RowsSettled, Elapsed
  <2> QED
    BY <1>1, <2>1 DEF RowsSettled, CancelledNotCharged
<1>5. AloneWith(r)'
  BY <1>1, <1>2 DEF AloneWith, CancelInv, NobodyChanges
<1>6. RowLoaded(r)' /\ ~Stops(r)' /\ ~Renews(r)'
  BY <1>1 DEF RowLoaded, Stops, Renews
<1>7. \A c : (Recorded(c, rows) => Recorded(c, rows')) /\ (Dropped(c) => Dropped(c)')
  BY <1>1 DEF Recorded, Dropped
<1>8. \A i \in Requests : Billed(i)' => Billed(i)
  BY <1>1 DEF Billed, Live
<1>9. ChargesHeld(r)'
  BY <1>1, <1>3, <1>6, <1>7, <1>8 DEF ChargesHeld, BillingInv
<1> QED
  BY <1>4, <1>5, <1>6, <1>9 DEF Changing

LEMMA NextKeepsAloneInv ==
    ASSUME NoKeys, NoFault, AloneInv, [Next]_vars, ChangesAlone'
    PROVE  AloneInv' /\ CancelledStays
<1>1. FreshInv /\ FreshInv' /\ IndInv' /\ TypeOK
  BY NextKeepsFreshInv DEF AloneInv, FreshInv, IndInv
<1>2. ASSUME NEW r \in Requests, Changing(r) PROVE AloneInv' /\ CancelledStays
  BY <1>1, <1>2, ChangingGoesOnOrEnds DEF AloneInv
<1>3. CASE BillingInv
  <2>1. CancelledStays
    BY <1>3, NextOnlyCancels DEF BillingInv, OnlyCancels, CancelledStays
  <2>2. CASE NobodyChanges'
    BY <1>1, <1>3, <2>1, <2>2, NextKeepsBillingInv DEF AloneInv
  <2>3. CASE ~NobodyChanges'
    <3>1. PICK r \in Requests : req'[r] # None /\ req'[r].op = "change"
      BY <2>3 DEF NobodyChanges
    <3>2. req'[r] # req[r]
      BY <1>3, <3>1 DEF BillingInv, CancelInv, NobodyChanges
    <3>3. PICK q \in ClientRequests : Receive(r, q) /\ req'[r] = q
      BY <1>1, <3>1, <3>2, RequestsStay
    <3>4. Changing(r)'
      BY <1>1, <1>3, <3>1, <3>3, ChangeBegins
    <3> QED
      BY <1>1, <2>1, <3>4 DEF AloneInv
  <2> QED
    BY <2>2, <2>3
<1> QED
  BY <1>2, <1>3 DEF AloneInv

LEMMA InitEstablishesAloneInv == Init => AloneInv
  BY InitEstablishesFreshInv, InitEstablishesBillingInv DEF AloneInv

\* What a plan change that is being served owes nobody: a contract that fincode charges is that of
\* a row, or the new one of the row whose old contract has been stopped.
LEMMA ChangingFacts ==
    ASSUME NEW r \in Requests, Changing(r), NEW u \in Users, NEW c \in LiveContracts(u)
    PROVE  \/ \E i \in Requests :
                 /\ rows[i] # None /\ rows[i].contract = c /\ rows[i].user = u
                 /\ Billed(i)
           \/ Renews(r) /\ c = Own(r) /\ req[r].user = u
<1>1. /\ TypeOK /\ RowsSettled /\ ChargesHeld(r)
      /\ c \in ContractIds /\ c[1] = u /\ contracts[c].state = "live"
  BY DEF Changing, IndInv, LiveContracts
<1>2. Recorded(c, rows) \/ (Renews(r) /\ c = Own(r))
  BY <1>1 DEF ChargesHeld, Dropped
<1>3. ASSUME NEW i \in Requests, rows[i] # None, rows[i].contract = c
      PROVE  rows[i].user = u /\ Billed(i)
  <2>1. rows[i].contract # None /\ rows[i].status \in Statuses
    BY <1>1, <1>3, NoneIsApart DEF TypeOK, RowType
  <2>2. ~rows[i].cancelled /\ rows[i].status # "cancelled"
    BY <1>1, <1>3, <2>1 DEF RowsSettled, CancelledNotCharged
  <2> QED
    BY <1>1, <1>3, <2>1, <2>2 DEF RowsSettled, Billed, Live, LiveStatuses, Statuses
<1> QED
  BY <1>1, <1>2, <1>3 DEF Recorded, Own

\* The row of the change is the only one its user has: the old contract is stopped.
LEMMA ChangingChargesOnce ==
    ASSUME NEW r \in Requests, Changing(r)
    PROVE  AtMostOneCharged
<1> SUFFICES ASSUME NEW u \in Users, NEW c \in LiveContracts(u), NEW d \in LiveContracts(u)
             PROVE  c = d
  BY AtMostOneElement DEF AtMostOneCharged
<1>1. TypeOK /\ ControlOK /\ OneContract /\ RowLoaded(r) /\ req[r].op = "change"
  BY DEF Changing, IndInv, AloneWith
<1>2. \A i, j \in Requests : Billed(i) /\ Billed(j) /\ rows[i].user = rows[j].user => i = j
  BY <1>1 DEF OneContract, Billed
<1>3. ASSUME NEW i \in Requests, NEW e \in LiveContracts(u), Renews(r), req[r].user = u,
             rows[i] # None, rows[i].contract = e, rows[i].user = u, Billed(i)
      PROVE  FALSE
  <2>1. /\ HasTarget(r) /\ seen[r] = rows[target[r]] /\ seen[r].status = "active"
        /\ seen[r].contract # None => contracts[seen[r].contract].state = "stopped"
    BY <1>1, <1>3 DEF RowLoaded, Renews, Stops, ControlOK
  <2>2. i = target[r]
    BY <1>1, <1>3, <2>1 DEF HasTarget, OneContract, Billed, Live, LiveStatuses
  <2> QED
    BY <1>3, <2>1, <2>2 DEF Billed, LiveContracts
<1> QED
  BY <1>2, <1>3, ChangingFacts

\* Everybody else's rows and contracts are as the change found them.
LEMMA ChangingFollowsRows ==
    ASSUME NEW r \in Requests, Changing(r)
    PROVE  BillingAgrees
<1> SUFFICES ASSUME NEW u \in Users, Quiet(u)
             PROVE  LiveContracts(u) = {rows[i].contract : i \in BilledRows(u)}
  BY DEF BillingAgrees
<1>1. TypeOK /\ ControlOK /\ RowsSettled /\ ChargesHeld(r) /\ req[r].user # u /\ req[r].op = "change"
  BY DEF Changing, IndInv, AloneWith, Quiet
<1>2. ASSUME NEW i \in BilledRows(u) PROVE rows[i].contract \in LiveContracts(u)
  <2>1. /\ i \in Requests /\ Billed(i) /\ rows[i].user = u /\ rows[i] # None
        /\ rows[i].contract \in ContractIds /\ rows[i].contract # None
    BY <1>1, <1>2 DEF BilledRows, RowsOf, Billed, TypeOK, RowType
  <2>2. Stops(r) => target[r] # i
    BY <1>1, <2>1 DEF Stops, ControlOK, HasTarget
  <2> QED
    BY <1>1, <2>1, <2>2 DEF ChargesHeld, LiveContracts, RowsSettled
<1>3. ASSUME NEW c \in LiveContracts(u) PROVE \E i \in BilledRows(u) : rows[i].contract = c
  BY <1>1, <1>3, ChangingFacts DEF BilledRows, RowsOf, Billed
<1> QED
  BY <1>2, <1>3

\* Plan changes that overlap nothing never leave a user charged for two contracts, whatever other
\* requests overlap one another: the old contract is stopped before the new one is created.
THEOREM LoneChangesChargeOnce ==
    ASSUME NoKeys, NoFault PROVE Spec /\ []ChangesAlone => []AtMostOneCharged
<1>1. AloneInv /\ [Next]_vars /\ ChangesAlone' => AloneInv'
  BY NextKeepsAloneInv
<1>2. AloneInv => AtMostOneCharged
  BY BillingInvChargesOnce, ChangingChargesOnce DEF AloneInv
<1> QED
  BY InitEstablishesAloneInv, <1>1, <1>2, PTL DEF Spec

\* Nor do they leave a contract that is charged without a row, or a row without its contract.
THEOREM LoneChangesFollowRows ==
    ASSUME NoKeys, NoFault PROVE Spec /\ []ChangesAlone => []BillingAgrees
<1>1. AloneInv /\ [Next]_vars /\ ChangesAlone' => AloneInv'
  BY NextKeepsAloneInv
<1>2. AloneInv => BillingAgrees
  BY BillingInvFollowsRows, ChangingFollowsRows DEF AloneInv
<1> QED
  BY InitEstablishesAloneInv, <1>1, <1>2, PTL DEF Spec

\* A row that is cancelled, or about to be, is not charged with such plan changes either.
THEOREM LoneChangesStopCharges ==
    ASSUME NoKeys, NoFault PROVE Spec /\ []ChangesAlone => []CancelledNotCharged
<1>1. AloneInv /\ [Next]_vars /\ ChangesAlone' => AloneInv'
  BY NextKeepsAloneInv
<1>2. AloneInv => CancelledNotCharged
  BY DEF AloneInv, BillingInv, CancelInv, Changing, RowsSettled
<1> QED
  BY InitEstablishesAloneInv, <1>1, <1>2, PTL DEF Spec

\* And none of them makes a cancelled row anything else again.
THEOREM LoneChangesStayFinal ==
    ASSUME NoKeys, NoFault PROVE Spec /\ []ChangesAlone => CancelledIsFinal
<1>1. AloneInv /\ [Next]_vars /\ ChangesAlone' => AloneInv' /\ [CancelledStays]_vars
  BY NextKeepsAloneInv
<1> QED
  BY InitEstablishesAloneInv, <1>1, PTL DEF Spec, CancelledIsFinal, CancelledStays
=============================================================================
