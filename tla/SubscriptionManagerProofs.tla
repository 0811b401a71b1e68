---------------------- MODULE SubscriptionManagerProofs ----------------------
(***************************************************************************)
(* For any users, plans, keys, number of overlapping requests and faults:  *)
(* the variables keep their types, and a user never has two committed rows *)
(* that are active or unpaid.  The argument is IndInv.  A request that has *)
(* flushed its INSERT reserves the user's entry of the unique index        *)
(* (IndexReserved); whoever brings a row of the user into the index waits  *)
(* for it and then finds its row, and every other commit only takes rows   *)
(* out of the index or rewrites one that is in it already.                 *)
(***************************************************************************)
EXTENDS SubscriptionManager, TLAPS

\* None is not a value of any of the types it stands in for.
LEMMA NoneIsApart ==
    /\ \A x \in RowType : x # None
    /\ \A x \in ContractIds : x # None
    /\ \A x \in RequestType : x # None
    /\ \A x \in ReplyType : x # None
    /\ \A x \in Requests : x # None
  BY NoneAssumption

\* The view of a transaction is a table: the same rows of the same users, the
\* finalized ones out of the index and the others as they are.
LEMMA ViewIsTable ==
    ASSUME TypeOK, ControlOK, NEW r \in Requests
    PROVE  /\ View(r) \in [Requests -> RowType \cup {None}]
           /\ \A i \in Requests :
                /\ View(r)[i] = None <=> rows[i] = None
                /\ i \notin finals[r] => View(r)[i] = rows[i]
                /\ rows[i] # None => View(r)[i].user = rows[i].user
                /\ Live(i, View(r)) <=> Live(i, rows) /\ i \notin finals[r]
<1> DEFINE F(i) == [rows[i] EXCEPT !.status = "cancelled"]
<1>1. ASSUME NEW i \in Requests, rows[i] # None
      PROVE  /\ F(i) \in RowType /\ F(i).user = rows[i].user
             /\ F(i).status = "cancelled" /\ F(i) # None
  <2>1. rows[i] \in RowType
    BY <1>1 DEF TypeOK
  <2>2. F(i) \in RowType /\ F(i).user = rows[i].user /\ F(i).status = "cancelled"
    BY <2>1 DEF RowType, Statuses
  <2> QED
    BY <2>2, NoneIsApart
<1>2. \A i \in finals[r] : i \in Requests /\ rows[i] # None
  BY DEF TypeOK, ControlOK
<1>3. View(r) = [i \in Requests |-> IF i \in finals[r] THEN F(i) ELSE rows[i]]
  BY DEF View
<1>4. rows \in [Requests -> RowType \cup {None}]
  BY DEF TypeOK
<1> HIDE DEF F
<1>5. View(r) \in [Requests -> RowType \cup {None}]
  BY <1>1, <1>2, <1>3, <1>4
<1>6. ASSUME NEW i \in Requests
      PROVE  /\ View(r)[i] = None <=> rows[i] = None
             /\ i \notin finals[r] => View(r)[i] = rows[i]
             /\ rows[i] # None => View(r)[i].user = rows[i].user
             /\ Live(i, View(r)) <=> Live(i, rows) /\ i \notin finals[r]
  BY <1>1, <1>2, <1>3, <1>6 DEF Live, LiveStatuses
<1> QED
  BY <1>5, <1>6

\* A commit or a rollback keeps IndInv when it inserts no row but the request's
\* own, and puts a row into the index only when no other row of the user is in it
\* and no other request has one pending.
LEMMA EndKeepsIndInv ==
    ASSUME IndInv, NEW r \in Requests, Forget(r),
           contracts' \in [ContractIds -> ContractType], now' \in Nat,
           rows' \in [Requests -> RowType \cup {None}],
           \A i \in Requests :
              rows[i] # None => rows'[i] # None /\ rows'[i].user = rows[i].user,
           \A i \in Requests \ {r} : rows[i] = None => rows'[i] = None,
           \A i \in Requests : Live(i, rows)' =>
              \/ Live(i, rows) /\ rows'[i].user = rows[i].user
              \/ /\ \A q \in Requests \ {r} : HoldsInsert(q) => req[q].user # rows'[i].user
                 /\ \A j \in Requests \ {i} : Live(j, rows)' => rows'[j].user # rows'[i].user
    PROVE  IndInv'
<1>1. TypeOK'
  BY DEF IndInv, TypeOK, Forget, PCs
<1>2. /\ pc'[r] = "done" /\ finals'[r] = {}
      /\ \A q \in Requests \ {r} :
            /\ pc'[q] = pc[q] /\ req'[q] = req[q] /\ finals'[q] = finals[q]
            /\ target'[q] = target[q] /\ seen'[q] = seen[q] /\ reply'[q] = reply[q]
  BY DEF IndInv, TypeOK, Forget
<1>3. ControlOK'
  BY <1>2 DEF IndInv, TypeOK, ControlOK, HasTarget
<1>4. \A q \in Requests : HoldsInsert(q)' => q # r /\ HoldsInsert(q)
  BY <1>2 DEF HoldsInsert
<1>5. IndexReserved'
  BY <1>2, <1>4 DEF IndInv, IndexReserved
<1>6. OneContract'
  BY DEF IndInv, OneContract
<1> QED
  BY <1>1, <1>3, <1>5, <1>6 DEF IndInv

\* A step inside a handler: the table stays, and only the request itself moves on.
Moves(r) ==
    \A q \in Requests \ {r} :
        /\ pc'[q] = pc[q] /\ req'[q] = req[q] /\ finals'[q] = finals[q]
        /\ target'[q] = target[q] /\ seen'[q] = seen[q] /\ reply'[q] = reply[q]

\* Such a step keeps IndInv when it does not flush an INSERT.
LEMMA MoveKeepsIndInv ==
    ASSUME IndInv, NEW r \in Requests, UNCHANGED rows, TypeOK', Moves(r),
           HoldsInsert(r)' => /\ HoldsInsert(r) /\ req'[r] = req[r] /\ finals'[r] = finals[r],
           pc[r] # "done", pc'[r] \notin {"unsent", "done"}, req'[r] # None,
           \A i \in finals'[r] : rows[i] # None,
           pc'[r] = "insert" => req'[r].op = "subscribe",
           pc'[r] = "cancel_call" =>
              /\ req'[r].op # "subscribe" /\ HasTarget(r)' /\ seen'[r].contract # None,
           pc'[r] = "create_call" =>
              req'[r].op = "subscribe" \/ (req'[r].op = "change" /\ HasTarget(r)'),
           pc'[r] = "write" =>
              \/ req'[r].op = "subscribe" /\ reply'[r] # None
              \/ /\ req'[r].op = "change" /\ HasTarget(r)'
                 /\ req'[r].plan # Free => reply'[r] # None
              \/ /\ req'[r].op = "cancel" /\ HasTarget(r)'
                 /\ seen'[r].contract # None => reply'[r] # None
    PROVE  IndInv'
<1>1. ControlOK'
  BY DEF IndInv, ControlOK, HasTarget, Moves
<1>2. \A q \in Requests : HoldsInsert(q)' =>
        HoldsInsert(q) /\ req'[q] = req[q] /\ finals'[q] = finals[q]
  BY DEF HoldsInsert, Moves
<1>3. IndexReserved'
  BY <1>2 DEF IndInv, IndexReserved, Live
<1>4. OneContract'
  BY DEF IndInv, OneContract, Live
<1> QED
  BY <1>1, <1>3, <1>4 DEF IndInv

LEMMA RollbackKeepsIndInv ==
    ASSUME IndInv, NEW r \in Requests, Rollback(r),
           contracts' \in [ContractIds -> ContractType], now' \in Nat
    PROVE  IndInv'
<1>1. rows' = rows /\ rows \in [Requests -> RowType \cup {None}] /\ Forget(r)
  BY DEF Rollback, IndInv, TypeOK
<1> QED
  BY <1>1, EndKeepsIndInv DEF Live

\* A commit of nothing but the finalizations.
LEMMA ViewCommitKeepsIndInv ==
    ASSUME IndInv, NEW r \in Requests, Commit(r, View(r)), UNCHANGED <<contracts, now>>
    PROVE  IndInv'
<1>1. TypeOK /\ ControlOK /\ rows' = View(r) /\ Forget(r)
  BY DEF Commit, IndInv
<1>2. contracts' \in [ContractIds -> ContractType] /\ now' \in Nat
  BY <1>1 DEF TypeOK
<1>3. \A i \in Requests : Live(i, rows)' => Live(i, rows) /\ rows'[i].user = rows[i].user
  BY <1>1, ViewIsTable DEF Live
<1> QED
  BY <1>1, <1>2, <1>3, ViewIsTable, EndKeepsIndInv

\* A commit of the finalizations and of row i, where i was in the index or
\* nobody else is, or is about to be.
LEMMA RowCommitKeepsIndInv ==
    ASSUME IndInv, NEW r \in Requests, NEW i \in Requests, NEW row \in RowType,
           Commit(r, [View(r) EXCEPT ![i] = row]), UNCHANGED <<contracts, now>>,
           IF rows[i] = None THEN i = r ELSE row.user = rows[i].user,
           row.status \in LiveStatuses =>
              \/ Live(i, rows) /\ row.user = rows[i].user
              \/ /\ \A q \in Requests \ {r} : HoldsInsert(q) => req[q].user # row.user
                 /\ \A j \in Requests \ {i} : Live(j, View(r)) => View(r)[j].user # row.user
    PROVE  IndInv'
<1>1. TypeOK /\ ControlOK /\ rows' = [View(r) EXCEPT ![i] = row] /\ Forget(r)
  BY DEF Commit, IndInv
<1>2. contracts' \in [ContractIds -> ContractType] /\ now' \in Nat
  BY <1>1 DEF TypeOK
<1>3. /\ rows' \in [Requests -> RowType \cup {None}]
      /\ rows'[i] = row /\ row # None
      /\ \A j \in Requests \ {i} : rows'[j] = View(r)[j]
  BY <1>1, ViewIsTable, NoneIsApart
<1>4. \A j \in Requests \ {i} : Live(j, rows)' <=> Live(j, View(r))
  BY <1>3 DEF Live
<1>5. Live(i, rows)' <=> row.status \in LiveStatuses
  BY <1>3 DEF Live
<1>6. \A j \in Requests : rows[j] # None => rows'[j] # None /\ rows'[j].user = rows[j].user
  BY <1>1, <1>3, ViewIsTable
<1>7. \A j \in Requests \ {r} : rows[j] = None => rows'[j] = None
  BY <1>1, <1>3, ViewIsTable
<1>8. ASSUME NEW j \in Requests, Live(j, rows)'
      PROVE  \/ Live(j, rows) /\ rows'[j].user = rows[j].user
             \/ /\ \A q \in Requests \ {r} : HoldsInsert(q) => req[q].user # rows'[j].user
                /\ \A k \in Requests \ {j} : Live(k, rows)' => rows'[k].user # rows'[j].user
  <2>1. CASE j # i
    BY <2>1, <1>1, <1>3, <1>4, <1>8, ViewIsTable DEF Live
  <2>2. CASE j = i
    BY <2>2, <1>3, <1>4, <1>5, <1>8
  <2> QED
    BY <2>1, <2>2
<1> QED
  BY <1>1, <1>2, <1>3, <1>6, <1>7, <1>8, EndKeepsIndInv

-----------------------------------------------------------------------------
(* What the handlers write is a row.                                       *)

LEMMA NewRowIsRow ==
    ASSUME TypeOK, NEW r \in Requests, req[r] # None,
           NEW contract \in ContractIds \cup {None}, NEW end \in OptTime
    PROVE  NewRow(r, contract, end) \in RowType /\ NewRow(r, contract, end).user = req[r].user
<1>1. req[r] \in RequestType
  BY DEF TypeOK
<1>2. Nonce(r) \in Nonces
  BY <1>1 DEF Nonce, Nonces, RequestType
<1> QED
  BY <1>1, <1>2 DEF NewRow, RowType, RequestType, Statuses

LEMMA UpdatedIsRow ==
    ASSUME NEW current \in RowType, NEW loaded \in RowType, NEW set \in RowType,
           NEW stamp \in BOOLEAN
    PROVE  /\ Updated(current, loaded, set, stamp) \in RowType
           /\ Updated(current, loaded, set, stamp).user = current.user
  BY DEF Updated, RowType

LEMMA SetRowsAreRows ==
    ASSUME TypeOK, ControlOK, NEW r \in Requests, pc[r] = "write"
    PROVE  /\ req[r].op = "change" => ChangedRow(r) \in RowType
           /\ req[r].op = "cancel" => CancelledRow(r) \in RowType
<1>1. /\ req[r] # None
      /\ req[r] \in RequestType
      /\ seen[r] \in RowType \cup {None}
      /\ reply[r] \in ReplyType \cup {None}
  BY DEF TypeOK, ControlOK
<1>2. CASE req[r].op = "change"
  <2>1. seen[r] \in RowType /\ (req[r].plan # Free => reply[r] \in ReplyType)
    BY <1>1, <1>2 DEF ControlOK, HasTarget
  <2>2. CASE req[r].plan = Free
    BY <1>2, <2>1, <2>2 DEF ChangedRow, RowType, Plans, OptTime, Statuses, Null
  <2>3. CASE req[r].plan # Free
    <3>1. req[r].plan \in Plans /\ reply[r].id \in ContractIds
      BY <1>1, <2>1, <2>3 DEF RequestType, ReplyType
    <3>2. AppliedEnd(seen[r].end, reply[r].end) \in OptTime
      BY <2>1, <2>3 DEF AppliedEnd, RowType, ReplyType
    <3> QED
      BY <1>2, <2>1, <2>3, <3>1, <3>2 DEF ChangedRow, RowType, Statuses
  <2> QED
    BY <1>2, <2>2, <2>3
<1>3. CASE req[r].op = "cancel"
  <2>1. seen[r] \in RowType /\ (seen[r].contract # None => reply[r] \in ReplyType)
    BY <1>1, <1>3 DEF ControlOK, HasTarget
  <2> DEFINE end == IF seen[r].contract = None THEN seen[r].end
                                               ELSE ExtendedEnd(seen[r].end, reply[r].end)
             kept == seen[r].contract # None /\ HasFuturePeriod([end |-> end], now)
  <2>2. end \in OptTime
    BY <2>1 DEF ExtendedEnd, RowType, ReplyType
  <2>3. CancelledRow(r) = [seen[r] EXCEPT !.end = end, !.cancelled = TRUE,
                              !.status = IF kept THEN "active" ELSE "cancelled"]
    BY DEF CancelledRow
  <2> HIDE DEF end, kept
  <2> QED
    BY <1>3, <2>1, <2>2, <2>3 DEF RowType, Statuses
<1> QED
  BY <1>2, <1>3 DEF RequestType

-----------------------------------------------------------------------------
(* One lemma per group of actions.                                         *)

LEMMA GotoKeepsIndInv ==
    ASSUME IndInv, NEW r \in Requests, NEW label \in {"replay", "guard", "insert"},
           r \in InFlight, Goto(r, label), UNCHANGED <<contracts, now>>,
           label = "insert" => req[r].op = "subscribe"
    PROVE  IndInv'
<1>1. TypeOK'
  BY DEF IndInv, TypeOK, Goto, PCs
<1>2. Moves(r) /\ pc'[r] = label
  BY DEF Moves, Goto, IndInv, TypeOK
<1>3. /\ req'[r] = req[r] /\ req[r] # None /\ finals'[r] = finals[r]
      /\ \A i \in finals[r] : rows[i] # None
  BY DEF Goto, InFlight, IndInv, ControlOK
<1>4. ~HoldsInsert(r)'
  BY <1>2 DEF HoldsInsert
<1> QED
  BY <1>1, <1>2, <1>3, <1>4, MoveKeepsIndInv DEF InFlight, Goto

LEMMA ReceiveKeepsIndInv ==
    ASSUME IndInv, NEW r \in Requests, NEW q \in ClientRequests, Receive(r, q)
    PROVE  IndInv'
<1>1. q \in RequestType /\ q # None
  BY ConstantsAssumption, NoneIsApart
<1>2. TypeOK'
  BY <1>1 DEF IndInv, TypeOK, Receive, RowsOf, PCs
<1>3. /\ Moves(r) /\ pc'[r] = "finalize" /\ req'[r] = q /\ UNCHANGED rows
      /\ pc[r] = "unsent" /\ finals'[r] \subseteq RowsOf(q.user, rows)
  BY DEF Moves, Receive, IndInv, TypeOK
<1>4. \A i \in finals'[r] : rows[i] # None
  BY <1>3 DEF RowsOf
<1>5. ~HoldsInsert(r)'
  BY <1>3 DEF HoldsInsert
<1> QED
  BY <1>1, <1>2, <1>3, <1>4, <1>5, MoveKeepsIndInv

\* The INSERT: the only flush that reserves the index.
LEMMA InsertKeepsIndInv ==
    ASSUME IndInv, NEW r \in Requests, Insert(r)
    PROVE  IndInv'
<1>1. /\ TypeOK /\ ControlOK /\ pc[r] = "insert" /\ req[r] # None /\ rows[r] = None
      /\ ~IndexBusy(req[r].user, r) /\ UNCHANGED <<contracts, now>>
  BY DEF IndInv, ControlOK, Insert
<1>2. CASE Rollback(r)
  BY <1>1, <1>2, RollbackKeepsIndInv DEF TypeOK
<1>3. \A q \in Requests \ {r} : HoldsInsert(q) => req[q].user # req[r].user
  BY <1>1 DEF IndexBusy, ControlOK, HoldsInsert
<1>4. ASSUME ~IndexConflict(View(r), req[r].user, r)
      PROVE  \A j \in Requests \ {r} : Live(j, View(r)) => View(r)[j].user # req[r].user
  BY <1>4 DEF IndexConflict, RowsOf, Live, LiveStatuses, IndexedStatuses
<1>5. CASE /\ ~IndexConflict(View(r), req[r].user, r)
           /\ Commit(r, [View(r) EXCEPT ![r] = NewRow(r, None, Null)])
  <2>1. NewRow(r, None, Null) \in RowType /\ NewRow(r, None, Null).user = req[r].user
    BY <1>1, NewRowIsRow DEF OptTime
  <2> QED
    BY <1>1, <1>3, <1>4, <1>5, <2>1, RowCommitKeepsIndInv
<1>6. CASE ~IndexConflict(View(r), req[r].user, r) /\ Goto(r, "create_call")
  <2>1. TypeOK'
    BY <1>1, <1>6 DEF TypeOK, Goto, PCs
  <2>2. /\ pc'[r] = "create_call" /\ \A q \in Requests \ {r} : pc'[q] = pc[q]
        /\ UNCHANGED <<rows, req, finals, target, seen, reply>>
    BY <1>1, <1>6 DEF Goto, TypeOK
  <2>3. req[r].op = "subscribe"
    BY <1>1 DEF ControlOK
  <2>4. ControlOK'
    BY <1>1, <2>2, <2>3 DEF ControlOK, HasTarget, TypeOK
  <2>5. \A q \in Requests : HoldsInsert(q)' <=> q = r \/ HoldsInsert(q)
    BY <1>1, <2>2, <2>3 DEF HoldsInsert
  <2>6. \A i \in Requests : Live(i, rows) /\ rows[i].user = req[r].user => i \in finals[r]
    BY <1>1, <1>4, <1>6, ViewIsTable DEF Live
  <2>7. IndexReserved'
    BY <1>3, <2>2, <2>5, <2>6 DEF IndInv, IndexReserved, Live
  <2>8. OneContract'
    BY <2>2 DEF IndInv, OneContract, Live
  <2> QED
    BY <2>1, <2>4, <2>7, <2>8 DEF IndInv
<1> QED
  BY <1>2, <1>5, <1>6 DEF Insert

\* The second flush of subscribe: the row leaves the reservation for the index.
LEMMA WriteSubscribeKeepsIndInv ==
    ASSUME IndInv, NEW r \in Requests, WriteSubscribe(r)
    PROVE  IndInv'
<1>1. /\ TypeOK /\ ControlOK /\ HoldsInsert(r) /\ req[r] # None
      /\ rows[r] = None /\ reply[r] \in ReplyType /\ UNCHANGED <<contracts, now>>
  BY DEF IndInv, TypeOK, ControlOK, WriteSubscribe, HoldsInsert
<1> DEFINE row == NewRow(r, reply[r].id, AppliedEnd(Null, reply[r].end))
<1>2. CASE Rollback(r)
  BY <1>1, <1>2, RollbackKeepsIndInv DEF TypeOK
<1>3. CASE Commit(r, [View(r) EXCEPT ![r] = row])
  <2>1. reply[r].id \in ContractIds /\ AppliedEnd(Null, reply[r].end) \in OptTime
    BY <1>1 DEF ReplyType, AppliedEnd, OptTime
  <2>2. row \in RowType /\ row.user = req[r].user
    BY <1>1, <2>1, NewRowIsRow
  <2>3. \A q \in Requests \ {r} : HoldsInsert(q) => req[q].user # req[r].user
    BY <1>1 DEF IndInv, IndexReserved
  <2>4. \A j \in Requests : Live(j, View(r)) => View(r)[j].user # req[r].user
    BY <1>1, ViewIsTable DEF IndInv, IndexReserved, Live
  <2> HIDE DEF row
  <2> QED
    BY <1>1, <1>3, <2>2, <2>3, <2>4, RowCommitKeepsIndInv
<1> QED
  BY <1>2, <1>3 DEF WriteSubscribe

\* The flush of change_plan or cancel: the row was in the index, or enters it
\* alone.
LEMMA FlushKeepsIndInv ==
    ASSUME IndInv, NEW r \in Requests, NEW set \in RowType, NEW stamp \in BOOLEAN,
           HasTarget(r), Flush(r, set, stamp), UNCHANGED <<contracts, now>>
    PROVE  IndInv'
<1> DEFINE i == target[r]
           row == Updated(rows[i], seen[r], set, stamp)
           entering == row.status \in IndexedStatuses /\ rows[i].status \notin IndexedStatuses
<1>1. /\ TypeOK /\ ControlOK /\ i \in Requests /\ rows[i] \in RowType /\ rows[i] # None
      /\ seen[r] \in RowType
  BY DEF IndInv, TypeOK, HasTarget
<1>2. row \in RowType /\ row.user = rows[i].user
  BY <1>1, UpdatedIsRow
<1>3. /\ entering => ~IndexBusy(req[r].user, r)
      /\ \/ Rollback(r)
         \/ /\ ~(entering /\ IndexConflict(View(r), req[r].user, i))
            /\ Commit(r, [View(r) EXCEPT ![i] = row])
  BY DEF Flush
<1>4. CASE Rollback(r)
  BY <1>1, <1>4, RollbackKeepsIndInv DEF TypeOK
<1> HIDE DEF i, row
<1>5. CASE /\ ~(entering /\ IndexConflict(View(r), req[r].user, i))
           /\ Commit(r, [View(r) EXCEPT ![i] = row])
  <2>1. CASE ~entering
    BY <1>1, <1>2, <1>5, <2>1, RowCommitKeepsIndInv DEF Live, LiveStatuses, IndexedStatuses
  <2>2. CASE entering
    <3>1. \A q \in Requests \ {r} : HoldsInsert(q) => req[q].user # req[r].user
      BY <1>1, <1>3, <2>2 DEF IndexBusy, ControlOK, HoldsInsert
    <3>2. \A j \in Requests \ {i} : Live(j, View(r)) => View(r)[j].user # req[r].user
      BY <1>5, <2>2 DEF IndexConflict, RowsOf, Live, LiveStatuses, IndexedStatuses
    <3>3. row.user = req[r].user
      BY <1>2 DEF HasTarget, i
    <3> QED
      BY <1>1, <1>2, <1>5, <3>1, <3>2, <3>3, RowCommitKeepsIndInv
  <2> QED
    BY <2>1, <2>2
<1> QED
  BY <1>3, <1>4, <1>5

LEMMA WriteLoadedKeepsIndInv ==
    ASSUME IndInv, NEW r \in Requests, WriteChange(r) \/ WriteCancel(r)
    PROVE  IndInv'
<1>1. TypeOK /\ ControlOK /\ pc[r] = "write" /\ UNCHANGED <<contracts, now>>
  BY DEF IndInv, WriteChange, WriteCancel
<1>2. HasTarget(r)
  BY <1>1 DEF ControlOK, WriteChange, WriteCancel
<1>3. CASE WriteChange(r)
  BY <1>1, <1>2, <1>3, SetRowsAreRows, FlushKeepsIndInv DEF WriteChange
<1>4. CASE WriteCancel(r)
  BY <1>1, <1>2, <1>4, SetRowsAreRows, FlushKeepsIndInv DEF WriteCancel
<1> QED
  BY <1>3, <1>4

\* A row loaded by get_active is a row of the user, in the table.
LEMMA LoadKeepsIndInv ==
    ASSUME IndInv, NEW r \in Requests, NEW i \in UsableRows(r), UNCHANGED <<contracts, now>>,
           NEW label \in {"cancel_call", "create_call", "write"}, Load(r, i, label),
           pc[r] = "guard", req[r].op \in {"change", "cancel"},
           label = "cancel_call" => View(r)[i].contract # None,
           label = "create_call" => req[r].op = "change",
           label = "write" => IF req[r].op = "change" THEN req[r].plan = Free
                                                      ELSE View(r)[i].contract = None
    PROVE  IndInv'
<1>1. TypeOK /\ ControlOK /\ req[r] # None
  BY DEF IndInv, ControlOK
<1>2. /\ i \in Requests /\ rows[i] # None /\ rows[i].user = req[r].user
      /\ View(r)[i] \in RowType /\ View(r)[i] # None
  BY <1>1, ViewIsTable DEF UsableRows, RowsOf
<1>3. /\ Moves(r) /\ pc'[r] = label /\ target'[r] = i /\ seen'[r] = View(r)[i]
      /\ UNCHANGED <<rows, req, finals, reply>>
  BY <1>1 DEF Moves, Load, TypeOK
<1>4. TypeOK'
  BY <1>1, <1>2 DEF TypeOK, Load, PCs
<1>5. HasTarget(r)'
  BY <1>2, <1>3 DEF HasTarget
<1>6. ~HoldsInsert(r)'
  BY <1>3 DEF HoldsInsert
<1>7. \A j \in finals'[r] : rows[j] # None
  BY <1>1, <1>3 DEF ControlOK
<1> QED
  BY <1>1, <1>3, <1>4, <1>5, <1>6, <1>7, MoveKeepsIndInv

LEMMA GuardsKeepIndInv ==
    ASSUME IndInv, NEW r \in Requests, ChangeGuard(r) \/ CancelGuard(r)
    PROVE  IndInv'
<1>1. TypeOK /\ pc[r] = "guard" /\ UNCHANGED <<contracts, now>>
  BY DEF IndInv, ChangeGuard, CancelGuard
<1>2. CASE Rollback(r)
  BY <1>1, <1>2, RollbackKeepsIndInv DEF TypeOK
<1>3. CASE Commit(r, View(r))
  BY <1>1, <1>3, ViewCommitKeepsIndInv
<1>4. ASSUME NEW i \in UsableRows(r), req[r].op = "change",
             Load(r, i, CASE View(r)[i].contract # None -> "cancel_call"
                          [] View(r)[i].contract = None /\ req[r].plan = Free -> "write"
                          [] OTHER -> "create_call")
      PROVE  IndInv'
  <2>1. CASE View(r)[i].contract # None
    BY <1>1, <1>4, <2>1, LoadKeepsIndInv
  <2>2. CASE View(r)[i].contract = None /\ req[r].plan = Free
    BY <1>1, <1>4, <2>2, LoadKeepsIndInv
  <2>3. CASE View(r)[i].contract = None /\ req[r].plan # Free
    BY <1>1, <1>4, <2>3, LoadKeepsIndInv
  <2> QED
    BY <2>1, <2>2, <2>3
<1>5. ASSUME NEW i \in UsableRows(r), req[r].op = "cancel",
             Load(r, i, IF View(r)[i].contract = None THEN "write" ELSE "cancel_call")
      PROVE  IndInv'
  <2>1. CASE View(r)[i].contract = None
    BY <1>1, <1>5, <2>1, LoadKeepsIndInv
  <2>2. CASE View(r)[i].contract # None
    BY <1>1, <1>5, <2>2, LoadKeepsIndInv
  <2> QED
    BY <2>1, <2>2
<1> QED
  BY <1>2, <1>3, <1>4, <1>5 DEF ChangeGuard, CancelGuard

\* A reply of fincode is remembered, for the write or the next call.
LEMMA ReplyKeepsIndInv ==
    ASSUME IndInv, NEW r \in Requests, NEW id \in ContractIds, NEW end \in OptTime,
           NEW label \in {"create_call", "write"}, ReplyTo(r, id, end, label),
           contracts' \in [ContractIds -> ContractType], UNCHANGED now,
           pc[r] \in {"cancel_call", "create_call"},
           label = "create_call" => req[r].op = "change",
           pc[r] = "create_call" => req[r].op \in {"subscribe", "change"}
    PROVE  IndInv'
<1>1. TypeOK /\ ControlOK /\ req[r] # None
  BY DEF IndInv, ControlOK
<1>2. /\ Moves(r) /\ pc'[r] = label /\ reply'[r] = [id |-> id, end |-> end]
      /\ UNCHANGED <<rows, req, finals, target, seen>>
  BY <1>1 DEF Moves, ReplyTo, TypeOK
<1>3. [id |-> id, end |-> end] \in ReplyType
  BY DEF ReplyType
<1>4. TypeOK'
  BY <1>1, <1>3 DEF TypeOK, ReplyTo, PCs
<1>5. reply'[r] # None
  BY <1>2, <1>3, NoneIsApart
<1>6. req[r].op # "subscribe" => HasTarget(r)
  BY <1>1 DEF ControlOK
<1>7. pc[r] = "cancel_call" => req[r].op # "subscribe"
  BY <1>1 DEF ControlOK
<1>8. req[r].op \in {"subscribe", "change", "cancel"}
  BY <1>1 DEF TypeOK, RequestType
<1>9. HoldsInsert(r)' => HoldsInsert(r) /\ req'[r] = req[r] /\ finals'[r] = finals[r]
  BY <1>2, <1>7 DEF HoldsInsert
<1>10. req'[r].op # "subscribe" => HasTarget(r)'
  BY <1>2, <1>6 DEF HasTarget
<1>11. \A i \in finals'[r] : rows[i] # None
  BY <1>1, <1>2 DEF ControlOK
<1> QED
  BY <1>1, <1>2, <1>4, <1>5, <1>8, <1>9, <1>10, <1>11, MoveKeepsIndInv

LEMMA ContractCallsKeepIndInv ==
    ASSUME IndInv, NEW r \in Requests, CreateContract(r) \/ CancelContract(r)
    PROVE  IndInv'
<1>1. TypeOK /\ ControlOK /\ now' = now /\ now \in Nat
  BY DEF IndInv, TypeOK, CreateContract, CancelContract
<1>2. CASE CreateContract(r)
  <2> DEFINE id == <<req[r].user, Nonce(r)>>
  <2>1. pc[r] = "create_call" /\ req[r] \in RequestType /\ contracts' = Created(id)
    BY <1>1, <1>2 DEF CreateContract, TypeOK, ControlOK
  <2>2. id \in ContractIds
    BY <2>1 DEF ContractIds, Nonce, Nonces, RequestType
  <2>3. [state |-> "live", end |-> now + PeriodLength] \in ContractType
    BY <1>1, ConstantsAssumption DEF ContractType, OptTime
  <2>4. contracts' \in [ContractIds -> ContractType]
    BY <1>1, <2>1, <2>3 DEF Created, TypeOK
  <2>5. \A end \in RepliedEnds(contracts'[id]) : end \in OptTime
    BY <2>2, <2>4 DEF RepliedEnds, ContractType, OptTime
  <2>6. CASE Rollback(r)
    BY <1>1, <2>4, <2>6, RollbackKeepsIndInv
  <2>7. req[r].op \in {"subscribe", "change"}
    BY <1>1, <2>1 DEF ControlOK
  <2>8. \/ Rollback(r)
        \/ \E end \in RepliedEnds(contracts'[id]) : ReplyTo(r, id, end, "write")
    BY <1>2 DEF CreateContract
  <2> HIDE DEF id
  <2>9. ASSUME NEW end \in RepliedEnds(contracts'[id]), ReplyTo(r, id, end, "write")
        PROVE  IndInv'
    BY <1>1, <2>1, <2>2, <2>4, <2>5, <2>7, <2>9, ReplyKeepsIndInv
  <2> QED
    BY <2>6, <2>8, <2>9
<1>3. CASE CancelContract(r)
  <2> DEFINE id == seen[r].contract
             label == IF req[r].op = "change" /\ req[r].plan # Free
                      THEN "create_call" ELSE "write"
  <2>1. /\ pc[r] = "cancel_call" /\ seen[r] \in RowType /\ id # None
        /\ contracts' = Stopped(id)
    BY <1>1, <1>3 DEF CancelContract, TypeOK, ControlOK, HasTarget
  <2>2. id \in ContractIds
    BY <2>1 DEF RowType
  <2>3. contracts[id] \in ContractType
    BY <1>1, <2>2 DEF TypeOK
  <2> HIDE DEF id
  <2>4. contracts' \in [ContractIds -> ContractType]
    <3>1. [contracts[id] EXCEPT !.state = "stopped"] \in ContractType
      BY <2>3 DEF ContractType
    <3>2. contracts' = [contracts EXCEPT ![id] = [contracts[id] EXCEPT !.state = "stopped"]]
      BY <1>1, <2>1, <2>2 DEF Stopped, TypeOK
    <3> HIDE DEF Stopped
    <3> QED
      BY <1>1, <3>1, <3>2 DEF TypeOK
  <2>5. \A end \in RepliedEnds(contracts[id]) : end \in OptTime
    BY <2>3 DEF RepliedEnds, ContractType, OptTime
  <2>6. CASE Rollback(r)
    BY <1>1, <2>4, <2>6, RollbackKeepsIndInv
  <2>7. \/ Rollback(r)
        \/ \E end \in RepliedEnds(contracts[id]) : ReplyTo(r, id, end, label)
    BY <1>3 DEF CancelContract, id
  <2>8. /\ label \in {"create_call", "write"}
        /\ label = "create_call" => req[r].op = "change"
    OBVIOUS
  <2> HIDE DEF label
  <2>9. ASSUME NEW end \in RepliedEnds(contracts[id]), ReplyTo(r, id, end, label)
        PROVE  IndInv'
    BY <1>1, <2>1, <2>2, <2>4, <2>5, <2>8, <2>9, ReplyKeepsIndInv
  <2> QED
    BY <2>6, <2>7, <2>9
<1> QED
  BY <1>2, <1>3

-----------------------------------------------------------------------------
(* The theorems.                                                           *)

LEMMA InitEstablishesIndInv == Init => IndInv
<1> SUFFICES ASSUME Init PROVE IndInv
  OBVIOUS
<1>1. TypeOK
  BY DEF Init, TypeOK, ContractType, OptTime, PCs
<1>2. ControlOK /\ IndexReserved /\ OneContract
  BY DEF Init, ControlOK, IndexReserved, HoldsInsert, OneContract, Live
<1> QED
  BY <1>1, <1>2 DEF IndInv

LEMMA NextKeepsIndInv == IndInv /\ [Next]_vars => IndInv'
<1> SUFFICES ASSUME IndInv, [Next]_vars PROVE IndInv'
  OBVIOUS
<1>1. TypeOK /\ ControlOK
  BY DEF IndInv
<1>2. ASSUME NEW r \in Requests, Finalize(r) PROVE IndInv'
  BY <1>2, GotoKeepsIndInv DEF Finalize, InFlight
<1>3. ASSUME NEW r \in Requests, Replay(r) PROVE IndInv'
  <2>1. CASE Goto(r, "guard")
    BY <1>3, <2>1, GotoKeepsIndInv DEF Replay, InFlight
  <2>2. CASE Commit(r, View(r))
    BY <1>3, <2>2, ViewCommitKeepsIndInv DEF Replay
  <2> QED
    BY <1>3, <2>1, <2>2 DEF Replay
<1>4. ASSUME NEW r \in Requests, SubscribeGuard(r) PROVE IndInv'
  <2>1. CASE Goto(r, "insert")
    BY <1>4, <2>1, GotoKeepsIndInv DEF SubscribeGuard, InFlight
  <2>2. CASE Rollback(r)
    BY <1>1, <1>4, <2>2, RollbackKeepsIndInv DEF SubscribeGuard, TypeOK
  <2> QED
    BY <1>4, <2>1, <2>2 DEF SubscribeGuard
<1>5. ASSUME NEW r \in Requests, Fail(r) PROVE IndInv'
  BY <1>1, <1>5, RollbackKeepsIndInv DEF Fail, TypeOK
<1>6. CASE Tick
  <2>1. now' \in Nat
    BY <1>1, <1>6 DEF Tick, TypeOK
  <2> QED
    BY <1>6, <2>1 DEF Tick, txVars, IndInv, TypeOK, ControlOK, HasTarget, IndexReserved,
                      HoldsInsert, OneContract, Live
<1>7. CASE UNCHANGED vars
  BY <1>7 DEF vars, IndInv, TypeOK, ControlOK, HasTarget, IndexReserved, HoldsInsert,
              OneContract, Live
<1> QED
  BY <1>2, <1>3, <1>4, <1>5, <1>6, <1>7, ReceiveKeepsIndInv, InsertKeepsIndInv,
     WriteSubscribeKeepsIndInv, ContractCallsKeepIndInv, GuardsKeepIndInv,
     WriteLoadedKeepsIndInv DEF Next, Serve

\* The inductive invariant holds of every behaviour.
THEOREM IndInvHolds == Spec => []IndInv
  BY InitEstablishesIndInv, NextKeepsIndInv, PTL DEF Spec

\* Type correctness: the columns and the locals of the handlers keep their types,
\* for every set of users, plans and keys and every mix of overlapping requests.
THEOREM TypeCorrect == Spec => []TypeOK
<1>1. IndInv => TypeOK
  BY DEF IndInv
<1> QED
  BY <1>1, IndInvHolds, PTL

\* The docstring of subscription_manager.py: overlapping requests never both
\* leave a user an active or unpaid contract, whatever fails in between.
THEOREM OneContractPerUser == Spec => []OneContract
<1>1. IndInv => OneContract
  BY DEF IndInv
<1> QED
  BY <1>1, IndInvHolds, PTL
=============================================================================
