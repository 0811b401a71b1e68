------------------------- MODULE SubscriptionManager -------------------------
(***************************************************************************)
(* The subscription API of app/services/subscription_manager.py, with the  *)
(* routes of app/api/routes/subscriptions.py that commit it, over the      *)
(* `subscriptions` table and the subscriptions held by fincode.            *)
(*                                                                         *)
(* A request is one HTTP call, served in one database transaction.  An     *)
(* action is what a request does between two points at which it awaits     *)
(* something other requests can overtake: a SELECT, a flush that may wait  *)
(* for a lock, a call to fincode, the commit.  The database is PostgreSQL  *)
(* at READ COMMITTED: a SELECT sees the rows committed by then and the     *)
(* writes of its own transaction, an UPDATE waits for the transaction that *)
(* holds the row, and an INSERT waits for the transaction that holds an    *)
(* entry of the unique index it would collide with.  SQLAlchemy sends only *)
(* the columns whose value differs from the one the session loaded.        *)
(***************************************************************************)
EXTENDS SubscriptionPeriods, FiniteSets

CONSTANTS
    Users,           \* the users with an account
    Requests,        \* request identifiers; a row is named by the request that inserts it
    PaidPlans, Free, \* the plans: those of fincode, and the local free one
    Keys,            \* values of the Idempotency-Key header
    ClientRequests,  \* what clients send: a subset of RequestType
    MaxInFlight,     \* how many requests are served at the same time, at most
    PeriodLength,    \* the billing period of a fincode subscription
    MaxNow,          \* the clock stops here
    UndatedReplies,  \* whether a reply of fincode may carry no period end
    Faults,          \* "fail": an error ends a request; "lost": fincode acts, its reply is lost
    None             \* SQL NULL, a missing header, "not there"

Plans == PaidPlans \cup {Free}

\* A nonce is the Idempotency-Key of the client, or new_nonce(): named here by the request.
Nonces == Keys \cup Requests

\* fincode identifies a subscription by the user and the nonce of its Idempotency-Key.
ContractIds == Users \X Nonces

RequestType ==
    [user : Users, op : {"subscribe", "change", "cancel"}, plan : Plans, key : Keys \cup {None}]

RowType ==
    [user : Users, plan : Plans, nonce : Nonces, status : Statuses, cancelled : BOOLEAN,
     end : OptTime, contract : ContractIds \cup {None}]

ContractType == [state : {"none", "live", "stopped"}, end : OptTime]

ReplyType == [id : ContractIds, end : OptTime]

ASSUME ConstantsAssumption ==
    /\ ClientRequests \subseteq RequestType
    /\ MaxInFlight \in Nat /\ PeriodLength \in Nat /\ MaxNow \in Nat
    /\ UndatedReplies \in BOOLEAN
    /\ Faults \subseteq {"fail", "lost"}
    /\ Free \notin PaidPlans
    /\ Keys \cap Requests = {}

ASSUME NoneAssumption ==
    None \notin RowType \cup ContractIds \cup RequestType \cup ReplyType \cup Keys \cup Requests

VARIABLES
    rows,       \* the committed rows of `subscriptions`, None where none was inserted
    contracts,  \* the subscriptions at fincode; a live one is charged every period
    now,        \* the wall clock
    pc,         \* where each request is in its handler
    req,        \* the request being served
    finals,     \* the rows the request selected to finalize; locked once it flushed them
    target,     \* the row get_active returned to the request
    seen,       \* the columns of that row as the session loaded them
    reply       \* the last reply of fincode to the request

txVars == <<pc, req, finals, target, seen, reply>>
vars == <<rows, contracts, now, pc, req, finals, target, seen, reply>>

PCs == {"unsent", "finalize", "replay", "guard", "insert", "cancel_call", "create_call",
        "write", "done"}

Init ==
    /\ rows = [i \in Requests |-> None]
    /\ contracts = [c \in ContractIds |-> [state |-> "none", end |-> Null]]
    /\ now = 0
    /\ pc = [r \in Requests |-> "unsent"]
    /\ req = [r \in Requests |-> None]
    /\ finals = [r \in Requests |-> {}]
    /\ target = [r \in Requests |-> None]
    /\ seen = [r \in Requests |-> None]
    /\ reply = [r \in Requests |-> None]

-----------------------------------------------------------------------------
(* The table, as a transaction sees it.                                    *)

InFlight == {r \in Requests : pc[r] \notin {"unsent", "done"}}

\* The spelling of fincode's webhooks in the column.
ViewMisspelt(r) ==
    [i \in Requests |-> IF i \in finals[r] THEN [rows[i] EXCEPT !.status = "canceled"]
                                           ELSE rows[i]]

\* The committed rows and the finalizations this transaction has flushed.
View(r) ==
    [i \in Requests |-> IF i \in finals[r] THEN [rows[i] EXCEPT !.status = "cancelled"]
                                           ELSE rows[i]]

RowsOf(u, table) == {i \in Requests : table[i] # None /\ table[i].user = u}

Live(i, table) == table[i] # None /\ table[i].status \in LiveStatuses

\* get_active: at most one row by the unique index, so that ORDER BY does not matter.
UsableRows(r) == {i \in RowsOf(req[r].user, View(r)) : Usable(View(r)[i], now)}

\* SELECT ... FOR SHARE: two requests hold the row, and neither gets to update it.
HoldsFinalsShared(q) == pc[q] \notin {"unsent", "done"}

\* A transaction that has flushed the finalizations holds their row locks.
HoldsFinals(q) == pc[q] \notin {"unsent", "finalize", "done"}

\* The row is added to the session but not flushed before the call to fincode.
InsertDeferred(q) == FALSE

\* A transaction that has flushed its INSERT and waits for fincode.
HoldsInsert(q) == pc[q] \in {"create_call", "write"} /\ req[q].op = "subscribe"

RowLocked(i, r) == \E q \in Requests \ {r} : HoldsFinals(q) /\ i \in finals[q]

\* No transaction waits for another one's uncommitted entry.
IndexNeverBusy(u, r) == FALSE

\* An entry of uq_subscriptions_active_user for user u is being inserted or
\* removed by a transaction other than r: who would add one waits for it.
IndexBusy(u, r) ==
    \E q \in Requests \ {r} :
        /\ req[q] # None /\ req[q].user = u
        /\ HoldsInsert(q) \/ (HoldsFinals(q) /\ finals[q] # {})

\* No partial unique index: only the get_active guard stands.
NoIndexConflict(table, u, i) == FALSE

\* The unique index has an entry of another row than i for user u.
IndexConflict(table, u, i) == \E j \in RowsOf(u, table) \ {i} : table[j].status \in IndexedStatuses

\* Two rows may name the same contract.
ContractNeverTaken(c, i) == FALSE

\* The UNIQUE constraint of the column fincode_subscription_id.
ContractTaken(c, i) == \E j \in Requests \ {i} : rows[j] # None /\ rows[j].contract = c

-----------------------------------------------------------------------------
(* How a transaction ends.                                                 *)

Forget(r) ==
    /\ pc' = [pc EXCEPT ![r] = "done"]
    /\ req' = [req EXCEPT ![r] = None]
    /\ finals' = [finals EXCEPT ![r] = {}]
    /\ target' = [target EXCEPT ![r] = None]
    /\ seen' = [seen EXCEPT ![r] = None]
    /\ reply' = [reply EXCEPT ![r] = None]

\* Any exception before the commit of the route: the session closes and rolls back.
Rollback(r) == Forget(r) /\ UNCHANGED rows

Commit(r, table) == Forget(r) /\ rows' = table

Goto(r, label) ==
    /\ pc' = [pc EXCEPT ![r] = label]
    /\ UNCHANGED <<rows, req, finals, target, seen, reply>>

\* An UPDATE of every column, as a merge of a detached row would send it.
UpdatedInFull(current, loaded, set, stamp) == set

\* The UPDATE of a flush: the columns the handler set to another value than the
\* session loaded, over whatever the row holds by now.  cancelled_at is written
\* as a fresh timestamp (stamp) or reset to NULL, which is a write only if it was
\* loaded with a value.
Updated(current, loaded, set, stamp) ==
    [user      |-> current.user,
     nonce     |-> current.nonce,
     plan      |-> IF set.plan # loaded.plan THEN set.plan ELSE current.plan,
     status    |-> IF set.status # loaded.status THEN set.status ELSE current.status,
     cancelled |-> IF stamp \/ set.cancelled # loaded.cancelled THEN set.cancelled
                                                               ELSE current.cancelled,
     end       |-> IF set.end # loaded.end THEN set.end ELSE current.end,
     contract  |-> IF set.contract # loaded.contract THEN set.contract ELSE current.contract]

-----------------------------------------------------------------------------
(* The start every operation shares: _finalize_elapsed_cancellations.      *)

\* A request arrives and selects the rows whose cancellation has come due.
Receive(r, q) ==
    /\ pc[r] = "unsent"
    /\ Cardinality(InFlight) < MaxInFlight
    /\ pc' = [pc EXCEPT ![r] = "finalize"]
    /\ req' = [req EXCEPT ![r] = q]
    /\ finals' = [finals EXCEPT ![r] = {i \in RowsOf(q.user, rows) : Elapsed(rows[i], now)}]
    /\ UNCHANGED <<rows, contracts, now, target, seen, reply>>

\* The flush that marks them cancelled, on whatever they have become meanwhile.
Finalize(r) ==
    /\ pc[r] = "finalize"
    /\ \A i \in finals[r] : ~RowLocked(i, r)
    /\ Goto(r, IF req[r].op = "subscribe" /\ req[r].key # None THEN "replay" ELSE "guard")
    /\ UNCHANGED <<contracts, now>>

-----------------------------------------------------------------------------
(* subscribe                                                               *)

Prior(r) == {i \in UsableRows(r) : rows[i].nonce = req[r].key}

\* The same Idempotency-Key again: the row of the earlier success is the answer.
Replay(r) ==
    /\ pc[r] = "replay"
    /\ IF Prior(r) # {} THEN Commit(r, View(r)) ELSE Goto(r, "guard")
    /\ UNCHANGED <<contracts, now>>

\* ConflictError unless the user has no usable contract.  What fails between
\* here and the INSERT (plan, card, customer) is Fail.
SubscribeGuard(r) ==
    /\ pc[r] = "guard" /\ req[r].op = "subscribe"
    /\ IF UsableRows(r) # {} THEN Rollback(r) ELSE Goto(r, "insert")
    /\ UNCHANGED <<contracts, now>>

\* The key of the client is dropped.
NonceFresh(r) == r

Nonce(r) == IF req[r].key # None THEN req[r].key ELSE r

NewRow(r, contract, end) ==
    [user |-> req[r].user, plan |-> req[r].plan, nonce |-> Nonce(r), status |-> "active",
     cancelled |-> FALSE, end |-> end, contract |-> contract]

\* The INSERT of the local row, before fincode is asked for anything.  An
\* IntegrityError becomes the ConflictError; a free plan is done with it.
Insert(r) ==
    /\ pc[r] = "insert"
    /\ ~IndexBusy(req[r].user, r)
    /\ \/ IndexConflict(View(r), req[r].user, r) /\ Rollback(r)
       \/ ~IndexConflict(View(r), req[r].user, r) /\ req[r].plan = Free
            /\ Commit(r, [View(r) EXCEPT ![r] = NewRow(r, None, Null)])
       \/ ~IndexConflict(View(r), req[r].user, r) /\ req[r].plan # Free /\ Goto(r, "create_call")
    /\ UNCHANGED <<contracts, now>>

\* The flush of the id and the period of the new contract, the audit entry, the
\* commit.  That flush is outside the try: a taken id is an error of the server.
WriteSubscribe(r) ==
    /\ pc[r] = "write" /\ req[r].op = "subscribe"
    /\ IF ContractTaken(reply[r].id, r)
         THEN Rollback(r)
         ELSE Commit(r, [View(r) EXCEPT ![r] =
                            NewRow(r, reply[r].id, AppliedEnd(Null, reply[r].end))])
    /\ UNCHANGED <<contracts, now>>

-----------------------------------------------------------------------------
(* The two calls to fincode (external; subscription_service.py).           *)

ReplyTo(r, id, end, label) ==
    /\ reply' = [reply EXCEPT ![r] = [id |-> id, end |-> end]]
    /\ pc' = [pc EXCEPT ![r] = label]
    /\ UNCHANGED <<rows, req, finals, target, seen>>

RepliedEnds(contract) == {contract.end} \cup (IF UndatedReplies THEN {Null} ELSE {})

\* POST /v1/subscriptions: a known Idempotency-Key gets its first result again.
Created(id) ==
    IF contracts[id].state # "none" THEN contracts
    ELSE [contracts EXCEPT ![id] = [state |-> "live", end |-> now + PeriodLength]]

CreateContract(r) ==
    /\ pc[r] = "create_call"
    /\ LET id == <<req[r].user, Nonce(r)>>
       IN  /\ contracts' = Created(id)
           /\ \/ \E end \in RepliedEnds(contracts'[id]) : ReplyTo(r, id, end, "write")
              \/ "lost" \in Faults /\ Rollback(r)
    /\ UNCHANGED now

\* Without pay_type the DELETE stops nothing.
StoppedNot(id) == contracts

\* DELETE /v1/subscriptions/{id}: stops the charges, also when it did before.
Stopped(id) == [contracts EXCEPT ![id].state = "stopped"]

CancelContract(r) ==
    /\ pc[r] = "cancel_call"
    /\ LET id == seen[r].contract
       IN  /\ contracts' = Stopped(id)
           /\ \/ \E end \in RepliedEnds(contracts[id]) :
                    ReplyTo(r, id, end, IF req[r].op = "change" /\ req[r].plan # Free
                                        THEN "create_call" ELSE "write")
              \/ "lost" \in Faults /\ Rollback(r)
    /\ UNCHANGED now

-----------------------------------------------------------------------------
(* change_plan and cancel                                                  *)

\* get_active found row i: load it and go on, past the guards of the operation.
Load(r, i, label) ==
    /\ target' = [target EXCEPT ![r] = i]
    /\ seen' = [seen EXCEPT ![r] = View(r)[i]]
    /\ pc' = [pc EXCEPT ![r] = label]
    /\ UNCHANGED <<rows, req, finals, reply>>

\* 404 without a contract, 409 while a cancellation is scheduled, nothing to do
\* for the plan the contract already has; else the calls the two plans need.
ChangeGuard(r) ==
    /\ pc[r] = "guard" /\ req[r].op = "change"
    /\ \/ UsableRows(r) = {} /\ Rollback(r)
       \/ \E i \in UsableRows(r) :
            LET row == View(r)[i]
            IN  \/ CancelAtPeriodEnd(row, now) /\ Rollback(r)
                \/ ~CancelAtPeriodEnd(row, now) /\ row.plan = req[r].plan
                     /\ Commit(r, View(r))
                \/ ~CancelAtPeriodEnd(row, now) /\ row.plan # req[r].plan
                     /\ Load(r, i, CASE row.contract # None -> "cancel_call"
                                     [] row.contract = None /\ req[r].plan = Free -> "write"
                                     [] OTHER -> "create_call")
    /\ UNCHANGED <<contracts, now>>

\* 404 without a contract, a no-op while a cancellation is scheduled; a free
\* contract is cancelled locally, a paid one at fincode first.
CancelGuard(r) ==
    /\ pc[r] = "guard" /\ req[r].op = "cancel"
    /\ \/ UsableRows(r) = {} /\ Rollback(r)
       \/ \E i \in UsableRows(r) :
            LET row == View(r)[i]
            IN  \/ CancelAtPeriodEnd(row, now) /\ Commit(r, View(r))
                \/ ~CancelAtPeriodEnd(row, now)
                     /\ Load(r, i, IF row.contract = None THEN "write" ELSE "cancel_call")
    /\ UNCHANGED <<contracts, now>>

\* The stopped contract stays in a row that is free now.
ChangedRowKeepsContract(r) ==
    IF req[r].plan = Free
    THEN [seen[r] EXCEPT !.plan = Free, !.end = Null, !.cancelled = FALSE, !.status = "active"]
    ELSE [seen[r] EXCEPT !.plan = req[r].plan, !.contract = reply[r].id,
                         !.end = AppliedEnd(seen[r].end, reply[r].end),
                         !.cancelled = FALSE, !.status = "active"]

\* The attributes change_plan leaves in the loaded object: to the free plan, or
\* to a paid one with the contract just created.
ChangedRow(r) ==
    IF req[r].plan = Free
    THEN [seen[r] EXCEPT !.plan = Free, !.contract = None, !.end = Null,
                         !.cancelled = FALSE, !.status = "active"]
    ELSE [seen[r] EXCEPT !.plan = req[r].plan, !.contract = reply[r].id,
                         !.end = AppliedEnd(seen[r].end, reply[r].end),
                         !.cancelled = FALSE, !.status = "active"]

\* The attributes cancel leaves in it.
CancelledRow(r) ==
    LET end == IF seen[r].contract = None THEN seen[r].end
                                          ELSE ExtendedEnd(seen[r].end, reply[r].end)
        kept == seen[r].contract # None /\ HasFuturePeriod([end |-> end], now)
    IN  [seen[r] EXCEPT !.end = end, !.cancelled = TRUE,
                        !.status = IF kept THEN "active" ELSE "cancelled"]

\* The flush and the commit of a loaded row.  It waits for the lock of the row,
\* and for the index when it brings the row back into it; a collision is an error.
Flush(r, set, stamp) ==
    LET i == target[r]
        row == Updated(rows[i], seen[r], set, stamp)
        entering == row.status \in IndexedStatuses /\ rows[i].status \notin IndexedStatuses
    IN  /\ ~RowLocked(i, r)
        /\ entering => ~IndexBusy(req[r].user, r)
        /\ IF \/ entering /\ IndexConflict(View(r), req[r].user, i)
              \/ row.contract # None /\ ContractTaken(row.contract, i)
             THEN Rollback(r)
             ELSE Commit(r, [View(r) EXCEPT ![i] = row])

WriteChange(r) ==
    /\ pc[r] = "write" /\ req[r].op = "change"
    /\ Flush(r, ChangedRow(r), FALSE)
    /\ UNCHANGED <<contracts, now>>

WriteCancel(r) ==
    /\ pc[r] = "write" /\ req[r].op = "cancel"
    /\ Flush(r, CancelledRow(r), TRUE)
    /\ UNCHANGED <<contracts, now>>

-----------------------------------------------------------------------------

\* An error, a timeout or a crash of the process ends the request: an unusable
\* plan or card, an error reply of fincode, a lost connection.
Fail(r) ==
    /\ "fail" \in Faults
    /\ r \in InFlight
    /\ Rollback(r)
    /\ UNCHANGED <<contracts, now>>

Tick ==
    /\ now < MaxNow
    /\ now' = now + 1
    /\ UNCHANGED <<rows, contracts, txVars>>

Serve(r) ==
    \/ Finalize(r) \/ Replay(r) \/ SubscribeGuard(r) \/ Insert(r) \/ WriteSubscribe(r)
    \/ CreateContract(r) \/ CancelContract(r)
    \/ ChangeGuard(r) \/ CancelGuard(r) \/ WriteChange(r) \/ WriteCancel(r)

Next ==
    \/ \E r \in Requests : \/ \E q \in ClientRequests : Receive(r, q)
                           \/ Serve(r)
                           \/ Fail(r)
    \/ Tick

Spec == Init /\ [][Next]_vars

\* The event loop serves every request it has accepted: each await returns,
\* fincode's by its timeout, the lock waits when the holder ends.
FairSpec == Spec /\ \A r \in Requests : WF_vars(Serve(r))

-----------------------------------------------------------------------------
(* Properties                                                              *)

\* Every variable holds what the columns and the handlers' locals can hold, a
\* request that loaded a row knows it, and one that has a reply can write it.
TypeOK ==
    /\ rows \in [Requests -> RowType \cup {None}]
    /\ contracts \in [ContractIds -> ContractType]
    /\ now \in Nat
    /\ pc \in [Requests -> PCs]
    /\ req \in [Requests -> RequestType \cup {None}]
    /\ finals \in [Requests -> SUBSET Requests]
    /\ target \in [Requests -> Requests \cup {None}]
    /\ seen \in [Requests -> RowType \cup {None}]
    /\ reply \in [Requests -> ReplyType \cup {None}]

\* One user never has two committed rows that are active or unpaid, whatever
\* requests overlap: the contract the module's docstring promises.
OneContract ==
    \A i, j \in Requests :
        Live(i, rows) /\ Live(j, rows) /\ rows[i].user = rows[j].user => i = j

HasTarget(r) ==
    /\ target[r] \in Requests /\ rows[target[r]] # None
    /\ rows[target[r]].user = req[r].user
    /\ seen[r] # None

\* What a request knows at each point of its handler.
ControlOK ==
    \A r \in Requests :
        /\ pc[r] \notin {"unsent", "done"} => req[r] # None
        /\ pc[r] # "done" => rows[r] = None
        /\ \A i \in finals[r] : rows[i] # None
        /\ pc[r] = "insert" => req[r].op = "subscribe"
        /\ pc[r] = "cancel_call" =>
              req[r].op # "subscribe" /\ HasTarget(r) /\ seen[r].contract # None
        /\ pc[r] = "create_call" =>
              req[r].op = "subscribe" \/ (req[r].op = "change" /\ HasTarget(r))
        /\ pc[r] = "write" =>
              \/ req[r].op = "subscribe" /\ reply[r] # None
              \/ /\ req[r].op = "change" /\ HasTarget(r)
                 /\ req[r].plan # Free => reply[r] # None
              \/ /\ req[r].op = "cancel" /\ HasTarget(r)
                 /\ seen[r].contract # None => reply[r] # None

\* The strengthening OneContract rests on: while the INSERT of a request is
\* pending, no other INSERT of the user is, and every active or unpaid row of the
\* user is one the request itself is about to cancel.
IndexReserved ==
    \A q \in Requests : HoldsInsert(q) =>
        /\ \A p \in Requests \ {q} : HoldsInsert(p) => req[p].user # req[q].user
        /\ \A i \in Requests : Live(i, rows) /\ rows[i].user = req[q].user => i \in finals[q]

\* The inductive invariant.
IndInv == TypeOK /\ ControlOK /\ IndexReserved /\ OneContract

LiveContracts(u) == {c \in ContractIds : c[1] = u /\ contracts[c].state = "live"}

\* fincode never charges a user for two subscriptions at a time, not even between
\* the call that creates one and the commit that records it (double billing).
AtMostOneCharged == \A u \in Users : Cardinality(LiveContracts(u)) <= 1

\* The contracts a user's rows say are being charged.
BilledRows(u) ==
    {i \in RowsOf(u, rows) : Live(i, rows) /\ ~rows[i].cancelled /\ rows[i].contract # None}

Quiet(u) == \A r \in InFlight : req[r].user # u

\* When no request of a user is being served, fincode charges exactly what the
\* table says: no contract is charged without a row, no row without a contract.
BillingAgrees ==
    \A u \in Users : Quiet(u) => LiveContracts(u) = {rows[i].contract : i \in BilledRows(u)}

\* A row the table has cancelled, or whose cancellation is scheduled, is not
\* charged any more.
CancelledNotCharged ==
    \A i \in Requests :
        /\ rows[i] # None /\ rows[i].contract # None
        /\ rows[i].status = "cancelled" \/ rows[i].cancelled
        => contracts[rows[i].contract].state = "stopped"

\* A cancelled row stays cancelled, with the contract it had: no overlapping
\* request brings it back to life or lets it forget what was charged for it.
CancelledIsFinal ==
    [][\A i \in Requests :
        rows[i] # None /\ rows[i].status = "cancelled" =>
            rows'[i].status = "cancelled" /\ rows'[i].contract = rows[i].contract]_vars

\* A commit that records a contract as being charged settles the account: every
\* contract fincode charges the user for, also one whose reply was lost earlier, is
\* the one recorded.
SuccessSettlesBilling ==
    [][\A i \in Requests :
        /\ rows'[i] # rows[i] /\ rows'[i].status = "active"
        /\ ~rows'[i].cancelled /\ rows'[i].contract # None
        => \A c \in ContractIds :
            c[1] = rows'[i].user /\ contracts'[c].state = "live" => c = rows'[i].contract]_vars

\* Of the behaviours in which a plan change is sent only when nothing else is under way, and
\* nothing before it has ended.
ChangesAlone == \A r \in InFlight : req[r].op = "change" => InFlight = {r}

\* No request waits for ever: the row locks that two of them take to finalize or to
\* write, and the index entries for which they wait, never form a cycle.  A request
\* runs once, so that all of them end when again and again none is under way.
EveryRequestEnds == []<>(InFlight = {})

=============================================================================
