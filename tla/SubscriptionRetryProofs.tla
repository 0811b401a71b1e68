----------------------- MODULE SubscriptionRetryProofs -----------------------
(***************************************************************************)
(* What an Idempotency-Key is worth: clients that name each intention by a *)
(* key of its own, one to subscribe and one to change the plan, may retry  *)
(* both as often as they like and let the attempts overlap, whatever fails *)
(* and whatever reply is lost.  fincode never charges a user twice, and a  *)
(* commit that records a contract leaves no other one charged.  The        *)
(* argument is RetryInv: fincode knows only the contracts those keys name, *)
(* and the one of the change is made only when the one of the subscribe is *)
(* charged no more and its row keeps another subscribe from making it.     *)
(***************************************************************************)
EXTENDS SubscriptionManagerProofs, FiniteSetTheorems

\* Each user has one intention to subscribe and one to change, at most, each with its own key.
KeyedIntentions ==
    /\ \A x \in ClientRequests : x.op \in {"subscribe", "change"} /\ x.key # None
    /\ \A x, y \in ClientRequests :
          x.user = y.user /\ (x.op = y.op \/ x.key = y.key) => x = y

\* The contract an intention names, and the one its row has: none for the free plan.
IdOf(x) == <<x.user, x.key>>
ContractFor(x) == IF x.plan = Free THEN None ELSE IdOf(x)

Made(c) == contracts[c].state # "none"
Charged(c) == contracts[c].state = "live"
HasRow(u) == \E i \in Requests : rows[i] # None /\ rows[i].user = u

\* A row is what one of the intentions makes of it, with a contract that fincode knows.
RowOK(row) ==
    /\ row.status = "active" /\ ~row.cancelled
    /\ \E x \in ClientRequests :
          /\ row.user = x.user /\ row.plan = x.plan /\ row.contract = ContractFor(x)
          /\ x.plan # Free => Made(IdOf(x))

Loads(r) == pc[r] \in {"cancel_call", "create_call", "write"} /\ req[r].op = "change"

\* What a request knows: the row it changes is not yet what it makes of it, the subscription of
\* the user is charged no more when it asks for another one, and what it is about to write has been
\* made.
RequestOK(r) ==
    /\ finals[r] = {}
    /\ req[r] # None => req[r] \in ClientRequests
    /\ pc[r] = "create_call" => req[r].plan # Free
    /\ Loads(r) =>
          RowOK(seen[r]) /\ seen[r].user = req[r].user /\ seen[r].plan # req[r].plan
    /\ pc[r] = "create_call" /\ req[r].op = "change" =>
          \A x \in ClientRequests :
              x.user = req[r].user /\ x.op = "subscribe" => ~Charged(IdOf(x))
    /\ pc[r] = "write" =>
          /\ req[r].op = "subscribe" => req[r].plan # Free
          /\ req[r].plan # Free => reply[r].id = IdOf(req[r]) /\ Made(IdOf(req[r]))

ContractsOK ==
    /\ \A c \in ContractIds :
          Made(c) => \E x \in ClientRequests : c = IdOf(x) /\ x.plan # Free
    /\ \A x, y \in ClientRequests :
          x.user = y.user /\ x.op = "subscribe" /\ y.op = "change" /\ Made(IdOf(y)) =>
              ~Charged(IdOf(x)) /\ HasRow(x.user)

RetryInv ==
    /\ IndInv
    /\ \A i \in Requests : rows[i] # None => RowOK(rows[i])
    /\ \A r \in Requests : RequestOK(r)
    /\ ContractsOK

-----------------------------------------------------------------------------
(* What follows from the invariant.                                        *)

LEMMA IntentionsApart ==
    ASSUME KeyedIntentions
    PROVE  /\ \A x \in ClientRequests :
                 IdOf(x) \in ContractIds /\ x.user \in Users /\ x.plan \in Plans
           /\ \A x, y \in ClientRequests : IdOf(x) = IdOf(y) => x = y
<1>1. \A x \in ClientRequests : x \in RequestType /\ x.key # None
  BY ConstantsAssumption DEF KeyedIntentions
<1>2. \A x \in ClientRequests : x.user \in Users /\ x.key \in Keys /\ x.plan \in Plans
  BY <1>1 DEF RequestType
<1> QED
  BY <1>2 DEF KeyedIntentions, IdOf, ContractIds, Nonces

\* A request is one of the intentions, and it sees the committed table.
LEMMA RequestFacts ==
    ASSUME KeyedIntentions, RetryInv, NEW r \in Requests, r \in InFlight
    PROVE  /\ TypeOK /\ ControlOK /\ rows[r] = None /\ View(r) = rows
           /\ req[r] # None /\ req[r] \in ClientRequests /\ req[r].op \in {"subscribe", "change"}
           /\ Nonce(r) = req[r].key /\ IdOf(req[r]) = <<req[r].user, Nonce(r)>>
<1>1. TypeOK /\ ControlOK /\ finals[r] = {}
  BY DEF RetryInv, IndInv, RequestOK
<1>2. req[r] # None /\ rows[r] = None
  BY <1>1 DEF ControlOK, InFlight
<1>3. View(r) = rows
  BY <1>1 DEF View, TypeOK
<1>4. req[r] \in ClientRequests
  BY <1>2 DEF RetryInv, RequestOK
<1> QED
  BY <1>1, <1>2, <1>3, <1>4 DEF KeyedIntentions, Nonce, IdOf

\* While an INSERT is pending, the user has no row: each row is in the index.
LEMMA InsertMeansNoRow ==
    ASSUME RetryInv, NEW r \in Requests, HoldsInsert(r)
    PROVE  ~HasRow(req[r].user)
<1>1. finals[r] = {} /\ IndexReserved
  BY DEF RetryInv, IndInv, RequestOK
<1>2. \A i \in Requests : rows[i] # None => Live(i, rows)
  BY DEF RetryInv, RowOK, Live, LiveStatuses
<1> QED
  BY <1>1, <1>2 DEF IndexReserved, HasRow

\* A request that changes a row has loaded what the intention to subscribe made of it.
LEMMA LoadedIsSubscribed ==
    ASSUME KeyedIntentions, RetryInv, NEW r \in Requests, Loads(r)
    PROVE  \E x \in ClientRequests :
              /\ x.op = "subscribe" /\ x.user = req[r].user
              /\ seen[r].plan = x.plan /\ seen[r].contract = ContractFor(x)
              /\ x.plan # Free => Made(IdOf(x))
<1>1. r \in InFlight
  BY DEF Loads, InFlight
<1>2. req[r] \in ClientRequests
  BY <1>1, RequestFacts
<1>3. RowOK(seen[r]) /\ seen[r].user = req[r].user /\ seen[r].plan # req[r].plan
  BY DEF RetryInv, RequestOK
<1>4. PICK x \in ClientRequests :
          /\ seen[r].user = x.user /\ seen[r].plan = x.plan /\ seen[r].contract = ContractFor(x)
          /\ x.plan # Free => Made(IdOf(x))
  BY <1>3 DEF RowOK
<1>5. x.op # "change"
  BY <1>2, <1>3, <1>4 DEF KeyedIntentions, Loads
<1> QED
  BY <1>3, <1>4, <1>5 DEF KeyedIntentions

\* When a request is about to write the contract it has made, no other one of its user is charged.
LEMMA WrittenIsOnlyCharged ==
    ASSUME KeyedIntentions, RetryInv, NEW r \in Requests, pc[r] = "write", req[r].plan # Free,
           NEW c \in ContractIds, c[1] = req[r].user, Charged(c)
    PROVE  c = IdOf(req[r])
<1>1. /\ req[r] \in ClientRequests /\ req[r].op \in {"subscribe", "change"}
      /\ Made(IdOf(req[r]))
  BY RequestFacts DEF InFlight, RetryInv, RequestOK
<1>2. PICK x \in ClientRequests : c = IdOf(x)
  BY DEF RetryInv, ContractsOK, Made, Charged
<1>3. x.user = req[r].user /\ x.op \in {"subscribe", "change"}
  BY <1>2 DEF IdOf, KeyedIntentions
<1>4. CASE x.op = req[r].op
  BY <1>1, <1>2, <1>3, <1>4 DEF KeyedIntentions
<1>5. CASE x.op = "subscribe" /\ req[r].op = "change"
  BY <1>1, <1>2, <1>3, <1>5 DEF RetryInv, ContractsOK
<1>6. CASE x.op = "change" /\ req[r].op = "subscribe"
  <2>1. HasRow(req[r].user)
    BY <1>1, <1>2, <1>3, <1>6 DEF RetryInv, ContractsOK, Made, Charged
  <2> QED
    BY <1>6, <2>1, InsertMeansNoRow DEF HoldsInsert
<1> QED
  BY <1>1, <1>3, <1>4, <1>5, <1>6

-----------------------------------------------------------------------------
(* The step.                                                               *)

\* No call to fincode makes a contract unknown, or charges for the subscription of a user who has
\* a row again.
Advances ==
    /\ \A c \in ContractIds : Made(c) => Made(c)'
    /\ \A x \in ClientRequests :
          x.op = "subscribe" /\ HasRow(x.user) /\ Charged(IdOf(x))' => Charged(IdOf(x))

\* No row is removed, or given to another user.
RowsStay ==
    \A i \in Requests : rows[i] # None => rows'[i] # None /\ rows'[i].user = rows[i].user

\* A row, or a copy of it, stays what an intention made of it.
LEMMA RowStaysOK ==
    ASSUME KeyedIntentions, Advances, NEW row, RowOK(row)
    PROVE  RowOK(row)'
  BY IntentionsApart DEF RowOK, Advances

\* A step of one request: the others know what they knew.
LEMMA StepKeepsRetryInv ==
    ASSUME KeyedIntentions, RetryInv, IndInv', NEW r \in Requests, Moves(r), Advances, RowsStay,
           \A i \in Requests : rows'[i] = rows[i] \/ RowOK(rows[i])',
           RequestOK(r)', ContractsOK'
    PROVE  RetryInv'
<1>1. \A i \in Requests : rows'[i] # None => RowOK(rows[i])'
  <2> SUFFICES ASSUME NEW i \in Requests, rows'[i] # None, rows'[i] = rows[i]
               PROVE  RowOK(rows[i])'
    OBVIOUS
  <2>1. RowOK(rows[i])
    BY DEF RetryInv
  <2> QED
    BY <2>1, RowStaysOK
<1>2. ASSUME NEW q \in Requests \ {r} PROVE RequestOK(q)'
  <2>1. /\ pc'[q] = pc[q] /\ req'[q] = req[q] /\ finals'[q] = finals[q]
        /\ target'[q] = target[q] /\ seen'[q] = seen[q] /\ reply'[q] = reply[q]
        /\ RequestOK(q) /\ ControlOK
    BY DEF Moves, RetryInv, IndInv
  <2>2. Loads(q) => RowOK(seen[q])'
    BY <2>1, RowStaysOK DEF RequestOK
  <2>3. pc[q] = "create_call" /\ req[q].op = "change" => HasRow(req[q].user)
    BY <2>1 DEF ControlOK, HasTarget, HasRow
  <2>4. pc[q] = "create_call" /\ req[q].op = "change" =>
          \A x \in ClientRequests :
              x.user = req[q].user /\ x.op = "subscribe" => ~Charged(IdOf(x))'
    BY <2>1, <2>3 DEF RequestOK, Advances
  <2>5. pc[q] = "write" /\ req[q].plan # Free => Made(IdOf(req[q]))'
    <3>1. pc[q] = "write" => req[q] \in ClientRequests
      BY <2>1 DEF ControlOK, RequestOK
    <3> QED
      BY <2>1, <3>1, IntentionsApart DEF RequestOK, Advances
  <2> QED
    BY <2>1, <2>2, <2>4, <2>5 DEF RequestOK, Loads, IdOf
<1> QED
  BY <1>1, <1>2 DEF RetryInv

\* Where fincode is not called, it knows and charges what it did.
LEMMA SameContracts ==
    ASSUME RetryInv, UNCHANGED contracts, RowsStay
    PROVE  Advances /\ ContractsOK'
<1>1. \A u \in Users : HasRow(u) => HasRow(u)'
  BY DEF HasRow, RowsStay
<1>2. Advances
  BY DEF Advances, Made, Charged
<1>3. \A x \in ClientRequests : x.user \in Users
  BY ConstantsAssumption DEF RequestType
<1> QED
  BY <1>1, <1>2, <1>3 DEF RetryInv, ContractsOK, Made, Charged

\* A request that ends, with a commit of good rows or without one.
LEMMA EndKeepsRetryInv ==
    ASSUME KeyedIntentions, RetryInv, IndInv', NEW r \in Requests, Forget(r), Advances, RowsStay,
           \A i \in Requests : rows'[i] = rows[i] \/ RowOK(rows[i])', ContractsOK'
    PROVE  RetryInv'
<1>1. Moves(r) /\ pc'[r] = "done" /\ req'[r] = None /\ finals'[r] = {}
  BY DEF Forget, Moves, RetryInv, IndInv, TypeOK
<1>2. RequestOK(r)'
  BY <1>1 DEF RequestOK, Loads
<1> QED
  BY <1>1, <1>2, StepKeepsRetryInv

LEMMA RollbackKeepsRetryInv ==
    ASSUME KeyedIntentions, RetryInv, IndInv', NEW r \in Requests, Rollback(r),
           UNCHANGED contracts \/ (Advances /\ ContractsOK')
    PROVE  RetryInv'
<1>1. Forget(r) /\ rows' = rows /\ RowsStay
  BY DEF Rollback, RowsStay
<1> QED
  BY <1>1, SameContracts, EndKeepsRetryInv

\* A commit of the table as it is.
LEMMA ViewCommitKeepsRetryInv ==
    ASSUME KeyedIntentions, RetryInv, IndInv', NEW r \in InFlight, Commit(r, View(r)),
           UNCHANGED contracts
    PROVE  RetryInv'
<1>1. Rollback(r)
  BY RequestFacts DEF Commit, Rollback, InFlight
<1> QED
  BY <1>1, RollbackKeepsRetryInv DEF InFlight

LEMMA GotoKeepsRetryInv ==
    ASSUME KeyedIntentions, RetryInv, IndInv', NEW r \in Requests,
           NEW label \in {"replay", "guard", "insert", "create_call"}, Goto(r, label),
           label = "create_call" => req[r].op = "subscribe" /\ req[r].plan # Free,
           UNCHANGED contracts
    PROVE  RetryInv'
<1>1. /\ Moves(r) /\ pc'[r] = label /\ RowsStay /\ UNCHANGED <<rows, req, finals>>
  BY DEF Goto, Moves, RowsStay, RetryInv, IndInv, TypeOK
<1>2. RequestOK(r)'
  BY <1>1 DEF RetryInv, RequestOK, Loads
<1> QED
  BY <1>1, <1>2, SameContracts, StepKeepsRetryInv

LEMMA ReceiveKeepsRetryInv ==
    ASSUME KeyedIntentions, RetryInv, IndInv', NEW r \in Requests, NEW q \in ClientRequests,
           Receive(r, q)
    PROVE  RetryInv'
<1>1. /\ Moves(r) /\ pc'[r] = "finalize" /\ req'[r] = q /\ UNCHANGED <<rows, contracts>>
      /\ finals'[r] = {i \in RowsOf(q.user, rows) : Elapsed(rows[i], now)} /\ RowsStay
  BY DEF Receive, Moves, RowsStay, RetryInv, IndInv, TypeOK
<1>2. finals'[r] = {}
  BY <1>1 DEF RetryInv, RowOK, Elapsed, RowsOf
<1>3. RequestOK(r)'
  BY <1>1, <1>2 DEF RequestOK, Loads
<1> QED
  BY <1>1, <1>3, SameContracts, StepKeepsRetryInv

\* The guard of a plan change: the row it loads is another intention's.
LEMMA ChangeGuardKeepsRetryInv ==
    ASSUME KeyedIntentions, RetryInv, IndInv', NEW r \in Requests, ChangeGuard(r)
    PROVE  RetryInv'
<1>1. /\ pc[r] = "guard" /\ req[r].op = "change" /\ r \in InFlight /\ UNCHANGED contracts
  BY DEF ChangeGuard, InFlight
<1>2. View(r) = rows /\ req[r] \in ClientRequests /\ TypeOK
  BY <1>1, RequestFacts
<1>3. CASE Rollback(r)
  BY <1>1, <1>3, RollbackKeepsRetryInv
<1>4. CASE Commit(r, View(r))
  BY <1>1, <1>4, ViewCommitKeepsRetryInv
<1>5. ASSUME NEW i \in UsableRows(r), NEW label \in {"cancel_call", "write", "create_call"},
             Load(r, i, label), rows[i].plan # req[r].plan,
             label = "create_call" => rows[i].contract = None /\ req[r].plan # Free,
             label = "write" => req[r].plan = Free
      PROVE  RetryInv'
  <2>1. /\ Moves(r) /\ pc'[r] = label /\ seen'[r] = rows[i] /\ RowsStay
        /\ UNCHANGED <<rows, req, finals>>
    BY <1>2, <1>5 DEF Load, Moves, RowsStay, TypeOK
  <2>2. i \in Requests /\ rows[i] # None /\ rows[i].user = req[r].user /\ RowOK(rows[i])
    BY <1>2, <1>5 DEF UsableRows, RowsOf, RetryInv
  <2>3. RowOK(seen[r])'
    BY <1>1, <2>1, <2>2, SameContracts, RowStaysOK
  <2>4. ASSUME label = "create_call", NEW x \in ClientRequests, x.user = req[r].user,
               x.op = "subscribe", Charged(IdOf(x))
        PROVE  FALSE
    <3>1. PICK y \in ClientRequests : /\ rows[i].user = y.user /\ rows[i].plan = y.plan
                                      /\ rows[i].contract = ContractFor(y)
      BY <2>2 DEF RowOK
    <3>2. y = x
      BY <1>1, <1>2, <1>5, <2>2, <2>4, <3>1 DEF KeyedIntentions
    <3>3. IdOf(x) \in ContractIds /\ IdOf(x) # None
      BY IntentionsApart, NoneIsApart
    <3>4. x.plan = Free
      BY <1>5, <2>4, <3>1, <3>2, <3>3 DEF ContractFor
    <3>5. \E z \in ClientRequests : IdOf(x) = IdOf(z) /\ z.plan # Free
      BY <2>4, <3>3 DEF RetryInv, ContractsOK, Made, Charged
    <3> QED
      BY <3>4, <3>5, IntentionsApart
  <2>5. RequestOK(r)'
    BY <1>1, <1>2, <1>5, <2>1, <2>2, <2>3, <2>4 DEF RequestOK, Loads, RetryInv, Charged
  <2> QED
    BY <1>1, <2>1, <2>5, SameContracts, StepKeepsRetryInv
<1> QED
  BY <1>1, <1>2, <1>3, <1>4, <1>5 DEF ChangeGuard

\* The commit of a subscribe.
LEMMA NewRowIsOK ==
    ASSUME KeyedIntentions, RetryInv, NEW r \in InFlight, NEW end,
           req[r].plan # Free => Made(IdOf(req[r]))
    PROVE  RowOK(NewRow(r, ContractFor(req[r]), end))
  BY RequestFacts DEF InFlight, NewRow, RowOK

LEMMA SubscribeCommitKeepsRetryInv ==
    ASSUME KeyedIntentions, RetryInv, IndInv', NEW r \in InFlight, NEW end,
           Commit(r, [View(r) EXCEPT ![r] = NewRow(r, ContractFor(req[r]), end)]),
           req[r].plan # Free => Made(IdOf(req[r])), UNCHANGED contracts
    PROVE  RetryInv'
<1> DEFINE row == NewRow(r, ContractFor(req[r]), end)
<1>1. /\ r \in Requests /\ TypeOK /\ rows[r] = None /\ View(r) = rows /\ Forget(r)
  BY RequestFacts DEF Commit, InFlight
<1>2. rows' = [rows EXCEPT ![r] = row] /\ RowsStay /\ rows'[r] = row
      /\ \A i \in Requests \ {r} : rows'[i] = rows[i]
  BY <1>1 DEF Commit, RowsStay, TypeOK
<1>3. RowOK(row)
  BY NewRowIsOK
<1>4. Advances /\ ContractsOK'
  BY <1>2, SameContracts
<1>5. RowOK(rows[r])'
  <2> HIDE DEF row
  <2>1. \E x : x = row /\ RowOK(x)
    BY <1>3
  <2> QED
    BY <1>2, <1>4, <2>1, RowStaysOK
<1> QED
  BY <1>1, <1>2, <1>4, <1>5, EndKeepsRetryInv

\* The commit of a plan change: of the loaded row remain the user and what every row is.
LEMMA WriteChangeFacts ==
    ASSUME KeyedIntentions, RetryInv, NEW r \in Requests, WriteChange(r)
    PROVE  \/ Rollback(r)
           \/ /\ target[r] \in Requests /\ rows[target[r]] # None
              /\ Commit(r, [rows EXCEPT ![target[r]] =
                              Updated(rows[target[r]], seen[r], ChangedRow(r), FALSE)])
              /\ LET row == Updated(rows[target[r]], seen[r], ChangedRow(r), FALSE)
                 IN  RowOK(row) /\ row.user = req[r].user /\ rows[target[r]].user = req[r].user
                     /\ row.contract = ContractFor(req[r]) /\ row # None
<1> DEFINE current == rows[target[r]]
           row == Updated(current, seen[r], ChangedRow(r), FALSE)
<1>1. pc[r] = "write" /\ req[r].op = "change" /\ r \in InFlight /\ Flush(r, ChangedRow(r), FALSE)
  BY DEF WriteChange, InFlight
<1>2. View(r) = rows /\ req[r] \in ClientRequests /\ TypeOK /\ ControlOK /\ Loads(r)
  BY <1>1, RequestFacts DEF Loads
<1>3. Rollback(r) \/ Commit(r, [rows EXCEPT ![target[r]] = row])
  BY <1>1, <1>2 DEF Flush
<1>4. /\ target[r] \in Requests /\ current # None /\ current.user = req[r].user
      /\ seen[r] \in RowType /\ RowOK(current)
  BY <1>1, <1>2 DEF ControlOK, HasTarget, TypeOK, RetryInv
<1>5. RowOK(seen[r]) /\ seen[r].plan # req[r].plan
  BY <1>2 DEF RetryInv, RequestOK
<1>6. PICK x \in ClientRequests :
          /\ x.op = "subscribe" /\ x.user = req[r].user
          /\ seen[r].plan = x.plan /\ seen[r].contract = ContractFor(x)
  BY <1>2, LoadedIsSubscribed
<1>7. x # req[r] /\ IdOf(x) # IdOf(req[r]) /\ IdOf(x) # None /\ IdOf(req[r]) # None
  BY <1>1, <1>2, <1>6, IntentionsApart, NoneIsApart
<1>8. req[r].plan # Free => reply[r].id = IdOf(req[r]) /\ Made(IdOf(req[r]))
  BY <1>1 DEF RetryInv, RequestOK
<1>9. /\ ChangedRow(r).plan = req[r].plan /\ ChangedRow(r).contract = ContractFor(req[r])
      /\ ChangedRow(r).status = "active" /\ ~ChangedRow(r).cancelled
  BY <1>4, <1>8 DEF ChangedRow, ContractFor, RowType
<1>10. ContractFor(req[r]) # seen[r].contract
  BY <1>5, <1>6, <1>7 DEF ContractFor
<1>11. /\ row.user = req[r].user /\ row.plan = req[r].plan /\ row.contract = ContractFor(req[r])
       /\ row.status = "active" /\ ~row.cancelled
  BY <1>4, <1>5, <1>9, <1>10 DEF Updated, RowOK
<1>12. row # None
  BY <1>1, <1>2, <1>4, SetRowsAreRows, UpdatedIsRow, NoneIsApart DEF TypeOK
<1> HIDE DEF row
<1>13. RowOK(row)
  BY <1>2, <1>8, <1>11 DEF RowOK
<1> QED
  BY <1>3, <1>4, <1>11, <1>12, <1>13 DEF row

LEMMA WriteChangeKeepsRetryInv ==
    ASSUME KeyedIntentions, RetryInv, IndInv', NEW r \in Requests, WriteChange(r)
    PROVE  RetryInv'
<1> PICK i, row : i = target[r] /\ row = Updated(rows[i], seen[r], ChangedRow(r), FALSE)
  OBVIOUS
<1>1. UNCHANGED contracts /\ rows \in [Requests -> RowType \cup {None}]
  BY DEF WriteChange, RetryInv, IndInv, TypeOK
<1>2. CASE Rollback(r)
  BY <1>1, <1>2, RollbackKeepsRetryInv
<1>3. CASE ~Rollback(r)
  <2>1. /\ i \in Requests /\ rows[i] # None /\ Commit(r, [rows EXCEPT ![i] = row])
        /\ RowOK(row) /\ row.user = req[r].user /\ rows[i].user = req[r].user /\ row # None
    BY <1>3, WriteChangeFacts
  <2>2. /\ Forget(r) /\ rows'[i] = row /\ \A j \in Requests \ {i} : rows'[j] = rows[j]
    BY <1>1, <2>1 DEF Commit
  <2>3. RowsStay
    BY <2>1, <2>2 DEF RowsStay
  <2>4. Advances /\ ContractsOK'
    BY <1>1, <2>3, SameContracts
  <2>5. RowOK(row)'
    BY <2>1, <2>4, RowStaysOK
  <2>6. RowOK(rows[i])'
    BY <2>2, <2>5
  <2> QED
    BY <2>2, <2>3, <2>4, <2>6, EndKeepsRetryInv
<1> QED
  BY <1>2, <1>3

\* POST: what is made is what the request names; a subscribe that asks has no row beside it, and a
\* plan change has stopped what the subscribe made.
LEMMA CreateKeepsRetryInv ==
    ASSUME KeyedIntentions, RetryInv, IndInv', NEW r \in Requests, CreateContract(r)
    PROVE  RetryInv'
<1> PICK id : id = IdOf(req[r])
  OBVIOUS
<1>1. pc[r] = "create_call" /\ r \in InFlight
  BY DEF CreateContract, InFlight
<1>2. /\ TypeOK /\ ControlOK /\ req[r] \in ClientRequests /\ req[r].op \in {"subscribe", "change"}
      /\ id = <<req[r].user, Nonce(r)>> /\ id \in ContractIds /\ RequestOK(r)
  BY <1>1, RequestFacts, IntentionsApart DEF RetryInv
<1>3. /\ contracts' = Created(id)
      /\ \/ Rollback(r)
         \/ \E end : ReplyTo(r, id, end, "write")
  BY <1>2 DEF CreateContract
<1>4. /\ Made(id)'
      /\ \A c \in ContractIds : Made(c) => Made(c)'
      /\ \A c \in ContractIds \ {id} : contracts'[c] = contracts[c]
  BY <1>2, <1>3 DEF Created, Made, TypeOK, ContractType
<1>5. req[r].plan # Free
  BY <1>1, <1>2 DEF RequestOK
<1>6. req[r].op = "subscribe" => ~HasRow(req[r].user)
  BY <1>1, InsertMeansNoRow DEF HoldsInsert
<1>7. req[r].op = "change" =>
        /\ HasRow(req[r].user)
        /\ \A x \in ClientRequests :
              x.user = req[r].user /\ x.op = "subscribe" => ~Charged(IdOf(x))
  BY <1>1, <1>2 DEF ControlOK, HasTarget, HasRow, RequestOK
<1>8. \A x \in ClientRequests : x # req[r] => IdOf(x) \in ContractIds \ {id}
  BY <1>2, IntentionsApart
<1>9. RowsStay /\ UNCHANGED rows
  BY <1>3 DEF ReplyTo, Rollback, RowsStay
<1>10. Advances
  BY <1>2, <1>4, <1>6, <1>8 DEF Advances, Charged
<1>11. ContractsOK'
  <2>1. \A c \in ContractIds : Made(c)' => \E x \in ClientRequests : c = IdOf(x) /\ x.plan # Free
    BY <1>2, <1>4, <1>5 DEF RetryInv, ContractsOK, Made
  <2>2. ASSUME NEW x \in ClientRequests, NEW y \in ClientRequests, x.user = y.user,
               x.op = "subscribe", y.op = "change", Made(IdOf(y))'
        PROVE  ~Charged(IdOf(x))' /\ HasRow(x.user)
    <3>1. CASE y = req[r]
      BY <1>7, <1>8, <1>4, <2>2, <3>1 DEF Charged
    <3>2. CASE y # req[r]
      <4>1. Made(IdOf(y))
        BY <1>4, <1>8, <2>2, <3>2 DEF Made
      <4>2. ~Charged(IdOf(x)) /\ HasRow(x.user)
        BY <2>2, <4>1 DEF RetryInv, ContractsOK
      <4> QED
        BY <1>10, <2>2, <4>2 DEF Advances
    <3> QED
      BY <3>1, <3>2
  <2>3. \A u : HasRow(u) => HasRow(u)'
    BY <1>9 DEF HasRow
  <2> QED
    BY <2>1, <2>2, <2>3 DEF ContractsOK
<1>12. CASE Rollback(r)
  BY <1>10, <1>11, <1>12, RollbackKeepsRetryInv
<1>13. ASSUME NEW end, ReplyTo(r, id, end, "write") PROVE RetryInv'
  <2>1. /\ Moves(r) /\ pc'[r] = "write" /\ reply'[r].id = id
        /\ UNCHANGED <<rows, req, finals, seen>>
    BY <1>2, <1>13 DEF ReplyTo, Moves, TypeOK
  <2>2. Loads(r)' => RowOK(seen[r])' /\ seen[r].user = req[r].user /\ seen[r].plan # req[r].plan
    BY <1>1, <1>2, <1>10, <2>1, RowStaysOK DEF RequestOK, Loads
  <2>3. RequestOK(r)'
    BY <1>2, <1>4, <1>5, <2>1, <2>2 DEF RequestOK, RowOK, IdOf
  <2> QED
    BY <1>9, <1>10, <1>11, <2>1, <2>3, StepKeepsRetryInv
<1> QED
  BY <1>3, <1>12, <1>13

\* DELETE: what is stopped is what the subscribe made.
LEMMA StopKeepsRetryInv ==
    ASSUME KeyedIntentions, RetryInv, IndInv', NEW r \in Requests, CancelContract(r)
    PROVE  RetryInv'
<1> PICK id : id = seen[r].contract
  OBVIOUS
<1>1. pc[r] = "cancel_call" /\ r \in InFlight
  BY DEF CancelContract, InFlight
<1>2. /\ TypeOK /\ ControlOK /\ req[r] \in ClientRequests /\ RequestOK(r) /\ id # None
      /\ req[r].op = "change" /\ Loads(r)
  BY <1>1, RequestFacts DEF RetryInv, ControlOK, Loads
<1>3. PICK x \in ClientRequests :
          /\ x.op = "subscribe" /\ x.user = req[r].user /\ id = ContractFor(x)
          /\ x.plan # Free => Made(IdOf(x))
  BY <1>2, LoadedIsSubscribed
<1>4. id = IdOf(x) /\ Made(id) /\ id \in ContractIds
  BY <1>2, <1>3, IntentionsApart DEF ContractFor
<1>5. \A y \in ClientRequests : IdOf(y) \in ContractIds
  BY IntentionsApart
<1>6. /\ contracts' = Stopped(id)
      /\ \/ Rollback(r)
         \/ \E end : ReplyTo(r, id, end, IF req[r].plan # Free THEN "create_call" ELSE "write")
  BY <1>2 DEF CancelContract
<1>7. ~Charged(id)' /\ Made(id)' /\ \A c \in ContractIds \ {id} : contracts'[c] = contracts[c]
  BY <1>2, <1>4, <1>6 DEF Stopped, Charged, Made, TypeOK, ContractType
<1>8. RowsStay /\ UNCHANGED rows /\ \A u : HasRow(u) => HasRow(u)'
  BY <1>6 DEF ReplyTo, Rollback, RowsStay, HasRow
<1>9. \A c \in ContractIds : (Made(c)' <=> Made(c)) /\ (Charged(c)' => Charged(c))
  BY <1>4, <1>7 DEF Made, Charged
<1>10. Advances /\ ContractsOK'
  BY <1>5, <1>8, <1>9 DEF Advances, ContractsOK, RetryInv
<1>11. CASE Rollback(r)
  BY <1>10, <1>11, RollbackKeepsRetryInv
<1>12. ASSUME NEW end, NEW label, label = IF req[r].plan # Free THEN "create_call" ELSE "write",
              ReplyTo(r, id, end, label)
       PROVE  RetryInv'
  <2>1. Moves(r) /\ pc'[r] = label /\ UNCHANGED <<rows, req, finals, seen>>
    BY <1>2, <1>12 DEF ReplyTo, Moves, TypeOK
  <2>2. RowOK(seen[r])' /\ seen[r].user = req[r].user /\ seen[r].plan # req[r].plan
    BY <1>2, <1>10, <2>1, RowStaysOK DEF RequestOK
  <2>3. \A y \in ClientRequests : y.user = req[r].user /\ y.op = "subscribe" => ~Charged(IdOf(y))'
    BY <1>3, <1>4, <1>7 DEF KeyedIntentions
  <2>4. RequestOK(r)'
    BY <1>2, <1>12, <2>1, <2>2, <2>3 DEF RequestOK, Charged
  <2> QED
    BY <1>8, <1>10, <2>1, <2>4, StepKeepsRetryInv
<1> QED
  BY <1>6, <1>11, <1>12

\* What a request does when it writes a row.
LEMMA WritesKeepRetryInv ==
    ASSUME KeyedIntentions, RetryInv, IndInv', NEW r \in Requests, Insert(r) \/ WriteSubscribe(r)
    PROVE  RetryInv'
<1>1. r \in InFlight /\ UNCHANGED contracts
  BY DEF Insert, WriteSubscribe, InFlight
<1>2. req[r] \in ClientRequests /\ View(r) = rows /\ ControlOK
  BY <1>1, RequestFacts
<1>3. CASE Rollback(r)
  BY <1>1, <1>3, RollbackKeepsRetryInv
<1>4. CASE Insert(r)
  <2>1. req[r].op = "subscribe"
    BY <1>2, <1>4 DEF Insert, ControlOK
  <2>2. req[r].plan = Free => ContractFor(req[r]) = None
    BY DEF ContractFor
  <2> QED
    BY <1>1, <1>3, <1>4, <2>1, <2>2, SubscribeCommitKeepsRetryInv, GotoKeepsRetryInv DEF Insert
<1>5. CASE WriteSubscribe(r)
  <2>1. req[r].plan # Free /\ reply[r].id = ContractFor(req[r]) /\ Made(IdOf(req[r]))
    BY <1>5 DEF WriteSubscribe, RetryInv, RequestOK, ContractFor
  <2> QED
    BY <1>1, <1>3, <1>5, <2>1, SubscribeCommitKeepsRetryInv DEF WriteSubscribe
<1> QED
  BY <1>4, <1>5

LEMMA NextKeepsRetryInv ==
    ASSUME KeyedIntentions, RetryInv, [Next]_vars
    PROVE  RetryInv'
<1>1. IndInv'
  BY NextKeepsIndInv DEF RetryInv
<1>2. \A r \in InFlight : req[r].op # "cancel"
  BY RequestFacts DEF InFlight
<1>3. ASSUME NEW r \in Requests, Serve(r) PROVE RetryInv'
  <2>1. CASE Finalize(r) \/ Replay(r) \/ SubscribeGuard(r)
    BY <1>1, <2>1, GotoKeepsRetryInv, RollbackKeepsRetryInv, ViewCommitKeepsRetryInv
       DEF Finalize, Replay, SubscribeGuard, InFlight
  <2>2. ~CancelGuard(r) /\ ~WriteCancel(r)
    BY <1>2 DEF CancelGuard, WriteCancel, InFlight
  <2> QED
    BY <1>1, <1>3, <2>1, <2>2, WritesKeepRetryInv, ChangeGuardKeepsRetryInv,
       WriteChangeKeepsRetryInv, CreateKeepsRetryInv, StopKeepsRetryInv DEF Serve
<1>4. ASSUME NEW r \in Requests, Fail(r) PROVE RetryInv'
  BY <1>1, <1>4, RollbackKeepsRetryInv DEF Fail
<1>5. CASE Tick \/ UNCHANGED vars
  <2>1. UNCHANGED <<rows, contracts, pc, req, finals, target, seen, reply>>
    BY <1>5 DEF Tick, txVars, vars
  <2> QED
    BY <1>1, <2>1 DEF RetryInv, RequestOK, RowOK, Loads, ContractsOK, Made, Charged, HasRow
<1> QED
  BY <1>1, <1>3, <1>4, <1>5, ReceiveKeepsRetryInv DEF Next

LEMMA InitEstablishesRetryInv == ASSUME KeyedIntentions PROVE Init => RetryInv
<1> SUFFICES ASSUME Init PROVE RetryInv
  OBVIOUS
<1>1. \A c \in ContractIds : ~Made(c)
  BY DEF Init, Made
<1>2. ContractsOK
  BY <1>1, IntentionsApart DEF ContractsOK
<1>3. \A r \in Requests : RequestOK(r)
  BY DEF Init, RequestOK, Loads
<1> QED
  BY <1>2, <1>3, InitEstablishesIndInv DEF Init, RetryInv

-----------------------------------------------------------------------------
(* The theorems.                                                           *)

\* A user who names each intention by a key is never charged for two contracts at a time, however
\* often the requests are repeated, overlap, fail or lose their replies.
THEOREM KeysPreventDoubleCharge == ASSUME KeyedIntentions PROVE Spec => []AtMostOneCharged
<1>1. Init => RetryInv
  BY InitEstablishesRetryInv
<1>2. RetryInv /\ [Next]_vars => RetryInv'
  BY NextKeepsRetryInv
<1>3. ASSUME RetryInv, NEW u \in Users, NEW c \in LiveContracts(u), NEW d \in LiveContracts(u)
      PROVE  c = d
  <2>1. PICK x \in ClientRequests : c = IdOf(x)
    BY <1>3 DEF LiveContracts, RetryInv, ContractsOK, Made
  <2>2. PICK y \in ClientRequests : d = IdOf(y)
    BY <1>3 DEF LiveContracts, RetryInv, ContractsOK, Made
  <2>3. x.user = y.user /\ Charged(IdOf(x)) /\ Charged(IdOf(y))
    BY <2>1, <2>2 DEF LiveContracts, IdOf, Charged
  <2>4. x.op = y.op
    BY <1>3, <2>3 DEF KeyedIntentions, RetryInv, ContractsOK, Made, Charged
  <2> QED
    BY <2>1, <2>2, <2>3, <2>4 DEF KeyedIntentions
<1>4. ASSUME RetryInv, NEW u \in Users PROVE Cardinality(LiveContracts(u)) <= 1
  <2>1. CASE LiveContracts(u) = {}
    BY <2>1, FS_EmptySet
  <2>2. ASSUME NEW c \in LiveContracts(u) PROVE Cardinality(LiveContracts(u)) <= 1
    <3>1. LiveContracts(u) = {c}
      BY <1>3, <1>4, <2>2
    <3> QED
      BY <3>1, FS_Singleton
  <2> QED
    BY <2>1, <2>2
<1>5. RetryInv => AtMostOneCharged
  BY <1>4 DEF AtMostOneCharged
<1> QED
  BY <1>1, <1>2, <1>5, PTL DEF Spec

\* A row that a step writes with a contract is written by a request that has made it.
LEMMA RecordedIsMade ==
    ASSUME KeyedIntentions, RetryInv, [Next]_vars, NEW i \in Requests,
           rows'[i] # rows[i], rows'[i].contract # None
    PROVE  \E r \in Requests :
              /\ pc[r] = "write" /\ req[r].plan # Free /\ UNCHANGED contracts
              /\ rows'[i].contract = IdOf(req[r]) /\ rows'[i].user = req[r].user
<1>1. TypeOK
  BY DEF RetryInv, IndInv
<1>2. PICK r \in InFlight : Serve(r) /\ rows' # rows
  BY DEF Next, Receive, Fail, Rollback, Tick, vars, Serve, Finalize, Replay, SubscribeGuard,
         Insert, WriteSubscribe, CreateContract, CancelContract, ChangeGuard, CancelGuard,
         WriteChange, WriteCancel, InFlight
<1>3. /\ r \in Requests /\ View(r) = rows /\ req[r].op # "cancel"
      /\ rows \in [Requests -> RowType \cup {None}]
  BY RequestFacts DEF InFlight, TypeOK
<1>4. CASE WriteSubscribe(r)
  <2>1. /\ rows' = [rows EXCEPT ![r] = NewRow(r, reply[r].id, AppliedEnd(Null, reply[r].end))]
        /\ reply[r].id = IdOf(req[r]) /\ req[r].plan # Free
    BY <1>2, <1>3, <1>4 DEF WriteSubscribe, Rollback, Commit, RetryInv, RequestOK
  <2>2. i = r /\ rows'[i].contract = reply[r].id /\ rows'[i].user = req[r].user
    BY <1>3, <2>1 DEF NewRow
  <2> QED
    BY <1>3, <1>4, <2>1, <2>2 DEF WriteSubscribe
<1>5. CASE WriteChange(r)
  <2>1. PICK row : /\ rows' = [rows EXCEPT ![target[r]] = row]
                   /\ row.contract = ContractFor(req[r]) /\ row.user = req[r].user
    BY <1>2, <1>3, <1>5, WriteChangeFacts DEF Rollback, Commit
  <2>2. rows'[i] = row
    BY <1>3, <2>1
  <2> QED
    BY <1>3, <1>5, <2>1, <2>2 DEF WriteChange, ContractFor
<1>6. CASE Insert(r)
  <2>1. rows' = [rows EXCEPT ![r] = NewRow(r, None, Null)]
    BY <1>2, <1>3, <1>6 DEF Insert, Rollback, Commit, Goto
  <2> QED
    BY <1>3, <2>1 DEF NewRow
<1> QED
  BY <1>2, <1>3, <1>4, <1>5, <1>6
     DEF Serve, Finalize, Replay, SubscribeGuard, CreateContract, CancelContract, ChangeGuard,
         CancelGuard, WriteCancel, Rollback, Commit, Goto, Load, ReplyTo

\* The first attempt of such a client that commits a contract settles the account: whatever the
\* lost ones before it have made at fincode, the contract it records is the only one charged.
THEOREM CommitSettlesAccount == ASSUME KeyedIntentions PROVE Spec => SuccessSettlesBilling
<1> DEFINE Settles ==
        \A i \in Requests :
            /\ rows'[i] # rows[i] /\ rows'[i].status = "active"
            /\ ~rows'[i].cancelled /\ rows'[i].contract # None
            => \A c \in ContractIds :
                c[1] = rows'[i].user /\ contracts'[c].state = "live" => c = rows'[i].contract
<1>1. Init => RetryInv
  BY InitEstablishesRetryInv
<1>2. RetryInv /\ [Next]_vars => RetryInv'
  BY NextKeepsRetryInv
<1>3. RetryInv /\ [Next]_vars => [Settles]_vars
  <2> SUFFICES ASSUME RetryInv, [Next]_vars, NEW i \in Requests, rows'[i] # rows[i],
                      rows'[i].contract # None, NEW c \in ContractIds,
                      c[1] = rows'[i].user, contracts'[c].state = "live"
               PROVE  c = rows'[i].contract
    OBVIOUS
  <2>1. PICK r \in Requests :
            /\ pc[r] = "write" /\ req[r].plan # Free /\ UNCHANGED contracts
            /\ rows'[i].contract = IdOf(req[r]) /\ rows'[i].user = req[r].user
    BY RecordedIsMade
  <2> QED
    BY <2>1, WrittenIsOnlyCharged DEF Charged
<1> QED
  BY <1>1, <1>2, <1>3, PTL DEF Spec, SuccessSettlesBilling
=============================================================================
