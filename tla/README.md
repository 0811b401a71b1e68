# A TLA+ model of the fincode subscription starter

The backend of this repository sells subscriptions: it keeps one row per contract in
PostgreSQL and one subscription per paid contract at fincode, the payment provider that
charges the cards. The two stores share no transaction. What can go wrong, and what a unit
test hardly reaches, is the order of things: overlapping requests of one user, replies that
are lost, retries, period ends, and webhooks that arrive late, twice or out of order.

Around that core stand the cards and customers, which exist in both stores too, the login by
which overlapping requests become those of one person, and a dashboard that shows copies of all
of it while replies arrive in any order.

These modules model those parts of the program. Each action is one stretch of a handler
between two points at which it awaits something others can overtake; TLC explores every
interleaving of small instances. For instances of every size TLAPS proves the safety of the
table, the charges, the receiver, the logins, the cards and the dashboard, and that the receiver
and the circuit breaker implement their abstract specifications. All paths below are relative to
`src/backend/app/` unless they start with `src/`.

## The system

| Component | State | Operations | Interacts with |
| --- | --- | --- | --- |
| Subscription API (`services/subscription_manager.py`, `api/routes/subscriptions.py`) | the table `subscriptions` | `subscribe`, `change_plan`, `cancel`, each after `_finalize_elapsed_cancellations`; reads | fincode (two calls), the webhook receiver through the table |
| Periods (`services/subscription_periods.py`, `models/subscription.py`) | none | predicates over a row, the updates of `current_period_end` | used by the API and the receiver |
| Webhook receiver (`services/fincode/webhook_handler.py`) | `webhook_events_seen`, `subscription_results`, the contract's row | payment events, stop events, unknown events | fincode, which delivers until it gets a 2xx |
| fincode client and circuit breaker (`services/fincode/client.py`, `circuit_breaker.py`) | the breaker's state, failures and opening time, shared by all requests | `request` with retries | every call to fincode |
| Customer sync (`services/customer_sync_service.py`) | `fincode_customers` | `ensure` | card manager, subscribe, change_plan |
| Card manager (`services/card_manager.py`) | `fincode_cards` | register, delete (soft), list | customer sync, the table `subscriptions` |
| Authentication (`services/auth_service.py`, `services/google_identity.py`, `core/security.py`, `api/routes/auth.py`) | `users`, stateless JWTs | login, logout, current user | every route |
| Plan service (`services/fincode/plan_service.py`) | none | list, fetch | subscribe, change_plan |
| Audit log (`services/audit_logger.py`) | `audit_logs` | record | in the transaction of the operation |
| Rate limit, redaction, logging, errors, configuration, lifespan (`core/`) | counters, settings, the engine | per request, or at start-up | - |
| Frontend (`src/frontend/src`: `hooks/useAuth/AuthProvider.tsx`, `lib/apiClient.ts`, `pages/HomePage.tsx`) | React state, the token and the user in localStorage | pages that call the API; sends no `Idempotency-Key` | the API |

Where it is hard, and what makes each part correct:

* **Subscription API.** Concurrency: nothing locks a user, so that `get_active` is only a
  guess and the partial unique index `uq_subscriptions_active_user` decides. Partial failure:
  a fincode call and the commit that records it are apart. Time: a scheduled cancellation is
  finalized lazily by the next request. Correct when a user has one contract, is charged for
  one at a time, and fincode and the table agree when nothing is going on.
* **Webhook receiver.** Ordering and duplication: delivery is at least once in any order,
  beside the API on the same rows. Correct when the effects of an event are committed once,
  no payment is lost, the account ends up as fincode last said, and no event is delivered for
  ever.
* **Client and breaker.** Replies of concurrent calls reach one breaker in any order.
* **Cards and customers.** A check and the call to fincode it is for are apart, INSERTs of one
  user collide on unique columns, replies are lost. Correct when a person is one customer, no
  row names a customer fincode does not have, and the cards shown are those fincode holds.
* **Authentication.** Two first logins at once against two unique columns. Correct when a
  Google account and an address have one row and nobody is refused their own.
* **Frontend.** Replies that arrive after the state they were asked for, in a session that may
  have ended since. Correct when the dashboard shows what the server has as soon as nothing is
  under way, and does not outlive its session.

The list of hazards, each with its line and the properties about it, is in `PROJECT.json`.

## The modules

| Module | Models | Checked by |
| --- | --- | --- |
| `SubscriptionPeriods` | the predicates and period updates over one row | through the others |
| `SubscriptionManager` | the subscription API, the table, fincode's subscriptions | `MCSubscriptionManager` |
| `SubscriptionManagerProofs` | - the theorems about its table | TLAPS |
| `SubscriptionBillingProofs` (extends it) | - the theorems about what fincode charges | TLAPS |
| `SubscriptionRetryProofs` (extends it) | - the theorems about clients that send keys | TLAPS |
| `WebhookHandler` (extends `SubscriptionManager`) | the webhook receiver beside the API, fincode's charges and stops | `MCWebhookHandler` |
| `MCRefusals` (extends `MCWebhookHandler`) | - the history variable `usable`, for `RefusalsTruthful` | itself |
| `WebhookHandlerProofs` | - the theorems about it, with the refinement | TLAPS |
| `WebhookLedger` | abstract: each event is decided once, and only then acknowledged | through `WebhookHandler` |
| `AuthService` | login with Google over the table `users` | `MCAuthService`, and through `CardManager` |
| `AuthServiceProofs` | - the theorems about it | TLAPS |
| `CardManager` (extends `AuthService`) | cards and fincode customers of the users that are in | `MCCardManager` |
| `CardManagerProofs` (extends `AuthServiceProofs`) | - the theorems about it | TLAPS |
| `AuthProvider` | the session of one browser tab | through `HomePage` |
| `HomePage` (extends `AuthProvider`) | the dashboard in that session | itself |
| `HomePageProofs` | - the theorems about both | TLAPS |
| `OutageRule` | abstract: when calls to fincode are to be refused | through `FincodeClient` |
| `FincodeClient` | the retry loop and the circuit breaker, implementing `OutageRule` | `MCFincodeClient` |
| `FincodeClientProofs` | - the theorems about it | TLAPS |

### SubscriptionManager

`rows` is the committed table: a row is named by the request that inserts it, so that
`rows[i] = None` says that request `i` has inserted nothing. `contracts` is what fincode
holds: a subscription is identified by the user and the nonce, because that is what the
`Idempotency-Key` of its creation is made of (`idem_key("sub.create", user_id, nonce)`). `now`
is the clock. The rest is per request: `pc`, the request itself, the rows it selected to
finalize, the row it loaded and the columns as it loaded them, the last reply of fincode.

A request is one transaction at READ COMMITTED:

| Step | Code |
| --- | --- |
| `Receive`, `Finalize` | the SELECT and the flush of `_finalize_elapsed_cancellations` |
| `Replay`, `SubscribeGuard`, `Insert`, `CreateContract`, `WriteSubscribe` | `subscribe` |
| `ChangeGuard`, `CancelContract`, `CreateContract`, `WriteChange` | `change_plan` |
| `CancelGuard`, `CancelContract`, `WriteCancel` | `cancel` |
| `Fail`, and the lost reply in the two calls | every exception before the route's commit |
| `Tick` | time |

Three mechanisms of the platform are modelled because the correctness hangs on them:

* **visibility** (`View`): the committed rows and the transaction's own flushed writes;
* **locks** (`RowLocked`, `IndexBusy`): an UPDATE waits for the transaction that holds the
  row; an INSERT waits for the one that holds an index entry it would collide with. They are
  held until the commit, across the calls to fincode;
* **partial UPDATEs** (`Updated`): SQLAlchemy sends only the columns that differ from what the
  session loaded. Two requests that change different columns of a row both take effect.

The plan lookup, the card check, the customer lookup and the audit entry change nothing the
properties tell apart; their failures are `Fail`. The retries inside the fincode client are
within one call, because they carry the same key.

### WebhookHandler

`outbox` is what fincode has emitted, `acked` what it got a 2xx for. `outcome` is
`webhook_events_seen`, `results` is `subscription_results`, `job` is the delivery each handler
works on with the row, and the clock, as it loaded them, `applied` a history of the events whose effects were
committed. `Begin` is the INSERT into `webhook_events_seen` and the SELECT; `Finish` is the
upsert, the flush and the commit, or the unique violation. A delivery of an event that another
open transaction has inserted waits for it. fincode's side (`Charge`, `Recharge`, `Stop`,
`Notify`) is external: a live contract whose period is over is charged or fails, a failed
payment may succeed later under its own id, a stop is reported once.

`WebhookLedger` says what remains when handlers, transactions, redeliveries and crashes are
forgotten: an event is undecided until it is applied or set aside, for good; those applied form
a log, one after the other; the payments are the effect of that log alone; and only what was
decided is acknowledged. The refinement mapping is the identity on the tables (`outbox`,
`outcome`, `applied`, `results`), so that it says of the receiver's commit that all of it
happens or nothing. What it rules out is an event that is acknowledged by a delivery
whose transaction was rolled back, or whose effects are committed by two of them.

### AuthService

A login is a transaction that verifies a credential (`Verify`), looks for the Google account
(`FindBySub`), for the address (`CheckEmail`), inserts a row (`InsertUser`) and commits
(`LoginCommit`). `users` is the committed table, a row being named by the login that inserts it;
`OldEmails` are the addresses of rows from before Google login. A row that was flushed by another
login makes an INSERT with one of its unique values wait. When it does not succeed, the
indexes are tested in the order of the migrations: `ix_users_email` (0001), then
`ix_users_google_sub` (0007).

### CardManager

The users are those that `AuthService` lets in. `customers` and `cards` are the committed tables,
`payingWith` the cards of the usable contracts, `fcustomers`, `fcards` and `fdefault` what fincode
holds; a card at fincode is named by its user and its token, because its `Idempotency-Key` is
(`idem_key("card.create", user_id, token_fingerprint(token))`).

| Step | Code |
| --- | --- |
| `FindCustomer`, `CustomerReplied` or `CustomerFails`, `InsertCustomer` | `CustomerSyncService.ensure` |
| `CountCards`, `CreateCard`, `InsertCard` | `register_card` |
| `FindCard`, `DeleteCard` | `delete_card` |
| `FindCard`, the customer, `CreateContract` | what `subscribe` and `change_plan` do with a card |
| `Commit`, `Crash` | the route's commit, and whatever comes before it |
| `EndContract` | a contract ceases to be usable, which `SubscriptionManager` models |

Every call to fincode may act and answer, act and lose the answer, or fail. The two histories
`hurt` and `met` name what the code leaves open: a card whose request failed after fincode had
acted, and requests that overlapped another one of their user. The properties except these cards
and these requests, and nothing else.

### AuthProvider and HomePage

`token` and `stored` are the two entries of localStorage, `user` and `loading` the state of the
provider, `route` the page asked for. A call is a record from the moment `apiFetch` reads the
token: the server answers it with what holds then (`ServeSession`, `ServeHome`), the browser
looks at the reply later. The calls form a bag, and their order is free. Each call knows who
sent it: the page that is shown, the tab (a page that was left, or the provider), or a tab that
was reloaded since and hears nothing of it. Leaving the page and reloading the tab hand its calls
over (`HandedOver`); they stay what they were otherwise.

| Step | Code |
| --- | --- |
| `Unauthorized` | the 401 branch of `apiFetch`, with the event `fincode:auth-cleared` |
| `Refresh`, `LoggedIn`, `LoggedOut`, `Reload` | `refresh`, `loginWithGoogle`, `logout`, the mount of the provider |
| `Redirect`, `Shown` | `RequireAuth`, `RootRoute` |
| `Mount`, `TurnPage` | the effects, also the one of `page` |
| `Click`, then `Subscribed`, `Changed` or `CardsChanged`, or `Failed` | `subscribe`, `changePlan`, `confirmCancel`, `onSubmitCard`, `confirmDeleteCard` |
| `Fetched` | `refreshSubscription`, `refreshPlansAndCards`, `refreshHistory` |

The contract and the cards are versions: a copy is current when it is the last one. The number
tells the state that decides what the page offers and what the API grants: modulo 3 there is no
contract, one, or one whose cancellation is scheduled; modulo 2 there is a card or none. A
contract that has ended may be followed by another one. That a period runs out, or an event
changes the row, while the tab is open is left out: nothing tells the page of it.
The history is the number of the page it was fetched for, without an age. `BackToFirst` is what
three handlers have in common, with the page of the render in which the button was clicked (`arg`)
deciding whether the history is fetched directly and the page of now whether the effect
fetches it.

### FincodeClient and OutageRule

All requests of a process share one `CircuitBreaker`. `state`, `failures` and `openedAt` are its
fields, `now` is the monotonic clock, and `pc`, `attempt` and `result` are the locals of each
call of `request`. A call gives way to others at two points, the HTTP request and the sleep:

| Step | Code |
| --- | --- |
| `Refuse`, `Send` | `before_call` raises, or lets the attempt out (and makes the breaker half-open) |
| `Succeed` | a 2xx, `record_success` |
| `Reject` | 429 and the other 4xx: an error at once, the breaker is not told |
| `Break` | timeout, connection error, any other status: `record_failure`, a sleep or the end |
| `Wake`, `Tick` | the end of a sleep, which is of any length; time |

Replies arrive in any order, so that a success that was sent before the breaker opened closes it
without the half-open state between, and a failure that comes in late opens it again. The
diagram of `src/docs/architecture/error-handling.md` shows neither. `OutageRule` says what the
breaker amounts to none the less: it has no states, only the number of failures since the last
success and the time of the last one of an outage, and a call is refused exactly while there
are `Threshold` of them and that time is less than `Recovery` ago. The refinement mapping takes
the calls that wait for a reply, those that were refused, the counter and the opening time.
It holds because `state` is derived (`StateIsDerived`): closed exactly below the threshold,
half-open only after the recovery. That the counter is not reset by opening is essential for it.

## What the runs check

An instance of the backend is bounded by its set of requests or logins, each served once, by
`MaxInFlight` requests at a time, by `MaxNow` on the clock and `MaxEvents` events; `Browser` by its
logins, actions, lost calls and calls in flight. Deadlock checking is off: the system stops when
these run out. That a wait ends is checked as liveness, by `Overlap` and `LateEvents`, and not of
`Cards`, where a request may crash at any point.

| Run | Instance | Properties | Shows |
| --- | --- | --- | --- |
| `Overlap` | 2 users, 4 requests, 3 at once, all operations, errors, lost replies, fair | `TypeOK`, `OneContract`, `IndInv`, `EveryRequestEnds` | one contract per user, the invariant of the proof, and that the waits for row locks and index entries form no cycle |
| `Races` | 4 requests, 3 at once but for plan changes, with and without a key, no fault | `AtMostOneCharged`, `BillingAgrees`, `CancelledNotCharged`, `CancelledIsFinal` | no double charge; fincode and the table agree when the user is quiet; no overlap revives a cancelled row |
| `Retries` | 4 attempts at once with a key, errors, lost replies | `AtMostOneCharged`, `SuccessSettlesBilling` | the nonce protects a retry; the first commit settles the account |
| `Webhooks` | 2 handlers, 2 events, 3 requests, crashes, lost answers | `WTypeOK`, `OneContract`, `AtMostOnce`, `NoPaymentLost`, `WIndInv`, `ImplementsLedger` | effects once, payments kept, the invariant of the proof; the receiver is the ledger |
| `LateEvents` | 1 handler, 3 events in any order, 2 subscribes, fair | `RefusalsTruthful`, `AccountFollowsPayments`, `PaidTimeKept`, `EveryEventAnswered` | a settled account follows the events that took effect in their order; in any order paid time is kept, a subscribe is refused only for a contract that was usable when it arrived, and every event is answered |
| `Breaker` | 3 calls at once, 2 retries each, threshold 3, recovery 2, clock to 4 | `TypeOK`, `StateIsDerived`, `ImplementsRule` | the breaker implements the rule of `OutageRule` for every order of replies |
| `Cards` | 2 logins of 3 identities, 3 requests, 2 tokens, every fault at every point | `CardTypeOK`, `OnePersonOneCustomer`, `NoPoison`, `CardsAgree`, `DeletedNotPaying`, `DefaultCard` | one person is one customer; fincode and the table agree about the cards |
| `Browser` | 2 tokens, 3 actions or expiries, 1 lost call, 2 pages of history | `HomeTypeOK`, `TokenHasUser`, `ViewsCurrent`, `NoTokenNoDashboard` | at rest the contract and the cards shown are the server's, but for lost calls and older replies that come in later; no dashboard outlives its session |
| `ConcurrentChange` | 2 plan changes at once, no fault | `AtMostOneCharged` violated | see below |
| `RetriedChange` | plan changes one at a time, lost replies, no key | `AtMostOneCharged` violated | see below |
| `PoisonedDelivery` | 1 handler, subscribe and cancel, no fault | `NoPoisonedDelivery` violated | see below |
| `FirstLogins` | 3 logins, 2 persons, an old row | `ConcurrentLoginSucceeds` violated | see below |

Why the bounds are enough: a race needs two requests of one user, and a third one to have
made or cancelled the row they fight over, so that three or four requests reach each of them;
the second user of `Overlap` shows that users do not interfere, which the proof confirms for any
number. `Overlap` has four requests because a row that is to be finalized takes a subscribe and a
cancellation: the other two may then both want to finalize it, one waiting for the row lock of the
other, which goes on to wait for an index entry. Its replies are dated, or no cancellation would be
scheduled; `Races`, `Retries` and `Webhooks` have undated ones, too. Its requests are numbers that
arrive in order (`ArriveInOrder`), which stands in for the symmetry TLC cannot use for liveness:
it leaves out arrivals only, which no fairness asks for. A request runs once, so that
`EveryRequestEnds` says that again and again none is under way. Its mutant has the SELECT of the
finalization take shared locks: two requests then wait for each other for ever. The clock of `Overlap` has two values and a period of one, so that a period can end under
every request; `Races` goes to 3 for a second contract's end. Its constraint `KeyedPlansStay` keeps
a plan change from overlapping another request (`ChangesAlone`) and away from a contract that was
made with a key, and leaves every other sequence of operations in. Two
events are enough for every overlap of two deliveries; three let a failure, its repair and a stop
come in every order. In `Breaker` three
calls open the breaker together or one by one, a fourth failure meets it open, and the clock
leaves room for a recovery, a failed probe and a second recovery. The calls differ by name only,
hence the symmetry. In `Cards` two requests overlap and a third one made the card they are about,
or comes after them; the two logins are one person or two. In `Browser` three actions reach a
click, a page turn and a second click under way together, or an expiry between two of them, and
any one call may be lost beside them. After a reload only the calls that change something at the
server are kept (`Abandoned`): nobody hears the replies to the others.

Four things do not hold of the code, each shown by a run that is expected to fail:

* **`ConcurrentChange`.** Two overlapping `change_plan` requests read the same row without a
  lock and both create a contract at fincode. The later commit overwrites the id of the other,
  which is charged on and is in no row. `docs/customization/index.md` names the unique
  index as the protection against concurrent double contracts; a change inserts no row.
* **`RetriedChange`.** `change_plan` without an `Idempotency-Key` draws a fresh nonce for each
  attempt. After a lost reply the row is rolled back and the retry creates a second contract.
  The comment in `change_plan` calls it retry-safe by the key, and the frontend sends none.
* **`PoisonedDelivery`.** `_handle_cancellation` makes a row active again when the event carries
  a period end in the future, also when the row is cancelled. That happens when the reply to
  the DELETE had no `next_charge_date` and the row no period. Beside a newer contract the
  UPDATE violates the unique index: a 500, and the same again at each redelivery, until the
  period is over. The comment in `_handle_payment` names this loop and prevents it there.
* **`FirstLogins`.** Two first logins of one person overlap. The comment in `login_with_google`
  lets the loser in with the winner's row, by the name of the index in the error. But the loser
  collides in both indexes, and before the INSERT the SELECT by email already finds the winner's
  row: it gets a 409. Only a loser with the same Google account and another address is let in.

`RefusalsTruthful` holds for one delivery at a time and no overlapping cancellation, which is the
instance of `LateEvents`. The clock may tick between the two reads of a request, and the subscribe
that falls in between gets a 409, but for a contract that was usable when it arrived: never for one
that had ended by then, which is finalized, paid or not. With two handlers, or with a cancellation
beside one, a failed payment that loaded the row while it was active writes `unpaid` over
`cancelled`, and blocks the subscribe of that moment; the next request finalizes the row again.

What follows from the plan changes: where one overlaps another request, `BillingAgrees`,
`CancelledNotCharged` and `CancelledIsFinal` fail too, hence the constraint of `Races`.
`PaidTimeKept` holds when deliveries overlap nothing; two overlapping writers compare the period
with the row each of them loaded and the later commit may shorten it.

A key that is used again after its contract has ended is refused by the UNIQUE column of the
contract's id (`BillingAgrees` in `Races`, without `ContractTaken` violated). Not so when the plan
was changed before: the row then has the id of the newer contract, and the subscribe is granted
with the old one, which is stopped. TLC finds that when `KeyedPlansStay` is replaced by
`ChangesAlone`.

Other races the code leaves open, which a property therefore excepts, and which TLC shows when
the exception is dropped:

* a deletion of a card and a payment with it overlap, and the card is gone from under a usable
  contract (`DeletedNotPaying`, `met`), where `src/docs/architecture/error-handling.md` has a 409
  `card_in_use`;
* a card whose deletion or registration failed after fincode had acted differs between the two
  stores (`CardsAgree`, `hurt`);
* a fetch of the contract and a subscribe are answered out of order and the dashboard keeps the
  older reply (`ViewsCurrent`, `strayed`);
* two payments of a contract are reported in the other order and the account follows the one
  reported last (`AccountFollowsPayments`, `InOrder`);
* a refresh that is answered after a logout shows the dashboard without a token, until the
  first call of it is refused (`NoTokenNoDashboard`);
* a 401 that belongs to an earlier token clears a newer one.

Nothing is stated about the history on the dashboard: two fetches that are answered out of order
leave the rows of one page beside the number of another, and a click on page 2 followed by a turn
back to page 1 shows the history from before (`wasOnPageOne`).

Where a doc and the code differ without a run: `src/docs/api/README.md` has the logout revoke the
token, while the route writes an audit entry and the token is accepted until it expires, which
is how `AuthProvider` models it; the index predicate of `src/docs/architecture/data-model.md` has
`active` only, while the migration 0006 and the model, here `IndexedStatuses`, have `unpaid`, too.

### Fairness

`FairSpec` assumes weak fairness of each accepted request's next step: the event loop runs what
is ready, a call to fincode returns or times out, a lock wait ends when its holder does. It
does not assume that requests arrive or that time passes. `WFairSpec` adds that fincode delivers
an unanswered event again and again (strong fairness of `Begin` per event, because a busy
handler or another delivery may keep disabling it) and that not every attempt dies (strong
fairness of `Finish`). `LateEvents` has no fault at all, so that the second one is needed only for
the waits. `Cards` and `Browser` state safety only: a reply may never come, and the user may stop.

## What is proved

Every theorem holds for any sets of users, requests, keys, handlers, events, logins and tokens,
any bound and any combination of faults, unless a hypothesis says otherwise. The assumptions about
the constants (`ConstantsAssumption`, `NoneAssumption`, `ClientAssumption`, `WebhookAssumption`,
`AuthAssumption`, `CardAssumption`, `BrowserAssumption`, `PagesAssumption`) say what type they have, and that `None` is none of the values
it stands beside; TLC evaluates each of them.

| Module | Theorem | States | Under |
| --- | --- | --- | --- |
| `SubscriptionManagerProofs` | `IndInvHolds`, `TypeCorrect`, `OneContractPerUser` | `IndInv`, `TypeOK`, `OneContract` | |
| `SubscriptionBillingProofs` | `CancelledStopsCharges`, `CancelledStaysFinal` | `CancelledNotCharged`, `CancelledIsFinal` | `NoChange` |
| | `NeverChargedTwice`, `BillingFollowsRows` | `AtMostOneCharged`, `BillingAgrees` | `NoChange`, `NoFault` |
| | `LoneChangesChargeOnce`, `LoneChangesFollowRows` | `AtMostOneCharged`, `BillingAgrees` | `NoKeys`, `NoFault`, `ChangesAlone` |
| | `LoneChangesStopCharges`, `LoneChangesStayFinal` | `CancelledNotCharged`, `CancelledIsFinal` | `NoKeys`, `NoFault`, `ChangesAlone` |
| `SubscriptionRetryProofs` | `KeysPreventDoubleCharge`, `CommitSettlesAccount` | `AtMostOneCharged`, `SuccessSettlesBilling` | `KeyedIntentions` |
| `WebhookHandlerProofs` | `WIndInvHolds`, `WTypeCorrect`, `OneContractDespiteEvents` | `WIndInv`, `WTypeOK`, `OneContract` | |
| | `EffectsAtMostOnce`, `PaymentsKept` | `AtMostOnce`, `NoPaymentLost` | |
| | `HandlerImplementsLedger` | `ImplementsLedger` | |
| | `EventsKeepPaidTime` | `PaidTimeKept` | `OnlySubscribe`, `OneHandler` |
| | `AccountFollows` | `AccountFollowsPayments` | `NoPlanChange`, `OneHandler` |
| `FincodeClientProofs` | `TypeCorrect`, `BreakerStateDerived`, `ClientImplementsRule` | `TypeOK`, `StateIsDerived`, `ImplementsRule` | |
| `AuthServiceProofs` | `LoginTypeCorrect`, `OneAccountPerPerson` | `AuthTypeOK`, `OneAccount` | |
| `CardManagerProofs` | `CardTypeCorrect`, `OneCustomerPerPerson`, `PlaceholdersNeverCommitted` | `CardTypeOK`, `OnePersonOneCustomer`, `NoPoison` | |
| | `CardsFollowFincode`, `DefaultIsShown`, `CardInUseStays` | `CardsAgree`, `DefaultCard`, `DeletedNotPaying` | |
| `HomePageProofs` | `HomeInvHolds`, `BrowserTypeCorrect`, `UserOrRefresh` | `HomeInv`, `HomeTypeOK`, `TokenHasUser` | |
| | `DashboardIsCurrent`, `DashboardEndsWithToken` | `ViewsCurrent`, `NoTokenNoDashboard` | |

**The table.** `OneContract` is not inductive by itself. A commit of an INSERT that was flushed a
while ago writes an active row, and what keeps it the only one is what happened at the flush.
`IndexReserved` says it: while a request holds a pending INSERT, no other request of the user
holds one, and every active or unpaid row of the user is among the rows the same transaction
has flushed as cancelled. It is established by the guard of `Insert` (nobody else holds an
entry, none is committed) and kept because whoever wants to add an entry waits in `IndexBusy`.
`ControlOK` says what a request knows at each `pc`. `IndInv` is the conjunction. The step has a
lemma for each group of actions: those that leave the table alone (`MoveKeepsIndInv`), that end
with a rollback (`RollbackKeepsIndInv`), that commit the finalizations alone
(`ViewCommitKeepsIndInv`) or with one row (`RowCommitKeepsIndInv`).

**The charges.** `CancelInv` adds to `IndInv` that a request which means to write a cancellation has
stopped the contract, and that a row it has loaded still has the contract it loaded; then no
commit brings a cancelled row back. `BillingInv` adds that no contract is lost: each one fincode
knows is in exactly one row, of its own user, or in the hands of the request that created it and
holds the INSERT for it. Two charged contracts of a user would be two live rows, which `OneContract`
excludes, a live row beside a pending INSERT, or two such INSERTs, which `IndexReserved` does.
The hypotheses are needed. `NoChange`: clients subscribe and cancel; `ConcurrentChange` is the
counterexample with plan changes. `NoFault`: a reply that is lost after the contract was created
leaves one without a row; `RetriedChange` is the counterexample. `CancelledStopsCharges` and
`CancelledStaysFinal` hold under every fault.

**The plan changes.** The same four properties hold with plan changes of which none overlaps another
request of anybody, while all other requests overlap at will: `ChangesAlone`, assumed of the
behaviour (`Spec /\ []ChangesAlone => ...`), like in the constraint of `Races`. `AloneInv` is
`BillingInv` while no plan change is served, else `Changing(r)` for the one request `r` that is: it
knows its row as it is, because nobody else commits; after the DELETE it holds the one contract
that is stopped while its row is not cancelled, and after the POST the one that is charged and in no
row. Its commit swaps them, or its early return leaves everything as it was, and `BillingInv` is
back, with the old contract `Dropped`. The POST must make a new contract: `FreshInv` says that each
contract fincode knows has the nonce of a request that has called it. A key that was used before
would be answered with the contract that the DELETE has just stopped, hence `NoKeys`, which is what
the frontend does; what keys are good for is the next theorem. Without `ChangesAlone` there is
`ConcurrentChange`, without `NoFault` `RetriedChange`.

**The keys.** What a client's `Idempotency-Key` repairs, with plan changes and under every fault:
`KeyedIntentions` says that a user has one intention to subscribe and one to change the plan, each
under its own key, sent any number of times and overlapping at will. `RetryInv` says that fincode
knows only the contracts those keys name, that each row is what one of the two intentions makes of
it, and that the contract of the plan change is made only when the one of the subscribe is charged
no more (`change_plan` stops it first) and the user has a row, which keeps any other subscribe from
getting past its INSERT. `KeyedIntentions` leaves cancellations out, like the instance of `Retries`:
after one the next subscribe would be another intention, with another key.

**The receiver.** `WIndInv` is `IndInv`, which a delivery does not break because it waits for the
index like a request does, with the types and what is on record: `RecordsOK` ties
`webhook_events_seen` to the history of the effects, `JobsOK` says that two deliveries under way are
never of one event, and that the event of a delivery is not on record yet. That comes from `Begin`,
which waits for the open transaction that has inserted the same event. From it `Finish` decides an
undecided event, which is the step of `WebhookLedger`; every other step of the receiver is a
`Begin` that ignores the event or sets it aside, an acknowledgement, an emission, or a stutter.
`EventsKeepPaidTime` needs its hypotheses, as TLC shows when one is dropped: a delivery compares
the period with the row it loaded, which another delivery, or a cancel, may have extended since.
`CurrentInv` says that under the hypotheses nobody has.

**The payments.** `AccountFollowsPayments` speaks of a settled account whose events took effect in the
order of their emission. `PayInv` drops both conditions: at any time, the status of a row is what
the last event about its contract that took effect made of it (`StatusFollows`), and the same of each
entry of the history (`ResultsFollow`). For that a delivery must know its row as it is, unless the
API has cancelled it meanwhile (`JobsCurrent`), and a contract must be that of one row
(`RowsNamed`). In a settled account the last one that took effect is the last one emitted. That
there is a last one, which the CHOOSEs of the property need, is `HasMaximum`, from the
well-foundedness of the order of the numbers. `OneHandler` is needed: with two of them TLC finds a
success that reads the row before a failure of the same contract is committed, and so does not
write the status that would make it active again. Requests may overlap the deliveries and one another.

**The breaker.** The invariant is `TypeOK`, `StateIsDerived` and `RefusedIsDone`: a call that was
refused has ended, so that its error is not replaced by a later attempt and the set of the refused
calls only grows. `TrippedIsOutage` is the heart of it: under the invariant the test of
`before_call` and that of the rule agree.

**Logins.** In `AuthInv` `InsertReserved` has the part of `IndexReserved`, for two indexes at once: a
flushed INSERT has both its Google account and its address to itself.

**Cards.** `CardInv` has a part for each thing that is kept in step, each resting on the ones before.
`ControlInv` and `OwnerInv` say what a request knows and whose card it is about. `CustomerInv`
reserves the customer row of a user for one INSERT, and says that a request which can still commit
has had an answer of fincode that needs the customer there: no placeholder is committed.
`RegistryInv` relates each card at fincode to the one row that names it or to the request which is
about to write that row; the cards in `hurt` are excepted only from the parts that need a commit
after the call. `DefaultInv` says that a request which has decided against the default flag has
seen a card of the user, so that fincode has a default from the first card on. In `PaymentInv` two
requests of a user that overlap are in `met`, and one that is not in it still sees the card as it
found it. TLC has checked `CardInv` on the instance of `Cards`.

**The dashboard.** `HomeInv` says of each copy that differs from the server why it will not stay: a call
of the page is under way whose reply brings it up to date, or fails (`Repaired`), and none when the
dashboard is at rest. A call repairs a copy when it was not answered yet, or was answered with the
present version; a write at the server takes that from the answers given before, and its own call
takes over. Versions only grow (`LeftGrows`), so that an answer is never newer than the server.
`RefusalsDue` adds for a tab without a token that each view still waits for a call that
was sent without one, which the server refuses. The theorems have no hypothesis. Of the bag of
calls only the domain matters: what `BagOfAll` makes of a bag is a sum over a set, out of the
prover's reach, and so calls are handed over by `HandedOver`. The proof has found one thing wrong:
`NoTokenNoDashboard` first excepted a tab in which some call of the page had been lost, and TLC,
with three calls lost instead of the one of `Browser`, shows a dashboard where each view had lost its
own. Its last disjunct says now what may be lost.

### What is only model-checked

Liveness (`EveryRequestEnds`, `EveryEventAnswered`), which rests on ENABLED: out of the prover's
reach. `RefusalsTruthful`, which is checked on the instance of `LateEvents`.

## What is not modelled

* The components `PROJECT.json` lists as `not_modelled`, with the reason.
* The connection pool: a request that waits for a connection is one that has not arrived.
* fincode's own checks, except that its DELETE may be repeated and its POST is idempotent by key.
* Requests with a body or a signature that is refused before anything is written.
* PostgreSQL's deadlock detection: no cycle arises in the instance of `Overlap`; `Cards` does not ask.
* The plan service, the audit log, rate limits, redaction and configuration: they have no state
  that two steps share, or theirs is written in the transaction of the operation they are about.
* The mock client: it stands in for fincode in demonstrations, and the models describe fincode.
* In the frontend the loaders of third-party scripts, the layout, what is written on the pages,
  and several tabs that share a localStorage.

## Plan

Done, in this order: `SubscriptionPeriods`, `SubscriptionManager` and its proofs,
`WebhookHandler`; `OutageRule`, `FincodeClient` and its proofs; `WebhookLedger` and the refinement;
`AuthService` and `CardManager`; `AuthProvider` and `HomePage`; the proofs about the receiver, the
charges, the plan changes, the keys, the logins, the cards, the payments and the dashboard. What
could follow is a `ChangesAlone` that speaks of one user's requests only.
