---------------------------- MODULE CardManager ----------------------------
(***************************************************************************)
(* Cards and fincode customers: app/services/card_manager.py,              *)
(* customer_sync_service.py and the wrappers card_service.py and           *)
(* customer_service.py, for the users that AuthService lets in.  A request *)
(* is one transaction at READ COMMITTED: what it inserts is seen by others *)
(* when it commits, and an INSERT waits for an uncommitted row with the    *)
(* same unique key.  A "pay" request stands for the part of subscribe and  *)
(* change_plan that takes a card; the rest of them is SubscriptionManager. *)
(***************************************************************************)
EXTENDS AuthService

CONSTANTS
    Requests,      \* the requests; a row is named by the request that inserts it
    Tokens         \* the card tokens of fincode.js; (user, token) names a card at fincode

VARIABLES
    customers,     \* fincode_customers: the user of a committed row, or None
    cards,         \* fincode_cards: a committed row, or None
    payingWith,    \* the card row of a usable contract, or None
    cpc,           \* where each request is
    req,           \* what it was asked for
    custRow,       \* the customer row it works with
    defaultFlag,   \* the default_flag it sends
    fcustomers,    \* fincode: the users that have a customer
    fcards,        \* fincode: what became of the card of a user and a token
    fdefault,      \* fincode: the default card of a user
    hurt,          \* history: cards whose request failed after fincode acted
    met            \* history: requests that overlapped another one of their user

cardVars == <<customers, cards, payingWith, cpc, req, custRow, defaultFlag,
              fcustomers, fcards, fdefault, hurt, met>>
tables   == <<customers, cards, payingWith>>
fincode  == <<fcustomers, fcards, fdefault>>
locals   == <<req, custRow, defaultFlag>>

Users == Logins
CardType == [user : Users, token : Tokens]
RowType  == [user : Users, token : Tokens, deleted : BOOLEAN]
ReqType  == [op : {"register"}, user : Users, token : Tokens]
            \cup [op : {"delete", "pay"}, user : Users, row : Requests]
Ended    == {"done", "failed"}
CardPCs  == {"unsent", "find card", "find customer", "create customer", "insert customer", "count",
             "create card", "insert card", "delete card", "create contract", "commit"} \cup Ended

ASSUME CardAssumption == None \notin Requests \cup Tokens \cup RowType \cup ReqType

CardInit ==
    /\ AuthInit
    /\ customers = [q \in Requests |-> None] /\ cards = [q \in Requests |-> None]
    /\ payingWith = [q \in Requests |-> None] /\ cpc = [q \in Requests |-> "unsent"]
    /\ req = [q \in Requests |-> None] /\ custRow = [q \in Requests |-> None]
    /\ defaultFlag = [q \in Requests |-> FALSE]
    /\ fcustomers = {} /\ fcards = [c \in CardType |-> "none"] /\ fdefault = [u \in Users |-> None]
    /\ hurt = {} /\ met = {}

-----------------------------------------------------------------------------

Active(q) == cpc[q] \notin Ended \cup {"unsent"}
UserOf(q) == req[q].user
Goto(q, label) == cpc' = [cpc EXCEPT ![q] = label]

\* The card a request is about, as fincode names it.
CardOf(q) ==
    [user |-> UserOf(q), token |-> IF req[q].op = "register" THEN req[q].token ELSE cards[req[q].row].token]

\* The transaction is rolled back: nothing of it reaches the tables.
Abort(q) == Goto(q, "failed") /\ UNCHANGED <<tables, locals>>

CustomerRows(u) == {c \in Requests : customers[c] = u}

\* Uncommitted rows of other requests.
PendingCustomer(p, u) == Active(p) /\ custRow[p] = p /\ UserOf(p) = u
PendingCard(p, c) == cpc[p] = "commit" /\ req[p].op = "register" /\ CardOf(p) = c

VisibleRows(u) == {c \in Requests : cards[c] # None /\ cards[c].user = u /\ ~cards[c].deleted}

\* What a request does with the customer it was given.
AfterCustomer(q) == IF req[q].op = "register" THEN "count" ELSE "create contract"

Start(q, r) ==
    /\ cpc[q] = "unsent"
    /\ \E l \in Logins : Authenticated(l) /\ account[l] = r.user
    /\ r.op # "register" => cards[r.row] # None
    /\ req' = [req EXCEPT ![q] = r]
    /\ Goto(q, IF r.op = "register" THEN "find customer" ELSE "find card")
    /\ LET others == {p \in Requests : Active(p) /\ UserOf(p) = r.user} IN
          met' = IF others = {} THEN met ELSE met \cup others \cup {q}
    /\ UNCHANGED <<tables, custRow, defaultFlag, fincode, hurt>>

\* A card of another user, or a deleted one, is not found.
Found(q) == req[q].row \in VisibleRows(UserOf(q))

\* Nobody checks whether a contract uses the card.
InUseUnchecked(q) == FALSE

InUse(q) == \E p \in Requests : payingWith[p] = req[q].row

\* A card in use is not deleted; an expired one is refused for a payment.
FindCard(q) ==
    /\ cpc[q] = "find card"
    /\ \/ req[q].op = "delete" /\ Found(q) /\ ~InUse(q) /\ Goto(q, "delete card") /\ UNCHANGED <<tables, locals>>
       \/ req[q].op = "pay" /\ Found(q) /\ Goto(q, "find customer") /\ UNCHANGED <<tables, locals>>
       \/ (req[q].op = "delete" => ~Found(q) \/ InUse(q)) /\ Abort(q)
    /\ UNCHANGED <<fincode, hurt, met>>

(* CustomerSyncService.ensure                                              *)

\* The id of the user is taken for the id of the row.
FindCustomerByUser(q) ==
    /\ cpc[q] = "find customer"
    /\ \/ CustomerRows(UserOf(q)) = {} /\ Goto(q, "create customer") /\ UNCHANGED custRow
       \/ \E c \in CustomerRows(UserOf(q)) :
             custRow' = [custRow EXCEPT ![q] = customers[c]] /\ Goto(q, AfterCustomer(q))
    /\ UNCHANGED <<tables, req, defaultFlag, fincode, hurt, met>>

FindCustomer(q) ==
    /\ cpc[q] = "find customer"
    /\ \/ CustomerRows(UserOf(q)) = {} /\ Goto(q, "create customer") /\ UNCHANGED custRow
       \/ \E c \in CustomerRows(UserOf(q)) :
             custRow' = [custRow EXCEPT ![q] = c] /\ Goto(q, AfterCustomer(q))
    /\ UNCHANGED <<tables, req, defaultFlag, fincode, hurt, met>>

\* The id is the user's own, so that "exists already" and a replay name the same customer; a
\* permanent refusal is taken for "exists already".
CustomerReplied(q) ==
    /\ cpc[q] = "create customer"
    /\ fcustomers' \in {fcustomers, fcustomers \cup {UserOf(q)}}
    /\ Goto(q, "insert customer")
    /\ UNCHANGED <<tables, locals, fcards, fdefault, hurt, met>>

\* 5xx, timeout, 429 or an open breaker, with or without effect.
CustomerFails(q) ==
    /\ cpc[q] = "create customer"
    /\ fcustomers' \in {fcustomers, fcustomers \cup {UserOf(q)}}
    /\ Abort(q)
    /\ UNCHANGED <<fcards, fdefault, hurt, met>>

\* No unique constraint on user_id.
InsertCustomerUnchecked(q) ==
    /\ cpc[q] = "insert customer"
    /\ custRow' = [custRow EXCEPT ![q] = q]
    /\ Goto(q, AfterCustomer(q))
    /\ UNCHANGED <<tables, req, defaultFlag, fincode, hurt, met>>

\* The row is committed on its own, whatever becomes of the request.
InsertCustomerCommits(q) ==
    /\ cpc[q] = "insert customer"
    /\ \E c \in IF CustomerRows(UserOf(q)) = {} THEN {q} ELSE CustomerRows(UserOf(q)) :
          /\ custRow' = [custRow EXCEPT ![q] = c]
          /\ customers' = [customers EXCEPT ![c] = UserOf(q)]
    /\ Goto(q, AfterCustomer(q))
    /\ UNCHANGED <<cards, payingWith, req, defaultFlag, fincode, hurt, met>>

\* The savepoint: the loser of a collision works with the winner's row.
InsertCustomer(q) ==
    /\ cpc[q] = "insert customer"
    /\ \A p \in Requests \ {q} : ~PendingCustomer(p, UserOf(q))
    /\ \E c \in IF CustomerRows(UserOf(q)) = {} THEN {q} ELSE CustomerRows(UserOf(q)) :
          custRow' = [custRow EXCEPT ![q] = c]
    /\ Goto(q, AfterCustomer(q))
    /\ UNCHANGED <<tables, req, defaultFlag, fincode, hurt, met>>

(* CardManager.register_card                                               *)

\* The flag is the wrong way round.
CountCardsSwapped(q) ==
    /\ cpc[q] = "count"
    /\ defaultFlag' = [defaultFlag EXCEPT ![q] = VisibleRows(UserOf(q)) # {}]
    /\ Goto(q, "create card")
    /\ UNCHANGED <<tables, req, custRow, fincode, hurt, met>>

CountCards(q) ==
    /\ cpc[q] = "count"
    /\ defaultFlag' = [defaultFlag EXCEPT ![q] = VisibleRows(UserOf(q)) = {}]
    /\ Goto(q, "create card")
    /\ UNCHANGED <<tables, req, custRow, fincode, hurt, met>>

\* What POST /v1/customers/{customer}/cards does; the token's key makes a second one a replay.
CardCreated(q) ==
    /\ UserOf(q) \in fcustomers
    /\ IF fcards[CardOf(q)] # "none" THEN UNCHANGED <<fcards, fdefault>> ELSE
          /\ fcards' = [fcards EXCEPT ![CardOf(q)] = "held"]
          /\ fdefault' = IF defaultFlag[q] THEN [fdefault EXCEPT ![UserOf(q)] = req[q].token] ELSE fdefault

CreateCard(q) ==
    /\ cpc[q] = "create card"
    /\ \/ CardCreated(q) /\ Goto(q, "insert card") /\ UNCHANGED <<tables, locals, hurt>>
       \/ CardCreated(q) /\ Abort(q) /\ hurt' = hurt \cup {CardOf(q)}     \* the reply is lost
       \/ Abort(q) /\ UNCHANGED <<fcards, fdefault, hurt>>
    /\ UNCHANGED <<fcustomers, met>>

\* UNIQUE (fincode_card_id) counts deleted rows; a collision is a 500.
InsertCard(q) ==
    /\ cpc[q] = "insert card"
    /\ \A p \in Requests \ {q} : ~PendingCard(p, CardOf(q))
    /\ LET taken == \E c \in Requests :
             cards[c] # None /\ [user |-> cards[c].user, token |-> cards[c].token] = CardOf(q)
       IN  \/ taken /\ Abort(q)
           \/ ~taken /\ Goto(q, "commit") /\ UNCHANGED <<tables, locals>>
    /\ UNCHANGED <<fincode, hurt, met>>

(* CardManager.delete_card and the payment                                 *)

CardDeleted(q) ==
    fcards' = [fcards EXCEPT ![CardOf(q)] = IF @ = "held" THEN "deleted" ELSE @]

\* An error of fincode does not keep deleted_at from being set.
DeleteCardSwallows(q) ==
    /\ cpc[q] = "delete card"
    /\ CardDeleted(q) \/ UNCHANGED fcards
    /\ Goto(q, "commit")
    /\ UNCHANGED <<tables, locals, fcustomers, fdefault, hurt, met>>

\* A card that is gone may be deleted again or refused.
DeleteCard(q) ==
    /\ cpc[q] = "delete card"
    /\ \/ CardDeleted(q) /\ Goto(q, "commit") /\ UNCHANGED <<tables, locals, hurt>>
       \/ CardDeleted(q) /\ Abort(q) /\ hurt' = hurt \cup {CardOf(q)}
       \/ Abort(q) /\ UNCHANGED <<fcards, hurt>>
    /\ UNCHANGED <<fcustomers, fdefault, met>>

\* fincode makes no contract for a card or a customer it does not have.
CreateContract(q) ==
    /\ cpc[q] = "create contract"
    /\ \/ /\ UserOf(q) \in fcustomers /\ fcards[CardOf(q)] = "held"
          /\ Goto(q, "commit") /\ UNCHANGED <<tables, locals>>
       \/ Abort(q)
    /\ UNCHANGED <<fincode, hurt, met>>

Commit(q) ==
    /\ cpc[q] = "commit"
    /\ customers' = IF custRow[q] = q THEN [customers EXCEPT ![q] = UserOf(q)] ELSE customers
    /\ cards' = CASE req[q].op = "register" ->
                       [cards EXCEPT ![q] = [user |-> UserOf(q), token |-> req[q].token, deleted |-> FALSE]]
                  [] req[q].op = "delete" -> [cards EXCEPT ![req[q].row].deleted = TRUE]
                  [] req[q].op = "pay" -> cards
    /\ payingWith' = IF req[q].op = "pay" THEN [payingWith EXCEPT ![q] = req[q].row] ELSE payingWith
    /\ Goto(q, "done")
    /\ UNCHANGED <<locals, fincode, hurt, met>>

\* A crash, a lost connection or a commit that fails, at any point.
Crash(q) ==
    /\ Active(q)
    /\ Abort(q)
    /\ hurt' = IF cpc[q] \in {"insert card", "commit"} /\ req[q].op # "pay"
               THEN hurt \cup {CardOf(q)} ELSE hurt
    /\ UNCHANGED <<fincode, met>>

\* A contract stops being usable: its period has elapsed, or its plan became free.
EndContract(q) ==
    /\ payingWith[q] # None
    /\ payingWith' = [payingWith EXCEPT ![q] = None]
    /\ UNCHANGED <<customers, cards, cpc, locals, fincode, hurt, met>>

CardStep(q) ==
    \/ FindCard(q) \/ FindCustomer(q) \/ CustomerReplied(q) \/ CustomerFails(q)
    \/ InsertCustomer(q) \/ CountCards(q) \/ CreateCard(q) \/ InsertCard(q)
    \/ DeleteCard(q) \/ CreateContract(q) \/ Commit(q)

CardNext ==
    \/ AuthNext /\ UNCHANGED cardVars
    \/ /\ UNCHANGED authVars
       /\ \E q \in Requests :
             \/ \E r \in ReqType : Start(q, r)
             \/ CardStep(q) \/ Crash(q) \/ EndContract(q)

CardSpec == CardInit /\ [][CardNext]_<<authVars, cardVars>>

-----------------------------------------------------------------------------
(* Properties                                                              *)

CardTypeOK ==
    /\ AuthTypeOK
    /\ customers \in [Requests -> Users \cup {None}]
    /\ cards \in [Requests -> RowType \cup {None}]
    /\ payingWith \in [Requests -> Requests \cup {None}]
    /\ cpc \in [Requests -> CardPCs]
    /\ req \in [Requests -> ReqType \cup {None}]
    /\ custRow \in [Requests -> Requests \cup {None}]
    /\ defaultFlag \in [Requests -> BOOLEAN]
    /\ fcustomers \subseteq Users
    /\ fcards \in [CardType -> {"none", "held", "deleted"}]
    /\ fdefault \in [Users -> Tokens \cup {None}]
    /\ hurt \subseteq CardType /\ met \subseteq Requests

Quiet(u) == \A q \in Requests : Active(q) => UserOf(q) # u

RowsOfCard(c) == {q \in Requests : cards[q] # None /\ cards[q].user = c.user /\ cards[q].token = c.token}

\* A Google account has one row of users and that row one row of fincode_customers, whichever
\* first logins and first uses of fincode overlap (auth_service.py, customer_sync_service.py).
OnePersonOneCustomer ==
    /\ OneAccount
    /\ \A l, m \in Logins, c, d \in Requests :
          /\ lpc[l] = "in" /\ lpc[m] = "in" /\ who[l].sub = who[m].sub
          /\ customers[c] = account[l] /\ customers[d] = account[m]
          => c = d

\* A committed customer row names a customer that fincode has.  The placeholder id that stands
\* for a refused creation (customer_sync_service.py:40-44, 56) never outlives its request: the
\* call that needs the customer fails, and the row is rolled back with it.
NoPoison == \A q \in Requests : customers[q] # None => customers[q] \in fcustomers

\* When nothing of a user is under way, the cards shown are the cards fincode holds, but for
\* those whose request failed after fincode had acted; and no card is shown twice.
CardsAgree ==
    \A c \in CardType \ hurt : Quiet(c.user) =>
        /\ fcards[c] = "held" <=> \E q \in RowsOfCard(c) : ~cards[q].deleted
        /\ \A p, q \in RowsOfCard(c) : p = q

\* A card is not deleted under a usable contract, unless its payment overlapped another
\* request of the user: a deletion and a payment in turn are told apart by the guards.
DeletedNotPaying ==
    \A q \in Requests : payingWith[q] # None /\ cards[payingWith[q]].deleted => q \in met

\* A user whose cards all stand has a default card, and it is one of those shown, however
\* first registrations overlap.
DefaultCard ==
    \A u \in Users :
        /\ Quiet(u) /\ VisibleRows(u) # {}
        /\ \A c \in CardType : c.user = u => c \notin hurt /\ fcards[c] # "deleted"
        => \E q \in VisibleRows(u) : fdefault[u] = cards[q].token

=============================================================================
