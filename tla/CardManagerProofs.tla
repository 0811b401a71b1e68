-------------------------- MODULE CardManagerProofs --------------------------
(***************************************************************************)
(* Cards and customers, for any number of users, tokens and overlapping    *)
(* requests, with every fault at every point.  The inductive invariant     *)
(* CardInv has a part for each of the things the code keeps in step: what  *)
(* a request knows (ControlInv) and whose card it is about (OwnerInv), the *)
(* row of fincode_customers and the customer it names (CustomerInv), the   *)
(* rows of fincode_cards and the cards they name (RegistryInv), the card   *)
(* that fincode charges by default (DefaultInv), and the cards that        *)
(* contracts pay with (PaymentInv).                                        *)
(***************************************************************************)
EXTENDS CardManager, AuthServiceProofs

\* What a request knows at each point of its handler.
Knows(q) ==
    /\ cpc[q] # "unsent" => req[q] # None
    /\ cpc[q] = "find card" => req[q].op \in {"delete", "pay"}
    /\ cpc[q] \in {"find customer", "create customer", "insert customer"} =>
          req[q].op \in {"register", "pay"}
    /\ cpc[q] \in {"count", "create card", "insert card"} => req[q].op = "register"
    /\ cpc[q] = "delete card" => req[q].op = "delete"
    /\ cpc[q] = "create contract" => req[q].op = "pay"
    /\ req[q] # None /\ req[q].op # "register" => cards[req[q].row] # None
    /\ customers[q] # None \/ cards[q] # None => cpc[q] = "done"

ControlInv == \A q \in Requests : Knows(q)

\* A request whose row of fincode_customers is flushed and not committed.
Inserts(p) == Active(p) /\ custRow[p] = p

\* A user has one row of fincode_customers, committed or in the hands of one request, and a
\* request that can still commit it has been served by fincode for that customer.
CustomerInv ==
    /\ \A q \in Requests : custRow[q] # None =>
          /\ cpc[q] \notin {"unsent", "find card", "find customer", "create customer",
                            "insert customer"}
          /\ req[q].op # "delete"
    /\ \A q \in Requests :
          cpc[q] = "insert card" \/ (cpc[q] = "commit" /\ req[q].op # "delete") =>
             req[q].user \in fcustomers
    /\ \A c, d \in Requests : customers[c] # None /\ customers[c] = customers[d] => c = d
    /\ \A p \in Requests : Inserts(p) =>
          /\ \A c \in Requests : customers[c] # req[p].user
          /\ \A q \in Requests : Inserts(q) /\ req[q].user = req[p].user => p = q
    /\ NoPoison

\* The inductive invariant: the part about people, and the parts about their cards.
PeopleInv == AuthInv /\ CardTypeOK /\ ControlInv /\ CustomerInv

\* The row that names a card of fincode; a request that has registered it there, or deleted
\* it there, and has not committed.
Names(q, c) == cards[q] # None /\ cards[q].user = c.user /\ cards[q].token = c.token
Registers(q, c) == cpc[q] \in {"insert card", "commit"} /\ req[q].op = "register" /\ CardOf(q) = c
Deletes(q, c) == cpc[q] = "commit" /\ req[q].op = "delete" /\ CardOf(q) = c

\* A card of fincode and its row come and go together, but for the time between the call and
\* the commit, and for the cards in hurt; and a card has one row.
RegistryOf(c) ==
    /\ \A p, q \in Requests : Names(p, c) /\ Names(q, c) => p = q
    /\ \A q \in Requests : Names(q, c) =>
          /\ fcards[c] # "none"
          /\ cards[q].deleted => fcards[c] = "deleted"
    /\ fcards[c] = "deleted" => \E q \in Requests : Names(q, c)
    /\ \A p \in Requests : PendingCard(p, c) =>
          /\ \A q \in Requests : ~Names(q, c)
          /\ \A q \in Requests : PendingCard(q, c) => p = q
    /\ \A q \in Requests : Registers(q, c) => fcards[c] # "none"
    /\ \A q \in Requests : Deletes(q, c) => fcards[c] = "deleted"
    /\ c \notin hurt /\ fcards[c] = "held" =>
          \E q \in Requests : Names(q, c) \/ Registers(q, c)
    /\ c \notin hurt /\ fcards[c] = "deleted" =>
          \E q \in Requests : (Names(q, c) /\ cards[q].deleted) \/ Deletes(q, c)

RegistryInv == \A c \in CardType : RegistryOf(c)

\* A request that is past the look at the row is about a card of its own user.
OwnerInv ==
    \A q \in Requests :
        cpc[q] \in {"find customer", "create customer", "insert customer", "count", "delete card",
                    "create contract", "commit"} /\ req[q].op # "register" =>
            cards[req[q].row].user = req[q].user

\* A user of whom fincode has ever had a card has a default one.
DefaultInv ==
    /\ \A c \in CardType : fcards[c] # "none" => fdefault[c.user] # None
    /\ \A q \in Requests : cpc[q] = "create card" /\ ~defaultFlag[q] =>
          \E c \in CardType : c.user = UserOf(q) /\ fcards[c] # "none"
    /\ \A u \in Users : fdefault[u] # None =>
          fcards[[user |-> u, token |-> fdefault[u]]] # "none"

\* Requests of one user that overlap are both written down in met.
OverlapInv ==
    \A p, q \in Requests : p # q /\ Active(p) /\ Active(q) /\ UserOf(p) = UserOf(q) => p \in met

\* Who deletes a card has seen it free, and who pays with one has seen it standing.
ClearInv ==
    /\ \A q \in Requests : cpc[q] \in {"delete card", "commit"} /\ req[q].op = "delete" =>
          \A p \in Requests : payingWith[p] = req[q].row => p \in met
    /\ \A q \in Requests : cpc[q] # "find card" /\ Active(q) /\ req[q].op = "pay" =>
          (cards[req[q].row].deleted => q \in met)

PaymentInv == OverlapInv /\ ClearInv /\ DeletedNotPaying

CardInv == PeopleInv /\ OwnerInv /\ RegistryInv /\ DefaultInv /\ PaymentInv

-----------------------------------------------------------------------------
(* What requests are about.                                                *)

LEMMA NoneIsNoRequest ==
    /\ \A x \in Requests : x # None
    /\ \A x \in Tokens : x # None
    /\ \A x \in Users : x # None
    /\ \A x \in RowType : x # None
    /\ \A x \in ReqType : x # None
  BY CardAssumption, AuthAssumption DEF Users

LEMMA RequestFacts ==
    ASSUME CardTypeOK, ControlInv, NEW q \in Requests, req[q] # None
    PROVE  /\ req[q] \in ReqType
           /\ req[q].op \in {"register", "delete", "pay"} /\ UserOf(q) \in Users
           /\ req[q].op = "register" => req[q].token \in Tokens
           /\ req[q].op # "register" =>
                 /\ req[q].row \in Requests /\ cards[req[q].row] \in RowType
                 /\ cards[req[q].row] # None
           /\ CardOf(q) \in CardType /\ CardOf(q).user = UserOf(q)
           /\ CardOf(q).token = IF req[q].op = "register" THEN req[q].token
                                                          ELSE cards[req[q].row].token
<1>1. req[q] \in ReqType
  BY DEF CardTypeOK
<1>2. /\ req[q].op \in {"register", "delete", "pay"} /\ UserOf(q) \in Users
      /\ req[q].op = "register" => req[q].token \in Tokens
      /\ req[q].op # "register" => req[q].row \in Requests
  BY <1>1 DEF ReqType, UserOf
<1>3. req[q].op # "register" =>
        cards[req[q].row] \in RowType /\ cards[req[q].row] # None
  BY <1>2 DEF CardTypeOK, ControlInv, Knows
<1> DEFINE token == IF req[q].op = "register" THEN req[q].token ELSE cards[req[q].row].token
<1>4. token \in Tokens
  BY <1>2, <1>3 DEF RowType
<1>5. CardOf(q) = [user |-> UserOf(q), token |-> token]
  BY DEF CardOf
<1> HIDE DEF token
<1>6. /\ CardOf(q) \in CardType /\ CardOf(q).user = UserOf(q) /\ CardOf(q).token = token
  BY <1>2, <1>4, <1>5 DEF CardType
<1> QED
  BY <1>1, <1>2, <1>3, <1>6 DEF token

\* What one step of a request leaves of the others.
OthersStay(q) ==
    \A p \in Requests \ {q} :
        /\ cpc'[p] = cpc[p] /\ req'[p] = req[p]
        /\ custRow'[p] = custRow[p] /\ defaultFlag'[p] = defaultFlag[p]

CardAct(q) == (\E r \in ReqType : Start(q, r)) \/ CardStep(q) \/ Crash(q) \/ EndContract(q)

\* The columns and the locals keep their types.
LEMMA StartKeepsTypes ==
    ASSUME CardTypeOK, ControlInv, NEW q \in Requests, NEW r \in ReqType, Start(q, r), UNCHANGED authVars
    PROVE  CardTypeOK' /\ OthersStay(q) /\ cpc'[q] \in {"find customer", "find card"} /\ req'[q] = r
  BY DEF CardTypeOK, Start, OthersStay, AuthTypeOK, authVars, Goto, CardPCs, tables, fincode, Ended

LEMMA AbortKeepsTypes ==
    ASSUME CardTypeOK, NEW q \in Requests, Abort(q), UNCHANGED authVars,
           fcustomers' \subseteq Users, fcards' \in [CardType -> {"none", "held", "deleted"}],
           fdefault' \in [Users -> Tokens \cup {None}], hurt' \subseteq CardType, UNCHANGED met
    PROVE  CardTypeOK' /\ OthersStay(q) /\ cpc'[q] = "failed"
  BY DEF CardTypeOK, Abort, OthersStay, AuthTypeOK, authVars, Goto, CardPCs, tables, locals, Ended

LEMMA CustomerStepsKeepTypes ==
    ASSUME CardTypeOK, ControlInv, NEW q \in Requests, UNCHANGED authVars,
           FindCustomer(q) \/ CustomerReplied(q) \/ CustomerFails(q) \/ InsertCustomer(q) \/ CountCards(q)
    PROVE  CardTypeOK' /\ OthersStay(q)
<1>1. cpc[q] # "unsent" /\ req[q] # None
  BY DEF ControlInv, Knows, FindCustomer, CustomerReplied, CustomerFails, InsertCustomer, CountCards
<1>2. UserOf(q) \in Users /\ AfterCustomer(q) \in CardPCs
  BY <1>1, RequestFacts DEF AfterCustomer, CardPCs
<1>3. CASE CustomerFails(q)
  BY <1>2, <1>3, AbortKeepsTypes DEF CustomerFails, CardTypeOK
<1>4. CASE FindCustomer(q) \/ InsertCustomer(q)
  <2>1. \E label \in CardPCs : Goto(q, label)
    BY <1>2, <1>4 DEF FindCustomer, InsertCustomer, CardPCs
  <2>2. UNCHANGED custRow \/ \E c \in Requests : custRow' = [custRow EXCEPT ![q] = c]
    BY <1>4 DEF FindCustomer, InsertCustomer, CustomerRows
  <2>3. UNCHANGED <<tables, req, defaultFlag, fincode, hurt, met>>
    BY <1>4 DEF FindCustomer, InsertCustomer
  <2> QED
    BY <2>1, <2>2, <2>3 DEF OthersStay, CardTypeOK, AuthTypeOK, authVars, Goto, tables, fincode
<1>5. CASE CustomerReplied(q) \/ CountCards(q)
  BY <1>2, <1>5 DEF CustomerReplied, CountCards, OthersStay, CardTypeOK, AuthTypeOK,
                    authVars, Goto, tables, fincode, locals, CardPCs
<1> QED
  BY <1>3, <1>4, <1>5

LEMMA CardStepsKeepTypes ==
    ASSUME CardTypeOK, ControlInv, NEW q \in Requests, UNCHANGED authVars,
           FindCard(q) \/ CreateCard(q) \/ InsertCard(q) \/ DeleteCard(q) \/ CreateContract(q) \/ Crash(q)
    PROVE  CardTypeOK' /\ OthersStay(q)
<1>1. cpc[q] # "unsent" /\ req[q] # None
  BY DEF ControlInv, Knows, FindCard, CreateCard, InsertCard, DeleteCard, CreateContract, Crash, Active, Ended
<1>2. /\ UserOf(q) \in Users /\ CardOf(q) \in CardType
      /\ req[q].op = "register" => req[q].token \in Tokens
      /\ cpc[q] = "create card" => req[q].op = "register"
  BY <1>1, RequestFacts DEF ControlInv, Knows
<1>3. /\ fcustomers \subseteq Users /\ fcards \in [CardType -> {"none", "held", "deleted"}]
      /\ fdefault \in [Users -> Tokens \cup {None}] /\ hurt \subseteq CardType
      /\ hurt \cup {CardOf(q)} \subseteq CardType
  BY <1>2 DEF CardTypeOK
<1>4. CardCreated(q) /\ cpc[q] = "create card" =>
        /\ fcards' \in [CardType -> {"none", "held", "deleted"}]
        /\ fdefault' \in [Users -> Tokens \cup {None}]
  BY <1>2, <1>3 DEF CardCreated
<1>5. CardDeleted(q) => fcards' \in [CardType -> {"none", "held", "deleted"}]
  BY <1>2, <1>3 DEF CardDeleted
<1>6. CASE Abort(q)
  BY <1>3, <1>4, <1>5, <1>6, AbortKeepsTypes
     DEF FindCard, CreateCard, InsertCard, DeleteCard, CreateContract, Crash, fincode
<1>7. ASSUME NEW label \in CardPCs, Goto(q, label), UNCHANGED <<tables, locals, hurt, met, fcustomers>>,
             fcards' \in [CardType -> {"none", "held", "deleted"}],
             fdefault' \in [Users -> Tokens \cup {None}]
      PROVE  CardTypeOK' /\ OthersStay(q)
  BY <1>7 DEF OthersStay, CardTypeOK, AuthTypeOK, authVars, Goto, tables, locals
<1> QED
  BY <1>3, <1>4, <1>5, <1>6, <1>7
     DEF FindCard, CreateCard, InsertCard, DeleteCard, CreateContract, Crash, fincode, CardPCs

LEMMA CommitKeepsTypes ==
    ASSUME CardTypeOK, ControlInv, NEW q \in Requests, UNCHANGED authVars, Commit(q)
    PROVE  /\ CardTypeOK' /\ OthersStay(q) /\ cpc'[q] = "done"
           /\ UNCHANGED <<locals, fincode, hurt, met>>
<1>1. cpc[q] = "commit" /\ req[q] # None /\ Goto(q, "done") /\ UNCHANGED <<locals, fincode, hurt, met>>
  BY DEF Commit, ControlInv, Knows
<1>2. customers' \in [Requests -> Users \cup {None}]
  BY <1>1, RequestFacts DEF Commit, CardTypeOK
<1>3. payingWith' \in [Requests -> Requests \cup {None}]
  BY <1>1, RequestFacts DEF Commit, CardTypeOK
<1>4. cards' \in [Requests -> RowType \cup {None}]
  <2>1. CASE req[q].op = "register"
    <3>1. [user |-> UserOf(q), token |-> req[q].token, deleted |-> FALSE] \in RowType
      BY <1>1, <2>1, RequestFacts DEF RowType
    <3> QED
      BY <2>1, <3>1 DEF Commit, CardTypeOK
  <2>2. CASE req[q].op = "delete"
    <3>1. [cards[req[q].row] EXCEPT !.deleted = TRUE] \in RowType
      BY <1>1, <2>2, RequestFacts DEF RowType
    <3>2. cards' = [cards EXCEPT ![req[q].row] = [cards[req[q].row] EXCEPT !.deleted = TRUE]]
      BY <1>1, <2>2, RequestFacts DEF Commit, CardTypeOK
    <3> QED
      BY <3>1, <3>2 DEF CardTypeOK
  <2>3. CASE req[q].op = "pay"
    BY <2>3 DEF Commit, CardTypeOK
  <2> QED
    BY <1>1, <2>1, <2>2, <2>3, RequestFacts
<1> QED
  BY <1>1, <1>2, <1>3, <1>4 DEF OthersStay, CardTypeOK, AuthTypeOK, authVars, Goto, locals, fincode,
                                CardPCs, Ended

\* The rows a commit adds are the request's own, and no row is taken away.
LEMMA CommitFacts ==
    ASSUME CardTypeOK, ControlInv, NEW q \in Requests, Commit(q)
    PROVE  /\ cpc[q] = "commit" /\ req[q] # None /\ cards[q] = None /\ customers[q] = None
           /\ cpc' = [cpc EXCEPT ![q] = "done"] /\ UNCHANGED <<locals, fincode, hurt, met>>
           /\ \A p \in Requests \ {q} : customers'[p] = customers[p]
           /\ customers'[q] = IF custRow[q] = q THEN UserOf(q) ELSE None
           /\ \A p \in Requests \ {q} : payingWith'[p] = payingWith[p]
           /\ payingWith'[q] = IF req[q].op = "pay" THEN req[q].row ELSE payingWith[q]
           /\ req[q].op = "register" =>
                 /\ cards'[q] = [user |-> UserOf(q), token |-> req[q].token, deleted |-> FALSE]
                 /\ \A p \in Requests \ {q} : cards'[p] = cards[p]
           /\ req[q].op = "delete" =>
                 /\ cards'[req[q].row] = [cards[req[q].row] EXCEPT !.deleted = TRUE]
                 /\ \A p \in Requests \ {req[q].row} : cards'[p] = cards[p]
           /\ req[q].op = "pay" => cards' = cards
<1>1. cpc[q] = "commit" /\ req[q] # None /\ cards[q] = None /\ customers[q] = None
  BY DEF Commit, ControlInv, Knows
<1>2. /\ customers' = IF custRow[q] = q THEN [customers EXCEPT ![q] = UserOf(q)] ELSE customers
      /\ payingWith' = IF req[q].op = "pay" THEN [payingWith EXCEPT ![q] = req[q].row] ELSE payingWith
      /\ cpc' = [cpc EXCEPT ![q] = "done"] /\ UNCHANGED <<locals, fincode, hurt, met>>
  BY DEF Commit, Goto
<1>3. req[q].op = "register" =>
        cards' = [cards EXCEPT ![q] = [user |-> UserOf(q), token |-> req[q].token, deleted |-> FALSE]]
  BY DEF Commit
<1>4. req[q].op = "delete" => cards' = [cards EXCEPT ![req[q].row].deleted = TRUE]
  BY DEF Commit
<1>5. req[q].op = "pay" => cards' = cards
  BY DEF Commit
<1>6. req[q].op # "register" => req[q].row \in Requests
  BY <1>1, RequestFacts
<1> QED
  BY <1>1, <1>2, <1>3, <1>4, <1>5, <1>6 DEF CardTypeOK

LEMMA CommitKeepsRows ==
    ASSUME CardTypeOK, ControlInv, NEW q \in Requests, Commit(q), NEW p \in Requests
    PROVE  /\ p # q /\ cards[p] = None => cards'[p] = None
           /\ cards[p] # None =>
                 /\ cards'[p] # None
                 /\ cards'[p].user = cards[p].user /\ cards'[p].token = cards[p].token
                 /\ cards'[p].deleted <=> cards[p].deleted \/ (req[q].op = "delete" /\ req[q].row = p)
<1>1. req[q] # None
  BY CommitFacts
<1>2. CASE req[q].op = "register" \/ req[q].op = "pay"
  BY <1>1, <1>2, CommitFacts
<1>3. CASE req[q].op = "delete"
  <2>1. req[q].row \in Requests /\ cards[req[q].row] \in RowType /\ cards[req[q].row] # None
    BY <1>1, <1>3, RequestFacts
  <2> DEFINE row == [cards[req[q].row] EXCEPT !.deleted = TRUE]
  <2>2. /\ row \in RowType /\ row.deleted
        /\ row.user = cards[req[q].row].user /\ row.token = cards[req[q].row].token
    BY <2>1 DEF RowType
  <2>3. row # None
    BY <2>2, NoneIsNoRequest
  <2>4. cards'[req[q].row] = row /\ \A i \in Requests \ {req[q].row} : cards'[i] = cards[i]
    BY <1>3, CommitFacts
  <2> HIDE DEF row
  <2> QED
    BY <1>3, <2>1, <2>2, <2>3, <2>4
<1> QED
  BY <1>1, <1>2, <1>3, RequestFacts

LEMMA OnlyCommitWrites ==
    ASSUME NEW q \in Requests, CardAct(q)
    PROVE  Commit(q) \/ UNCHANGED <<customers, cards>>
  BY DEF CardAct, CardStep, Start, FindCustomer, CustomerReplied, CustomerFails, InsertCustomer,
         CountCards, FindCard, CreateCard, InsertCard, DeleteCard, CreateContract, Crash,
         EndContract, Abort, tables

\* Every step of a request keeps what is known.
LEMMA ActKeepsControl ==
    ASSUME CardTypeOK, ControlInv, NEW q \in Requests, CardAct(q), UNCHANGED authVars
    PROVE  CardTypeOK' /\ OthersStay(q) /\ ControlInv'
<1>1. ASSUME NEW r \in ReqType, Start(q, r) PROVE CardTypeOK' /\ OthersStay(q) /\ Knows(q)'
  <2>1. r # None /\ r.op \in {"register", "delete", "pay"}
    BY NoneIsNoRequest DEF ReqType
  <2>2. CardTypeOK' /\ OthersStay(q) /\ req'[q] = r /\ cpc[q] = "unsent" /\ UNCHANGED tables
    BY <1>1, StartKeepsTypes DEF Start
  <2>3. cpc'[q] = IF r.op = "register" THEN "find customer" ELSE "find card"
    BY <1>1 DEF Start, Goto, CardTypeOK
  <2> QED
    BY <1>1, <2>1, <2>2, <2>3 DEF ControlInv, Knows, Start, tables
<1>2. ASSUME FindCustomer(q) \/ CustomerReplied(q) \/ CustomerFails(q) \/ InsertCustomer(q) \/ CountCards(q)
      PROVE  CardTypeOK' /\ OthersStay(q) /\ Knows(q)'
  <2>1. CardTypeOK' /\ OthersStay(q)
    BY <1>2, CustomerStepsKeepTypes
  <2>2. UNCHANGED <<tables, req>> /\ cpc[q] \notin {"unsent", "done"}
    BY <1>2 DEF FindCustomer, CustomerReplied, CustomerFails, InsertCustomer, CountCards, Abort, locals
  <2>3. \/ cpc[q] # "count" /\ cpc'[q] \in {AfterCustomer(q), "create customer", "insert customer"}
        \/ cpc[q] = "count" /\ cpc'[q] = "create card"
        \/ cpc'[q] = "failed"
    BY <1>2 DEF FindCustomer, CustomerReplied, CustomerFails, InsertCustomer, CountCards, Abort, Goto,
                CardTypeOK
  <2>4. cpc[q] \in {"find customer", "create customer", "insert customer", "count"}
    BY <1>2 DEF FindCustomer, CustomerReplied, CustomerFails, InsertCustomer, CountCards
  <2> QED
    BY <2>1, <2>2, <2>3, <2>4 DEF ControlInv, Knows, AfterCustomer, tables
<1>3. ASSUME FindCard(q) \/ CreateCard(q) \/ InsertCard(q) \/ DeleteCard(q) \/ CreateContract(q) \/ Crash(q)
      PROVE  CardTypeOK' /\ OthersStay(q) /\ Knows(q)'
  <2>1. CardTypeOK' /\ OthersStay(q)
    BY <1>3, CardStepsKeepTypes
  <2>2. UNCHANGED <<tables, req>> /\ cpc[q] \notin {"unsent", "done"}
    BY <1>3 DEF FindCard, CreateCard, InsertCard, DeleteCard, CreateContract, Crash, Abort, locals,
                Active, Ended
  <2>3. \/ cpc[q] = "find card" /\ req[q].op = "delete" /\ cpc'[q] = "delete card"
        \/ cpc[q] = "find card" /\ req[q].op = "pay" /\ cpc'[q] = "find customer"
        \/ cpc[q] = "create card" /\ cpc'[q] = "insert card"
        \/ cpc'[q] \in {"commit", "failed"}
    BY <1>3 DEF FindCard, CreateCard, InsertCard, DeleteCard, CreateContract, Crash, Abort, Goto,
                CardTypeOK
  <2> QED
    BY <2>1, <2>2, <2>3 DEF ControlInv, Knows, tables
<1>4. ASSUME Commit(q) PROVE CardTypeOK' /\ OthersStay(q) /\ Knows(q)'
  <2>1. CardTypeOK' /\ OthersStay(q) /\ cpc'[q] = "done" /\ UNCHANGED req
    BY <1>4, CommitKeepsTypes DEF locals
  <2>2. req[q] # None /\ (req[q].op # "register" => req[q].row \in Requests)
    BY <1>4, CommitFacts, RequestFacts
  <2> QED
    BY <1>4, <2>1, <2>2, CommitKeepsRows DEF ControlInv, Knows
<1>5. ASSUME EndContract(q) PROVE CardTypeOK' /\ OthersStay(q) /\ Knows(q)'
  <2>1. CardTypeOK' /\ OthersStay(q)
    BY <1>5 DEF CardTypeOK, EndContract, OthersStay, AuthTypeOK, authVars, locals, fincode
  <2> QED
    BY <1>5, <2>1 DEF EndContract, ControlInv, Knows, locals
<1>6. CardTypeOK' /\ OthersStay(q) /\ Knows(q)'
  BY <1>1, <1>2, <1>3, <1>4, <1>5 DEF CardAct, CardStep
<1>7. ASSUME NEW p \in Requests, p # q PROVE Knows(p)'
  <2>1. req[p] # None /\ req[p].op # "register" => req[p].row \in Requests
    BY RequestFacts
  <2>2. \A i \in Requests : cards[i] # None => cards'[i] # None
    BY OnlyCommitWrites, CommitKeepsRows
  <2>3. cards'[p] = None <=> cards[p] = None
    BY <1>7, OnlyCommitWrites, CommitKeepsRows
  <2>4. customers'[p] = customers[p]
    <3>1. Commit(q) => customers'[p] = customers[p]
      BY <1>7, CommitFacts
    <3> QED
      BY <3>1, OnlyCommitWrites
  <2> QED
    BY <1>6, <1>7, <2>1, <2>2, <2>3, <2>4 DEF ControlInv, Knows, OthersStay
<1> QED
  BY <1>6, <1>7 DEF ControlInv

-----------------------------------------------------------------------------
(* One row and one customer of fincode for a user.                         *)

\* A step that flushes no row of fincode_customers and commits none.
LEMMA QuietStepKeepsCustomers ==
    ASSUME CustomerInv, NEW q \in Requests, OthersStay(q), UNCHANGED customers,
           fcustomers \subseteq fcustomers',
           custRow'[q] # None =>
              /\ cpc'[q] \notin {"unsent", "find card", "find customer", "create customer",
                                 "insert customer"}
              /\ req'[q].op # "delete",
           cpc'[q] = "insert card" \/ (cpc'[q] = "commit" /\ req'[q].op # "delete") =>
              req'[q].user \in fcustomers',
           Inserts(q)' => Inserts(q) /\ req'[q] = req[q]
    PROVE  CustomerInv'
<1>1. \A p \in Requests \ {q} : /\ cpc'[p] = cpc[p] /\ custRow'[p] = custRow[p] /\ req'[p] = req[p]
                                /\ Inserts(p)' <=> Inserts(p)
  BY DEF OthersStay, Inserts, Active
<1>2. \A p \in Requests : Inserts(p)' => Inserts(p) /\ req'[p] = req[p]
  BY <1>1
<1>3. \A p \in Requests : Inserts(p)' =>
          /\ \A c \in Requests : customers'[c] # req'[p].user
          /\ \A r \in Requests : Inserts(r)' /\ req'[r].user = req'[p].user => p = r
  BY <1>2 DEF CustomerInv
<1>4. NoPoison'
  BY DEF CustomerInv, NoPoison
<1> QED
  BY <1>1, <1>3, <1>4 DEF CustomerInv

LEMMA CustomerStepsKeepCustomers ==
    ASSUME CardTypeOK, ControlInv, CustomerInv, NEW q \in Requests, OthersStay(q),
           FindCustomer(q) \/ CustomerReplied(q) \/ CustomerFails(q) \/ InsertCustomer(q) \/ CountCards(q)
    PROVE  CustomerInv'
<1>1. /\ UNCHANGED <<customers, req>> /\ fcustomers \subseteq fcustomers'
      /\ Active(q) /\ q # None
      /\ customers[q] = None
  BY NoneIsNoRequest
     DEF FindCustomer, CustomerReplied, CustomerFails, InsertCustomer, CountCards, Abort, locals,
         tables, fincode, Active, Ended, ControlInv, Knows
<1>2. AfterCustomer(q) \in {"count", "create contract"}
  BY DEF AfterCustomer
<1>3. CASE CustomerReplied(q) \/ CustomerFails(q) \/ CountCards(q)
  <2>1. UNCHANGED custRow
    BY <1>3 DEF CustomerReplied, CustomerFails, CountCards, Abort, locals
  <2>2. \/ cpc[q] = "create customer" /\ cpc'[q] \in {"insert customer", "failed"}
        \/ cpc[q] = "count" /\ cpc'[q] = "create card"
    BY <1>3 DEF CustomerReplied, CustomerFails, CountCards, Abort, Goto, CardTypeOK
  <2>3. custRow'[q] # None =>
              /\ cpc'[q] \notin {"unsent", "find card", "find customer", "create customer",
                                 "insert customer"}
              /\ req'[q].op # "delete"
    BY <1>1, <2>1, <2>2 DEF CustomerInv
  <2> QED
    BY <1>1, <2>1, <2>2, <2>3, QuietStepKeepsCustomers DEF Inserts
<1>4. CASE FindCustomer(q) \/ InsertCustomer(q)
  <2>1. req[q].op # "delete" /\ cpc[q] \in {"find customer", "insert customer"} /\ custRow[q] = None
    BY <1>4 DEF FindCustomer, InsertCustomer, ControlInv, Knows, CustomerInv
  <2>2. CASE cpc'[q] = "create customer" /\ UNCHANGED custRow
    BY <1>1, <2>1, <2>2, QuietStepKeepsCustomers DEF Inserts
  <2>3. ASSUME NEW c \in Requests, c # q, custRow'[q] = c, cpc'[q] = AfterCustomer(q)
        PROVE  CustomerInv'
    BY <1>1, <1>2, <2>1, <2>3, QuietStepKeepsCustomers DEF Inserts
  <2>4. ASSUME InsertCustomer(q), CustomerRows(UserOf(q)) = {}, custRow'[q] = q,
               cpc'[q] = AfterCustomer(q)
        PROVE  CustomerInv'
    <3>1. \A p \in Requests \ {q} : /\ cpc'[p] = cpc[p] /\ custRow'[p] = custRow[p]
                                    /\ req'[p] = req[p]
                                    /\ Inserts(p)' <=> Inserts(p)
      BY DEF OthersStay, Inserts, Active
    <3>2. \A p \in Requests \ {q} : Inserts(p) => req[p].user # req[q].user
      BY <2>4 DEF InsertCustomer, PendingCustomer, Inserts, UserOf
    <3>3. \A c \in Requests : customers[c] # req[q].user
      BY <2>4 DEF CustomerRows, UserOf
    <3>4. \A p \in Requests : Inserts(p)' =>
              /\ \A c \in Requests : customers'[c] # req'[p].user
              /\ \A r \in Requests : Inserts(r)' /\ req'[r].user = req'[p].user => p = r
      BY <1>1, <3>1, <3>2, <3>3 DEF CustomerInv
    <3>5. NoPoison' /\ UNCHANGED fcustomers
      BY <1>1, <2>4 DEF InsertCustomer, fincode, CustomerInv, NoPoison
    <3> QED
      BY <1>1, <1>2, <2>1, <2>4, <3>1, <3>4, <3>5 DEF CustomerInv
  <2>5. \/ cpc'[q] = "create customer" /\ UNCHANGED custRow
        \/ cpc'[q] = AfterCustomer(q) /\ \E c \in CustomerRows(UserOf(q)) : custRow'[q] = c
        \/ /\ InsertCustomer(q) /\ CustomerRows(UserOf(q)) = {}
           /\ cpc'[q] = AfterCustomer(q) /\ custRow'[q] = q
    BY <1>4 DEF FindCustomer, InsertCustomer, Goto, CardTypeOK
  <2>6. \A c \in CustomerRows(UserOf(q)) : c \in Requests /\ c # q
    <3>1. UserOf(q) # None
      BY <1>1, <2>1, RequestFacts, NoneIsNoRequest DEF ControlInv, Knows
    <3> QED
      BY <1>1, <3>1 DEF CustomerRows
  <2> QED
    BY <2>2, <2>3, <2>4, <2>5, <2>6
<1> QED
  BY <1>3, <1>4

\* The steps about cards: fincode creates and charges none without the customer.
LEMMA CardStepsKeepCustomers ==
    ASSUME CardTypeOK, ControlInv, CustomerInv, NEW q \in Requests, OthersStay(q),
           FindCard(q) \/ CreateCard(q) \/ InsertCard(q) \/ DeleteCard(q) \/ CreateContract(q) \/ Crash(q)
    PROVE  CustomerInv'
<1>1. UNCHANGED <<customers, req, custRow, fcustomers>> /\ Active(q)
  BY DEF FindCard, CreateCard, InsertCard, DeleteCard, CreateContract, Crash, Abort, locals, tables,
         fincode, Active, Ended
<1>2. \/ cpc[q] = "find card" /\ cpc'[q] \in {"delete card", "find customer"}
      \/ cpc[q] = "create card" /\ cpc'[q] = "insert card" /\ UserOf(q) \in fcustomers
      \/ cpc[q] = "insert card" /\ cpc'[q] = "commit"
      \/ cpc[q] = "delete card" /\ cpc'[q] = "commit"
      \/ cpc[q] = "create contract" /\ cpc'[q] = "commit" /\ UserOf(q) \in fcustomers
      \/ cpc'[q] = "failed"
  BY DEF FindCard, CreateCard, InsertCard, DeleteCard, CreateContract, Crash, Abort, Goto,
         CardTypeOK, CardCreated
<1>3. custRow'[q] # None =>
              /\ cpc'[q] \notin {"unsent", "find card", "find customer", "create customer",
                                 "insert customer"}
              /\ req'[q].op # "delete"
  BY <1>1, <1>2 DEF CustomerInv
<1>4. cpc'[q] = "insert card" \/ (cpc'[q] = "commit" /\ req'[q].op # "delete") =>
          req'[q].user \in fcustomers'
  BY <1>1, <1>2 DEF CustomerInv, UserOf, ControlInv, Knows
<1> QED
  BY <1>1, <1>3, <1>4, QuietStepKeepsCustomers DEF Inserts

LEMMA StartKeepsCustomers ==
    ASSUME CardTypeOK, ControlInv, CustomerInv, NEW q \in Requests, OthersStay(q),
           NEW r \in ReqType, Start(q, r)
    PROVE  CustomerInv'
<1>1. UNCHANGED <<customers, custRow, fcustomers>> /\ custRow[q] = None /\ q # None
  BY NoneIsNoRequest DEF Start, tables, fincode, CustomerInv
<1>2. cpc'[q] \in {"find customer", "find card"}
  BY DEF Start, Goto, CardTypeOK
<1> QED
  BY <1>1, <1>2, QuietStepKeepsCustomers DEF Inserts

LEMMA CommitKeepsCustomers ==
    ASSUME CardTypeOK, ControlInv, CustomerInv, NEW q \in Requests, OthersStay(q), Commit(q)
    PROVE  CustomerInv'
<1>1. cpc[q] = "commit" /\ req[q] # None /\ customers[q] = None /\ UNCHANGED <<req, custRow, fcustomers>>
  BY CommitFacts DEF locals, fincode
<1>2. /\ \A p \in Requests \ {q} : customers'[p] = customers[p]
      /\ customers'[q] = IF custRow[q] = q THEN req[q].user ELSE None
  BY CommitFacts DEF UserOf
<1>3. cpc'[q] = "done" /\ \A p \in Requests \ {q} : cpc'[p] = cpc[p]
  BY DEF Commit, Goto, CardTypeOK
<1>4. \A p \in Requests : Inserts(p)' <=> Inserts(p) /\ p # q
  BY <1>1, <1>3 DEF Inserts, Active, Ended
<1>5. CASE custRow[q] # q
  <2>1. \A p \in Requests : customers'[p] = customers[p]
    BY <1>1, <1>2, <1>5
  <2>2. \A c, d \in Requests : customers'[c] # None /\ customers'[c] = customers'[d] => c = d
    BY <2>1 DEF CustomerInv
  <2>3. \A p \in Requests : Inserts(p)' =>
            /\ \A c \in Requests : customers'[c] # req'[p].user
            /\ \A r \in Requests : Inserts(r)' /\ req'[r].user = req'[p].user => p = r
    BY <1>1, <1>4, <2>1 DEF CustomerInv
  <2>4. NoPoison'
    BY <1>1, <2>1 DEF CustomerInv, NoPoison
  <2> QED
    BY <1>1, <1>3, <2>2, <2>3, <2>4 DEF CustomerInv
<1>6. CASE custRow[q] = q
  <2>1. req[q].user # None /\ q # None
    BY <1>1, RequestFacts, NoneIsNoRequest DEF UserOf
  <2>2. req[q].user \in fcustomers
    BY <1>1, <1>6, <2>1 DEF CustomerInv
  <2>3. /\ \A c \in Requests : customers[c] # req[q].user
        /\ \A p \in Requests : Inserts(p) /\ p # q => req[p].user # req[q].user
    <3>1. Inserts(q)
      BY <1>1, <1>6 DEF Inserts, Active, Ended
    <3> QED
      BY <3>1 DEF CustomerInv
  <2>4. \A c, d \in Requests : customers'[c] # None /\ customers'[c] = customers'[d] => c = d
    <3>1. customers'[q] = req[q].user
      BY <1>2, <1>6
    <3>2. \A c, d \in Requests : customers[c] # None /\ customers[c] = customers[d] => c = d
      BY DEF CustomerInv
    <3> QED
      BY <1>2, <2>3, <3>1, <3>2
  <2>5. \A p \in Requests : Inserts(p)' =>
            /\ \A c \in Requests : customers'[c] # req'[p].user
            /\ \A r \in Requests : Inserts(r)' /\ req'[r].user = req'[p].user => p = r
    <3> SUFFICES ASSUME NEW p \in Requests, Inserts(p) /\ p # q
                 PROVE  /\ \A c \in Requests : customers'[c] # req[p].user
                        /\ \A r \in Requests : Inserts(r)' /\ req[r].user = req[p].user => p = r
      BY <1>1, <1>4
    <3>1. /\ \A c \in Requests : customers[c] # req[p].user
          /\ \A r \in Requests : Inserts(r) /\ req[r].user = req[p].user => p = r
      BY DEF CustomerInv
    <3> QED
      BY <1>2, <1>4, <1>6, <2>3, <3>1
  <2>6. NoPoison'
    BY <1>1, <1>2, <1>6, <2>2 DEF CustomerInv, NoPoison
  <2> QED
    BY <1>1, <1>3, <2>4, <2>5, <2>6 DEF CustomerInv
<1> QED
  BY <1>5, <1>6

LEMMA ActKeepsCustomers ==
    ASSUME CardTypeOK, ControlInv, CustomerInv, NEW q \in Requests, CardAct(q), UNCHANGED authVars
    PROVE  CustomerInv'
<1>1. OthersStay(q)
  BY ActKeepsControl
<1>2. CASE EndContract(q)
  <2>1. UNCHANGED <<customers, cpc, req, custRow, fcustomers>>
    BY <1>2 DEF EndContract, locals, fincode
  <2> QED
    BY <2>1 DEF CustomerInv, NoPoison, Inserts, Active
<1> QED
  BY <1>1, <1>2, StartKeepsCustomers, CustomerStepsKeepCustomers, CardStepsKeepCustomers,
     CommitKeepsCustomers DEF CardAct, CardStep

-----------------------------------------------------------------------------
(* The cards fincode holds and the rows that name them.                    *)

\* No step takes a row away or gives it to another user or card.
LEMMA RowsKeepCards ==
    ASSUME CardTypeOK, ControlInv, NEW q \in Requests, CardAct(q), NEW p \in Requests, cards[p] # None
    PROVE  cards'[p] # None /\ cards'[p].user = cards[p].user /\ cards'[p].token = cards[p].token
<1>1. CASE Commit(q)
  BY <1>1, CommitKeepsRows
<1> QED
  BY <1>1, OnlyCommitWrites

\* The card of a request stays the same.
LEMMA CardOfStays ==
    ASSUME CardTypeOK, ControlInv, NEW q \in Requests, CardAct(q),
           NEW p \in Requests, req[p] # None, req'[p] = req[p]
    PROVE  CardOf(p)' = CardOf(p) /\ UserOf(p)' = UserOf(p)
<1>1. req[p].op # "register" => req[p].row \in Requests /\ cards[req[p].row] # None
  BY RequestFacts
<1>2. req[p].op # "register" => cards'[req[p].row].token = cards[req[p].row].token
  BY <1>1, RowsKeepCards
<1> QED
  BY <1>2 DEF CardOf, UserOf

\* What a step of q does to card c by way of the other requests: nothing.
LEMMA OthersKeepCard ==
    ASSUME CardTypeOK, ControlInv, NEW q \in Requests, CardAct(q), UNCHANGED authVars,
           NEW p \in Requests, p # q, NEW c \in CardType
    PROVE  /\ Registers(p, c)' <=> Registers(p, c)
           /\ Deletes(p, c)' <=> Deletes(p, c)
           /\ PendingCard(p, c)' <=> PendingCard(p, c)
<1>1. cpc'[p] = cpc[p] /\ req'[p] = req[p]
  BY ActKeepsControl DEF OthersStay
<1>2. cpc[p] \in {"insert card", "commit"} => req[p] # None
  BY DEF ControlInv, Knows
<1>3. req[p] # None => CardOf(p)' = CardOf(p)
  BY <1>1, CardOfStays
<1> QED
  BY <1>1, <1>2, <1>3 DEF Registers, Deletes, PendingCard

\* A step that neither is about card c nor ends or starts being so.
LEMMA CalmForCard ==
    ASSUME CardTypeOK, ControlInv, NEW q \in Requests, CardAct(q), UNCHANGED authVars,
           NEW c \in CardType, RegistryOf(c), fcards'[c] = fcards[c], hurt \subseteq hurt',
           \A p \in Requests : Names(p, c)' <=> Names(p, c),
           \A p \in Requests : Names(p, c) => cards'[p].deleted = cards[p].deleted,
           ~Registers(q, c), ~Registers(q, c)', ~Deletes(q, c), ~Deletes(q, c)'
    PROVE  RegistryOf(c)'
<1>1. \A p \in Requests : /\ Registers(p, c)' <=> Registers(p, c)
                          /\ Deletes(p, c)' <=> Deletes(p, c)
                          /\ PendingCard(p, c)' <=> PendingCard(p, c)
  <2>1. ~PendingCard(q, c) /\ ~PendingCard(q, c)'
    BY DEF PendingCard, Registers
  <2> QED
    BY <2>1, OthersKeepCard
<1> QED
  BY <1>1 DEF RegistryOf

\* A step outside the calls and writes that are about a card.
LEMMA CalmStepKeepsRegistry ==
    ASSUME CardTypeOK, ControlInv, RegistryInv, NEW q \in Requests, CardAct(q), UNCHANGED authVars,
           UNCHANGED <<cards, fcards>>, hurt \subseteq hurt',
           cpc[q] \notin {"insert card", "commit"} \/ req[q].op = "pay",
           cpc'[q] \notin {"insert card", "commit"} \/ req'[q].op = "pay"
    PROVE  RegistryInv'
<1> SUFFICES ASSUME NEW c \in CardType PROVE RegistryOf(c)'
  BY DEF RegistryInv
<1>1. ~Registers(q, c) /\ ~Registers(q, c)' /\ ~Deletes(q, c) /\ ~Deletes(q, c)'
  BY DEF Registers, Deletes
<1> QED
  BY <1>1, CalmForCard DEF RegistryInv, Names

\* The same for the cards a step is not about.
LEMMA OtherCardsKeepRegistry ==
    ASSUME CardTypeOK, ControlInv, RegistryInv, NEW q \in Requests, CardAct(q), UNCHANGED authVars,
           req[q] # None, req'[q] = req[q], hurt \subseteq hurt',
           NEW c \in CardType, c # CardOf(q), fcards'[c] = fcards[c],
           UNCHANGED cards \/ (OwnerInv /\ Commit(q))
    PROVE  RegistryOf(c)'
<1>1. CardOf(q)' = CardOf(q)
  BY CardOfStays
<1>2. ~Registers(q, c) /\ ~Registers(q, c)' /\ ~Deletes(q, c) /\ ~Deletes(q, c)'
  BY <1>1 DEF Registers, Deletes
<1>3. CASE UNCHANGED cards
  BY <1>2, <1>3, CalmForCard DEF RegistryInv, Names
<1>4. CASE OwnerInv /\ Commit(q)
  <2>1. /\ cpc[q] = "commit" /\ cards[q] = None
        /\ req[q].op = "register" =>
              /\ cards'[q] = [user |-> UserOf(q), token |-> req[q].token, deleted |-> FALSE]
              /\ \A p \in Requests \ {q} : cards'[p] = cards[p]
        /\ req[q].op = "delete" => \A p \in Requests \ {req[q].row} : cards'[p] = cards[p]
        /\ req[q].op = "pay" => cards' = cards
    BY <1>4, CommitFacts
  <2>2. /\ req[q].op \in {"register", "delete", "pay"} /\ CardOf(q) \in CardType
        /\ CardOf(q).user = UserOf(q)
        /\ CardOf(q).token = IF req[q].op = "register" THEN req[q].token
                                                       ELSE cards[req[q].row].token
    BY RequestFacts
  <2>3. c.user # CardOf(q).user \/ c.token # CardOf(q).token
    BY <2>2 DEF CardType
  <2>4. CASE req[q].op = "register"
    <3>1. ~Names(q, c) /\ ~Names(q, c)'
      BY <2>1, <2>2, <2>3, <2>4 DEF Names
    <3> QED
      BY <1>2, <2>1, <2>4, <3>1, CalmForCard DEF RegistryInv, Names
  <2>5. CASE req[q].op = "delete"
    <3>1. cards[req[q].row].user = UserOf(q) /\ req[q].row \in Requests /\ cards[req[q].row] # None
      BY <1>4, <2>1, <2>5, RequestFacts DEF OwnerInv, UserOf
    <3>2. ~Names(req[q].row, c) /\ ~Names(req[q].row, c)'
      BY <2>2, <2>3, <2>5, <3>1, RowsKeepCards DEF Names
    <3> QED
      BY <1>2, <2>1, <2>5, <3>2, CalmForCard DEF RegistryInv, Names
  <2>6. CASE req[q].op = "pay"
    BY <1>2, <2>1, <2>6, CalmForCard DEF RegistryInv, Names
  <2> QED
    BY <2>2, <2>4, <2>5, <2>6
<1> QED
  BY <1>3, <1>4

\* fincode creates the card, or has it already; its reply arrives or is lost.
LEMMA CreateCardKeepsRegistry ==
    ASSUME CardTypeOK, ControlInv, RegistryInv, NEW q \in Requests, CreateCard(q), UNCHANGED authVars,
           NEW c \in CardType, c = CardOf(q)
    PROVE  RegistryInv'
<1>1. /\ CardAct(q) /\ cpc[q] = "create card" /\ UNCHANGED <<cards, req>> /\ hurt \subseteq hurt'
      /\ req[q] # None /\ req[q].op = "register" /\ c \in CardType
      /\ cpc'[q] \in {"insert card", "failed"}
  <2>1. /\ cpc[q] = "create card" /\ UNCHANGED <<cards, req>> /\ hurt \subseteq hurt'
        /\ cpc'[q] \in {"insert card", "failed"}
    BY DEF CreateCard, Abort, Goto, tables, locals, CardTypeOK
  <2>2. req[q] # None /\ req[q].op = "register"
    BY <2>1 DEF ControlInv, Knows
  <2> QED
    BY <2>1, <2>2, RequestFacts DEF CardAct, CardStep
<1>2. CASE UNCHANGED fcards /\ cpc'[q] = "failed"
  BY <1>1, <1>2, CalmStepKeepsRegistry
<1>3. CASE CardCreated(q) /\ (cpc'[q] = "insert card" \/ hurt' = hurt \cup {c})
  <2>1. /\ fcards[c] # "none" => fcards' = fcards
        /\ fcards[c] = "none" => fcards'[c] = "held"
        /\ \A d \in CardType \ {c} : fcards'[d] = fcards[d]
    BY <1>1, <1>3 DEF CardCreated, CardTypeOK
  <2>2. CardOf(q)' = c
    BY <1>1, CardOfStays
  <2>3. /\ cpc'[q] = "insert card" => Registers(q, c)'
        /\ ~Registers(q, c) /\ ~Deletes(q, c) /\ ~Deletes(q, c)'
        /\ ~PendingCard(q, c) /\ ~PendingCard(q, c)'
    BY <1>1, <2>2 DEF Registers, Deletes, PendingCard
  <2>4. \A p \in Requests \ {q} : /\ Registers(p, c)' <=> Registers(p, c)
                                  /\ Deletes(p, c)' <=> Deletes(p, c)
                                  /\ PendingCard(p, c)' <=> PendingCard(p, c)
    BY <1>1, OthersKeepCard
  <2>5. \A p \in Requests : Names(p, c)' <=> Names(p, c)
    BY <1>1 DEF Names
  <2>6. RegistryOf(c)
    BY <1>1 DEF RegistryInv
  <2>7. c \in hurt' \/ Registers(q, c)'
    BY <1>3, <2>3
  <2>8. RegistryOf(c)'
    BY <1>1, <2>1, <2>3, <2>4, <2>5, <2>6, <2>7 DEF RegistryOf
  <2>9. \A d \in CardType \ {c} : RegistryOf(d)'
    BY <1>1, <2>1, OtherCardsKeepRegistry
  <2> QED
    BY <2>8, <2>9 DEF RegistryInv
<1> QED
  BY <1>1, <1>2, <1>3 DEF CreateCard, Goto, Abort, CardTypeOK

\* The INSERT waits for one of the same card, and finds it.
LEMMA InsertCardKeepsRegistry ==
    ASSUME CardTypeOK, ControlInv, RegistryInv, NEW q \in Requests, InsertCard(q), UNCHANGED authVars,
           NEW c \in CardType, c = CardOf(q)
    PROVE  RegistryInv'
<1>1. /\ CardAct(q) /\ cpc[q] = "insert card" /\ UNCHANGED <<cards, req, fcards, hurt>>
      /\ req[q] # None /\ req[q].op = "register" /\ c \in CardType
  <2>1. cpc[q] = "insert card" /\ UNCHANGED <<cards, req, fcards, hurt>>
    BY DEF InsertCard, Abort, tables, locals, fincode
  <2>2. req[q] # None /\ req[q].op = "register"
    BY <2>1 DEF ControlInv, Knows
  <2> QED
    BY <2>1, <2>2, RequestFacts DEF CardAct, CardStep
<1>2. \A p \in Requests \ {q} : ~PendingCard(p, c)
  BY DEF InsertCard
<1>3. CardOf(q)' = c
  BY <1>1, CardOfStays
<1>4. \A d \in CardType \ {c} : RegistryOf(d)'
  BY <1>1, OtherCardsKeepRegistry
<1>5. \A p \in Requests : Names(p, c) <=>
          cards[p] # None /\ [user |-> cards[p].user, token |-> cards[p].token] = c
  <2>1. c = [user |-> c.user, token |-> c.token]
    BY DEF CardType
  <2> QED
    BY <2>1 DEF Names
<1>6. \/ cpc'[q] = "failed" /\ \E p \in Requests : Names(p, c)
      \/ cpc'[q] = "commit" /\ \A p \in Requests : ~Names(p, c)
  BY <1>1, <1>5 DEF InsertCard, Abort, Goto, CardTypeOK
<1>7. \A p \in Requests \ {q} : /\ Registers(p, c)' <=> Registers(p, c)
                                /\ Deletes(p, c)' <=> Deletes(p, c)
                                /\ PendingCard(p, c)' <=> PendingCard(p, c)
  BY <1>1, OthersKeepCard
<1>8. \A p \in Requests : Names(p, c)' <=> Names(p, c)
  BY <1>1 DEF Names
<1>9. /\ Registers(q, c) /\ ~Deletes(q, c) /\ ~Deletes(q, c)'
      /\ cpc'[q] = "commit" => Registers(q, c)' /\ PendingCard(q, c)'
      /\ cpc'[q] = "failed" => ~Registers(q, c)' /\ ~PendingCard(q, c)'
  BY <1>1, <1>3 DEF Registers, Deletes, PendingCard
<1>10. RegistryOf(c)
  BY <1>1 DEF RegistryInv
<1>11. RegistryOf(c)'
  <2>1. CASE cpc'[q] = "failed" /\ \E p \in Requests : Names(p, c)
    BY <1>1, <1>7, <1>8, <1>9, <1>10, <2>1 DEF RegistryOf
  <2>2. CASE cpc'[q] = "commit" /\ \A p \in Requests : ~Names(p, c)
    BY <1>1, <1>2, <1>7, <1>8, <1>9, <1>10, <2>2 DEF RegistryOf
  <2> QED
    BY <1>6, <2>1, <2>2
<1> QED
  BY <1>4, <1>11 DEF RegistryInv

\* fincode deletes the card of a row; its reply arrives or is lost.
LEMMA DeleteCardKeepsRegistry ==
    ASSUME CardTypeOK, ControlInv, OwnerInv, RegistryInv, NEW q \in Requests, DeleteCard(q),
           UNCHANGED authVars, NEW c \in CardType, c = CardOf(q)
    PROVE  RegistryInv'
<1>1. /\ CardAct(q) /\ cpc[q] = "delete card" /\ UNCHANGED <<cards, req>> /\ hurt \subseteq hurt'
      /\ req[q] # None /\ req[q].op = "delete" /\ c \in CardType
      /\ req[q].row \in Requests /\ Names(req[q].row, c)
      /\ cpc'[q] \in {"commit", "failed"}
  <2>1. /\ cpc[q] = "delete card" /\ UNCHANGED <<cards, req>> /\ hurt \subseteq hurt'
        /\ cpc'[q] \in {"commit", "failed"}
    BY DEF DeleteCard, Abort, Goto, tables, locals, CardTypeOK
  <2>2. req[q] # None /\ req[q].op = "delete"
    BY <2>1 DEF ControlInv, Knows
  <2>3. cards[req[q].row].user = UserOf(q)
    BY <2>1, <2>2 DEF OwnerInv, UserOf
  <2> QED
    BY <2>1, <2>2, <2>3, RequestFacts DEF CardAct, CardStep, Names
<1>2. CASE UNCHANGED fcards /\ cpc'[q] = "failed"
  BY <1>1, <1>2, CalmStepKeepsRegistry
<1>3. CASE CardDeleted(q) /\ (cpc'[q] = "commit" \/ hurt' = hurt \cup {c})
  <2>1. /\ fcards[c] = "held" => fcards'[c] = "deleted"
        /\ fcards[c] # "held" => fcards'[c] = fcards[c]
        /\ \A d \in CardType \ {c} : fcards'[d] = fcards[d]
        /\ fcards[c] \in {"none", "held", "deleted"}
    BY <1>1, <1>3 DEF CardDeleted, CardTypeOK
  <2>2. CardOf(q)' = c
    BY <1>1, CardOfStays
  <2>3. /\ cpc'[q] = "commit" => Deletes(q, c)'
        /\ ~Registers(q, c) /\ ~Registers(q, c)' /\ ~Deletes(q, c)
        /\ ~PendingCard(q, c) /\ ~PendingCard(q, c)'
    BY <1>1, <2>2 DEF Registers, Deletes, PendingCard
  <2>4. \A p \in Requests \ {q} : /\ Registers(p, c)' <=> Registers(p, c)
                                  /\ Deletes(p, c)' <=> Deletes(p, c)
                                  /\ PendingCard(p, c)' <=> PendingCard(p, c)
    BY <1>1, OthersKeepCard
  <2>5. \A p \in Requests : Names(p, c)' <=> Names(p, c)
    BY <1>1 DEF Names
  <2>6. RegistryOf(c)
    BY <1>1 DEF RegistryInv
  <2>7. c \in hurt' \/ Deletes(q, c)'
    BY <1>3, <2>3
  <2>8. fcards'[c] = "deleted"
    BY <1>1, <2>1, <2>6 DEF RegistryOf
  <2>9. RegistryOf(c)'
    BY <1>1, <2>1, <2>3, <2>4, <2>5, <2>6, <2>7, <2>8 DEF RegistryOf
  <2>10. \A d \in CardType \ {c} : RegistryOf(d)'
    BY <1>1, <2>1, OtherCardsKeepRegistry
  <2> QED
    BY <2>9, <2>10 DEF RegistryInv
<1> QED
  BY <1>1, <1>2, <1>3 DEF DeleteCard, Goto, Abort, CardTypeOK

\* The row of a new card appears, or that of a deleted one is marked.
LEMMA CommitKeepsRegistry ==
    ASSUME CardTypeOK, ControlInv, OwnerInv, RegistryInv, NEW q \in Requests, Commit(q),
           UNCHANGED authVars, NEW c \in CardType, c = CardOf(q)
    PROVE  RegistryInv'
<1>1. /\ CardAct(q) /\ cpc[q] = "commit" /\ cpc'[q] = "done" /\ UNCHANGED <<req, fcards, hurt>>
      /\ req[q] # None /\ req[q].op \in {"register", "delete", "pay"}
  <2>1. cpc[q] = "commit" /\ req[q] # None /\ UNCHANGED <<locals, fincode, hurt>>
    BY CommitFacts
  <2>2. cpc'[q] = "done"
    BY CommitKeepsTypes
  <2> QED
    BY <2>1, <2>2, RequestFacts DEF CardAct, CardStep, locals, fincode
<1>2. CASE req[q].op = "pay"
  BY <1>1, <1>2, CommitFacts, CalmStepKeepsRegistry
<1>3. RegistryOf(c)
  BY DEF RegistryInv
<1>4. \A d \in CardType \ {c} : RegistryOf(d)'
  BY <1>1, OtherCardsKeepRegistry
<1>5. \A p \in Requests \ {q} : /\ Registers(p, c)' <=> Registers(p, c)
                                /\ Deletes(p, c)' <=> Deletes(p, c)
                                /\ PendingCard(p, c)' <=> PendingCard(p, c)
  BY <1>1, OthersKeepCard
<1>6. ~Registers(q, c)' /\ ~Deletes(q, c)' /\ ~PendingCard(q, c)'
  BY <1>1 DEF Registers, Deletes, PendingCard
<1>7. CASE req[q].op = "register"
  <2>1. Registers(q, c) /\ PendingCard(q, c) /\ ~Deletes(q, c)
    BY <1>1, <1>7 DEF Registers, PendingCard, Deletes
  <2>2. \A p \in Requests : ~Names(p, c) /\ (PendingCard(p, c) => p = q)
    BY <1>3, <2>1 DEF RegistryOf
  <2>3. cards'[q] = [user |-> UserOf(q), token |-> req[q].token, deleted |-> FALSE]
    BY <1>7, CommitFacts
  <2>4. cards'[q] # None
    <3>1. cards'[q] \in RowType
      BY <1>1, <1>7, <2>3, RequestFacts DEF RowType
    <3> QED
      BY <3>1, NoneIsNoRequest
  <2>5. Names(q, c)' /\ ~cards'[q].deleted
    BY <1>1, <1>7, <2>3, <2>4, RequestFacts DEF Names
  <2>6. \A p \in Requests \ {q} : ~Names(p, c)'
    <3>1. \A p \in Requests \ {q} : cards'[p] = cards[p]
      BY <1>7, CommitFacts
    <3> QED
      BY <2>2, <3>1 DEF Names
  <2>7. fcards[c] # "none" /\ fcards[c] # "deleted"
    BY <1>3, <2>1, <2>2 DEF RegistryOf
  <2>8. \A p \in Requests : ~PendingCard(p, c)'
    BY <1>5, <1>6, <2>2
  <2>9. \A p \in Requests : Deletes(p, c)' => fcards[c] = "deleted"
    BY <1>3, <1>5, <1>6 DEF RegistryOf
  <2>10. \A p \in Requests : Names(p, c)' <=> p = q
    BY <2>5, <2>6
  <2>11. RegistryOf(c)'
    BY <1>1, <2>5, <2>7, <2>8, <2>9, <2>10 DEF RegistryOf
  <2> QED
    BY <1>4, <2>11 DEF RegistryInv
<1>8. CASE req[q].op = "delete"
  <2>1. Deletes(q, c) /\ ~Registers(q, c) /\ ~PendingCard(q, c)
    BY <1>1, <1>8 DEF Registers, PendingCard, Deletes
  <2>2. fcards[c] = "deleted"
    BY <1>3, <2>1 DEF RegistryOf
  <2>3. req[q].row \in Requests /\ Names(req[q].row, c)
    BY <1>1, <1>8, RequestFacts DEF OwnerInv, UserOf, Names
  <2>4. \A p \in Requests : Names(p, c)' <=> Names(p, c)
    <3>1. \A p \in Requests \ {req[q].row} : cards'[p] = cards[p]
      BY <1>8, CommitFacts
    <3>2. Names(req[q].row, c)'
      BY <1>1, <2>3, CommitKeepsRows DEF Names
    <3> QED
      BY <1>1, <2>3, <3>1, <3>2 DEF Names
  <2>5. cards'[req[q].row].deleted
    BY <1>8, <2>3, CommitKeepsRows DEF Names
  <2>6. RegistryOf(c)'
    BY <1>1, <1>3, <1>5, <1>6, <2>1, <2>2, <2>3, <2>4, <2>5 DEF RegistryOf
  <2> QED
    BY <1>4, <2>6 DEF RegistryInv
<1> QED
  BY <1>1, <1>2, <1>7, <1>8

\* A crash between fincode and the row is written down in hurt.
LEMMA CrashKeepsRegistry ==
    ASSUME CardTypeOK, ControlInv, RegistryInv, NEW q \in Requests, Crash(q),
           UNCHANGED authVars, NEW c \in CardType, c = CardOf(q)
    PROVE  RegistryInv'
<1>1. /\ CardAct(q) /\ cpc'[q] = "failed" /\ UNCHANGED <<req, cards, fcards>> /\ req[q] # None
      /\ hurt' = IF cpc[q] \in {"insert card", "commit"} /\ req[q].op # "pay"
                 THEN hurt \cup {c} ELSE hurt
  BY DEF Crash, CardAct, Abort, Goto, tables, locals, fincode, CardTypeOK, ControlInv, Knows, Active, Ended
<1>2. CASE cpc[q] \in {"insert card", "commit"} /\ req[q].op # "pay"
  <2>1. c \in hurt' /\ hurt \subseteq hurt'
    BY <1>1, <1>2
  <2>2. RegistryOf(c)
    BY DEF RegistryInv
  <2>3. \A d \in CardType \ {c} : RegistryOf(d)'
    BY <1>1, <2>1, OtherCardsKeepRegistry
  <2>4. \A p \in Requests \ {q} : /\ Registers(p, c)' <=> Registers(p, c)
                                  /\ Deletes(p, c)' <=> Deletes(p, c)
                                  /\ PendingCard(p, c)' <=> PendingCard(p, c)
    BY <1>1, OthersKeepCard
  <2>5. ~Registers(q, c)' /\ ~Deletes(q, c)' /\ ~PendingCard(q, c)'
    BY <1>1 DEF Registers, Deletes, PendingCard
  <2>6. \A p \in Requests : Names(p, c)' <=> Names(p, c)
    BY <1>1 DEF Names
  <2>7. RegistryOf(c)'
    BY <1>1, <2>1, <2>2, <2>4, <2>5, <2>6 DEF RegistryOf
  <2> QED
    BY <2>3, <2>7 DEF RegistryInv
<1>3. CASE ~(cpc[q] \in {"insert card", "commit"} /\ req[q].op # "pay")
  BY <1>1, <1>3, CalmStepKeepsRegistry
<1> QED
  BY <1>2, <1>3

\* The steps that write no card and are about none.
LEMMA CalmStepsKeepRegistry ==
    ASSUME CardTypeOK, ControlInv, RegistryInv, NEW q \in Requests, CardAct(q), UNCHANGED authVars,
           \/ \E r \in ReqType : Start(q, r)
           \/ FindCard(q) \/ FindCustomer(q) \/ CustomerReplied(q) \/ CustomerFails(q)
           \/ InsertCustomer(q) \/ CountCards(q) \/ CreateContract(q) \/ EndContract(q)
    PROVE  RegistryInv'
<1>1. UNCHANGED <<cards, fcards, hurt>>
  BY DEF Start, FindCard, FindCustomer, CustomerReplied, CustomerFails, InsertCustomer, CountCards,
         CreateContract, EndContract, Abort, tables, fincode
<1>2. CASE EndContract(q)
  <2>1. UNCHANGED <<cpc, req>>
    BY <1>2 DEF EndContract, locals
  <2> QED
    <3> SUFFICES ASSUME NEW c \in CardType PROVE RegistryOf(c)'
      BY DEF RegistryInv
    <3>1. \A p \in Requests : /\ Registers(p, c)' <=> Registers(p, c)
                              /\ Deletes(p, c)' <=> Deletes(p, c)
                              /\ PendingCard(p, c)' <=> PendingCard(p, c)
                              /\ Names(p, c)' <=> Names(p, c)
      BY <1>1, <2>1 DEF Names, Registers, Deletes, PendingCard, CardOf, UserOf
    <3>2. RegistryOf(c)
      BY DEF RegistryInv
    <3> QED
      BY <1>1, <3>1, <3>2 DEF RegistryOf
<1>3. CASE CreateContract(q)
  <2>1. cpc[q] = "create contract" /\ UNCHANGED req /\ req[q].op = "pay"
    BY <1>3 DEF CreateContract, Abort, locals, ControlInv, Knows
  <2> QED
    BY <1>1, <2>1, CalmStepKeepsRegistry
<1>4. CASE \/ \E r \in ReqType : Start(q, r)
           \/ FindCard(q) \/ FindCustomer(q) \/ CustomerReplied(q) \/ CustomerFails(q)
           \/ InsertCustomer(q) \/ CountCards(q)
  <2>1. cpc[q] \notin {"insert card", "commit"} /\ cpc'[q] \notin {"insert card", "commit"}
    BY <1>4 DEF Start, FindCard, FindCustomer, CustomerReplied, CustomerFails, InsertCustomer,
                CountCards, Abort, Goto, CardTypeOK, AfterCustomer
  <2> QED
    BY <1>1, <2>1, CalmStepKeepsRegistry
<1> QED
  BY <1>2, <1>3, <1>4

LEMMA ActKeepsRegistry ==
    ASSUME CardTypeOK, ControlInv, OwnerInv, RegistryInv, NEW q \in Requests, CardAct(q), UNCHANGED authVars
    PROVE  RegistryInv'
<1>1. CreateCard(q) \/ InsertCard(q) \/ DeleteCard(q) \/ Commit(q) \/ Crash(q) => CardOf(q) \in CardType
  BY RequestFacts DEF ControlInv, Knows, CreateCard, InsertCard, DeleteCard, Commit, Crash, Active, Ended
<1> QED
  BY <1>1, CreateCardKeepsRegistry, InsertCardKeepsRegistry, DeleteCardKeepsRegistry,
     CommitKeepsRegistry, CrashKeepsRegistry, CalmStepsKeepRegistry DEF CardAct, CardStep

\* A deletion and a payment are about a card of their user.
LEMMA ActKeepsOwner ==
    ASSUME CardTypeOK, ControlInv, OwnerInv, NEW q \in Requests, CardAct(q), UNCHANGED authVars
    PROVE  OwnerInv'
<1> DEFINE Past == {"find customer", "create customer", "insert customer", "count", "delete card",
                    "create contract", "commit"}
<1> SUFFICES ASSUME NEW p \in Requests, cpc'[p] \in Past, req'[p].op # "register"
             PROVE  cards'[req'[p].row].user = req'[p].user
  BY DEF OwnerInv
<1>1. CASE cpc[p] \in Past /\ req'[p] = req[p]
  <2>1. req[p] # None
    BY <1>1 DEF ControlInv, Knows
  <2>2. req[p].row \in Requests /\ cards[req[p].row] # None /\ cards[req[p].row].user = req[p].user
    BY <1>1, <2>1, RequestFacts DEF OwnerInv
  <2> QED
    BY <1>1, <2>2, RowsKeepCards
<1>2. CASE p = q /\ FindCard(q)
  <2>1. Found(q) /\ UNCHANGED <<req, cards>>
    BY <1>2 DEF FindCard, Abort, Goto, CardTypeOK, locals, tables
  <2> QED
    BY <1>2, <2>1 DEF Found, VisibleRows, UserOf
<1>3. p # q => cpc[p] \in Past /\ req'[p] = req[p]
  BY ActKeepsControl DEF OthersStay
<1>4. ~(\E r \in ReqType : p = q /\ Start(q, r))
  <2>1. ASSUME NEW r \in ReqType, p = q, Start(q, r) PROVE FALSE
    <3>1. req'[q] = r /\ cpc'[q] = IF r.op = "register" THEN "find customer" ELSE "find card"
      BY <2>1 DEF Start, Goto, CardTypeOK
    <3> QED
      BY <2>1, <3>1
  <2> QED
    BY <2>1
<1>5. p = q /\ ~FindCard(q) => cpc[p] \in Past /\ req'[p] = req[p]
  <2>1. p = q /\ EndContract(q) => cpc[p] \in Past /\ req'[p] = req[p]
    BY DEF EndContract, locals
  <2>2. ASSUME p = q, FindCustomer(q) \/ CustomerReplied(q) \/ InsertCustomer(q) \/ CountCards(q)
                        \/ DeleteCard(q) \/ CreateContract(q)
        PROVE  cpc[p] \in Past /\ req'[p] = req[p]
    BY <2>2 DEF FindCustomer, CustomerReplied, InsertCustomer, CountCards, DeleteCard,
                CreateContract, Abort, locals
  <2>3. ASSUME p = q, CustomerFails(q) \/ Crash(q) \/ Commit(q) PROVE FALSE
    BY <2>3 DEF CustomerFails, Crash, Commit, Abort, Goto, CardTypeOK
  <2>4. ASSUME p = q, CreateCard(q) \/ InsertCard(q) PROVE FALSE
    BY <2>4 DEF CreateCard, InsertCard, Abort, Goto, CardTypeOK, ControlInv, Knows, locals
  <2> QED
    BY <1>4, <2>1, <2>2, <2>3, <2>4 DEF CardAct, CardStep
<1> QED
  BY <1>1, <1>2, <1>3, <1>5

-----------------------------------------------------------------------------
(* The default card.                                                       *)

LEMMA CardsStayKnown ==
    ASSUME CardTypeOK, ControlInv, NEW q \in Requests, CardAct(q), NEW c \in CardType, fcards[c] # "none"
    PROVE  fcards'[c] # "none"
<1>1. CASE CardCreated(q) \/ CardDeleted(q)
  BY <1>1 DEF CardCreated, CardDeleted, CardTypeOK
<1> QED
  BY <1>1 DEF CardAct, CardStep, Start, FindCustomer, CustomerReplied, CustomerFails, InsertCustomer,
         CountCards, FindCard, CreateCard, InsertCard, DeleteCard, CreateContract, Commit, Crash,
         EndContract, fincode

\* fincode's default card of a user is one it has had.
LEMMA CardCreatedKeepsDefault ==
    ASSUME CardTypeOK, ControlInv, DefaultInv, NEW q \in Requests, CreateCard(q), CardCreated(q)
    PROVE  /\ \A d \in CardType : fcards'[d] # "none" => fdefault'[d.user] # None
           /\ \A u \in Users : fdefault'[u] # None =>
                 fcards'[[user |-> u, token |-> fdefault'[u]]] # "none"
<1>1. CASE fcards[CardOf(q)] # "none"
  BY <1>1 DEF CardCreated, DefaultInv
<1>2. CASE fcards[CardOf(q)] = "none"
  <2>1. /\ cpc[q] = "create card" /\ req[q] # None /\ req[q].op = "register"
        /\ UserOf(q) \in Users /\ req[q].token \in Tokens /\ req[q].token # None
        /\ CardOf(q) \in CardType /\ CardOf(q).user = UserOf(q)
        /\ CardOf(q) = [user |-> UserOf(q), token |-> req[q].token]
    BY RequestFacts, NoneIsNoRequest DEF CreateCard, ControlInv, Knows, CardOf
  <2>2. /\ fcards'[CardOf(q)] = "held"
        /\ \A d \in CardType \ {CardOf(q)} : fcards'[d] = fcards[d]
        /\ \A u \in Users \ {UserOf(q)} : fdefault'[u] = fdefault[u]
        /\ fdefault'[UserOf(q)] = IF defaultFlag[q] THEN req[q].token ELSE fdefault[UserOf(q)]
    BY <1>2, <2>1 DEF CardCreated, CardTypeOK
  <2>3. fdefault'[UserOf(q)] # None
    BY <2>1, <2>2 DEF DefaultInv
  <2>4. \A d \in CardType : d.user \in Users
    BY DEF CardType
  <2>5. \A u \in Users, t \in Tokens : [user |-> u, token |-> t] \in CardType
    BY DEF CardType
  <2>6. \A u \in Users : fdefault[u] # None => fdefault[u] \in Tokens
    BY DEF CardTypeOK
  <2>7. \A d \in CardType : fcards'[d] # "none" => fdefault'[d.user] # None
    BY <2>1, <2>2, <2>3, <2>4 DEF DefaultInv
  <2>8. ASSUME NEW u \in Users, fdefault'[u] # None
        PROVE  fcards'[[user |-> u, token |-> fdefault'[u]]] # "none"
    <3>1. CASE fdefault'[u] = fdefault[u]
      <4>1. fcards[[user |-> u, token |-> fdefault[u]]] # "none"
        BY <2>8, <3>1 DEF DefaultInv
      <4>2. [user |-> u, token |-> fdefault[u]] \in CardType
        BY <2>5, <2>6, <2>8, <3>1
      <4> QED
        BY <2>2, <3>1, <4>1, <4>2
    <3>2. CASE fdefault'[u] # fdefault[u]
      BY <2>1, <2>2, <3>2
    <3> QED
      BY <3>1, <3>2
  <2> QED
    BY <2>7, <2>8
<1> QED
  BY <1>1, <1>2

LEMMA OnlyCardCreatedSetsDefault ==
    ASSUME NEW q \in Requests, CardAct(q)
    PROVE  (CreateCard(q) /\ CardCreated(q)) \/ UNCHANGED fdefault
  BY DEF CardAct, CardStep, Start, FindCustomer, CustomerReplied, CustomerFails, InsertCustomer,
         CountCards, FindCard, CreateCard, InsertCard, DeleteCard, CreateContract, Commit, Crash,
         EndContract, fincode

\* The first card of a user becomes the default one: who sees a row, and sends FALSE, knows
\* that fincode has had a card of the user already.
LEMMA ActKeepsDefault ==
    ASSUME CardTypeOK, ControlInv, RegistryInv, DefaultInv, NEW q \in Requests, CardAct(q),
           UNCHANGED authVars
    PROVE  DefaultInv'
<1>1. /\ \A d \in CardType : fcards'[d] # "none" => fdefault'[d.user] # None
      /\ \A u \in Users : fdefault'[u] # None =>
            fcards'[[user |-> u, token |-> fdefault'[u]]] # "none"
  <2>1. CASE CreateCard(q) /\ CardCreated(q)
    BY <2>1, CardCreatedKeepsDefault
  <2>2. CASE UNCHANGED fdefault /\ ~(CreateCard(q) /\ CardCreated(q))
    <3>1. \A d \in CardType : fcards'[d] # "none" => fcards[d] # "none"
      <4>1. CASE DeleteCard(q) /\ CardDeleted(q)
        BY <4>1 DEF CardDeleted, CardTypeOK
      <4>2. CASE UNCHANGED fcards
        BY <4>2
      <4> QED
        BY <2>2, <4>1, <4>2
           DEF CardAct, CardStep, Start, FindCustomer, CustomerReplied, CustomerFails, InsertCustomer,
               CountCards, FindCard, CreateCard, InsertCard, DeleteCard, CreateContract, Commit,
               Crash, EndContract, fincode
    <3>2. \A u \in Users : fdefault[u] # None => [user |-> u, token |-> fdefault[u]] \in CardType
      BY DEF CardTypeOK, CardType
    <3> QED
      BY <2>2, <3>1, <3>2, CardsStayKnown DEF DefaultInv
  <2> QED
    BY <2>1, <2>2, OnlyCardCreatedSetsDefault
<1>2. ASSUME NEW p \in Requests, cpc'[p] = "create card", ~defaultFlag'[p]
      PROVE  \E d \in CardType : d.user = UserOf(p)' /\ fcards'[d] # "none"
  <2>1. CASE cpc[p] = "create card" /\ req'[p] = req[p] /\ defaultFlag'[p] = defaultFlag[p]
    <3>1. req[p] # None
      BY <2>1 DEF ControlInv, Knows
    <3>2. PICK d \in CardType : d.user = UserOf(p) /\ fcards[d] # "none"
      BY <1>2, <2>1 DEF DefaultInv
    <3> QED
      BY <2>1, <3>1, <3>2, CardOfStays, CardsStayKnown
  <2>2. CASE p = q /\ CountCards(q)
    <3>1. VisibleRows(UserOf(q)) # {} /\ UNCHANGED <<req, fcards>>
      BY <1>2, <2>2 DEF CountCards, CardTypeOK, fincode
    <3>2. PICK row \in Requests : cards[row] # None /\ cards[row].user = UserOf(q)
      BY <3>1 DEF VisibleRows
    <3> DEFINE d == [user |-> cards[row].user, token |-> cards[row].token]
    <3>3. d \in CardType /\ Names(row, d)
      BY <3>2 DEF CardTypeOK, RowType, CardType, Names
    <3>4. fcards[d] # "none"
      BY <3>3 DEF RegistryInv, RegistryOf
    <3>5. d.user = UserOf(q) /\ UserOf(q)' = UserOf(q)
      BY <3>1, <3>2 DEF UserOf
    <3> HIDE DEF d
    <3> QED
      BY <2>2, <3>1, <3>3, <3>4, <3>5
  <2>3. p # q => cpc[p] = "create card" /\ req'[p] = req[p] /\ defaultFlag'[p] = defaultFlag[p]
    BY <1>2, ActKeepsControl DEF OthersStay
  <2>4. p = q => CountCards(q) \/ EndContract(q)
    BY <1>2 DEF CardAct, CardStep, Start, FindCustomer, CustomerReplied, CustomerFails, InsertCustomer,
         FindCard, CreateCard, InsertCard, DeleteCard, CreateContract, Commit, Crash,
         Abort, Goto, CardTypeOK, AfterCustomer
  <2>5. EndContract(q) => UNCHANGED <<cpc, req, defaultFlag>>
    BY DEF EndContract, locals
  <2> QED
    BY <1>2, <2>1, <2>2, <2>3, <2>4, <2>5
<1> QED
  BY <1>1, <1>2 DEF DefaultInv

-----------------------------------------------------------------------------
(* The cards that contracts pay with.                                      *)

LEMMA OnlyStartSends ==
    ASSUME CardTypeOK, NEW q \in Requests, CardAct(q), ~\E r \in ReqType : Start(q, r)
    PROVE  UNCHANGED <<req, met>> /\ (Active(q)' => Active(q))
<1>1. UNCHANGED <<req, met>>
  BY DEF CardAct, CardStep, FindCustomer, CustomerReplied, CustomerFails, InsertCustomer,
         CountCards, FindCard, CreateCard, InsertCard, DeleteCard, CreateContract, Commit, Crash,
         EndContract, Abort, locals
<1>2. EndContract(q) \/ cpc[q] \notin {"unsent", "done", "failed"}
  BY DEF CardAct, CardStep, FindCustomer, CustomerReplied, CustomerFails, InsertCustomer,
         CountCards, FindCard, CreateCard, InsertCard, DeleteCard, CreateContract, Commit, Crash,
         Active, Ended
<1> QED
  BY <1>1, <1>2 DEF EndContract, Active, Ended

LEMMA ActKeepsOverlap ==
    ASSUME CardTypeOK, ControlInv, OverlapInv, NEW q \in Requests, CardAct(q), UNCHANGED authVars
    PROVE  OverlapInv' /\ met \subseteq met'
<1>1. \A p \in Requests \ {q} : cpc'[p] = cpc[p] /\ req'[p] = req[p]
  BY ActKeepsControl DEF OthersStay
<1>2. \A p \in Requests \ {q} : (Active(p)' <=> Active(p)) /\ UserOf(p)' = UserOf(p)
  BY <1>1 DEF Active, UserOf
<1>3. ASSUME NEW r \in ReqType, Start(q, r) PROVE OverlapInv' /\ met \subseteq met'
  <2> DEFINE others == {p \in Requests : Active(p) /\ UserOf(p) = r.user}
  <2>1. met' = IF others = {} THEN met ELSE met \cup others \cup {q}
    BY <1>3 DEF Start
  <2>2. UserOf(q)' = r.user
    BY <1>3, StartKeepsTypes DEF UserOf
  <2>3. \A p \in Requests : p # q /\ Active(p)' /\ UserOf(p)' = UserOf(q)' => p \in met' /\ q \in met'
    BY <1>2, <2>1, <2>2
  <2>4. met \subseteq met'
    BY <2>1
  <2> QED
    BY <1>2, <2>3, <2>4 DEF OverlapInv
<1>4. CASE ~\E r \in ReqType : Start(q, r)
  <2>1. UNCHANGED <<req, met>> /\ \A p \in Requests : Active(p)' => Active(p)
    BY <1>2, <1>4, OnlyStartSends
  <2> QED
    BY <2>1 DEF OverlapInv, UserOf
<1> QED
  BY <1>3, <1>4

\* A request that deletes a card or pays with one, past the look at the row, is its owner's.
LEMMA OwnerOfCard ==
    ASSUME CardTypeOK, ControlInv, OwnerInv, NEW q \in Requests, Active(q), cpc[q] # "find card",
           req[q].op # "register"
    PROVE  req[q] # None /\ req[q].row \in Requests /\ cards[req[q].row].user = UserOf(q)
<1>1. req[q] # None /\ req[q].op \in {"delete", "pay"} /\ req[q].row \in Requests
  BY RequestFacts DEF ControlInv, Knows, Active
<1>2. cpc[q] \in {"find customer", "create customer", "insert customer", "count", "delete card",
                  "create contract", "commit"}
  BY DEF Active, Ended, CardTypeOK, CardPCs, ControlInv, Knows
<1> QED
  BY <1>1, <1>2 DEF OwnerInv, UserOf

\* The steps that write no row.
LEMMA QuietActKeepsPayments ==
    ASSUME CardTypeOK, ControlInv, PaymentInv, NEW q \in Requests, CardAct(q), UNCHANGED authVars,
           UNCHANGED <<cards, payingWith>>, met \subseteq met'
    PROVE  ClearInv' /\ DeletedNotPaying'
<1>1. DeletedNotPaying'
  BY DEF PaymentInv, DeletedNotPaying
<1>2. \A p \in Requests \ {q} : cpc'[p] = cpc[p] /\ req'[p] = req[p] /\ (Active(p)' <=> Active(p))
  BY ActKeepsControl DEF OthersStay, Active
<1>3. cpc'[q] \in {"delete card", "commit"} /\ req'[q].op = "delete" =>
          \A p \in Requests : payingWith[p] = req'[q].row => p \in met
  <2> SUFFICES ASSUME cpc'[q] \in {"delete card", "commit"}, req'[q].op = "delete"
               PROVE  \A p \in Requests : payingWith[p] = req'[q].row => p \in met
    OBVIOUS
  <2>1. CASE cpc[q] \in {"delete card", "commit"} /\ req'[q] = req[q]
    BY <2>1 DEF PaymentInv, ClearInv
  <2>2. CASE FindCard(q)
    <3>1. ~InUse(q) /\ req'[q] = req[q]
      BY <2>2 DEF FindCard, Abort, Goto, CardTypeOK, locals, ControlInv, Knows
    <3> QED
      BY <3>1 DEF InUse
  <2>3. FindCard(q) \/ (cpc[q] \in {"delete card", "commit"} /\ req'[q] = req[q])
    BY DEF CardAct, CardStep, Start, FindCustomer, CustomerReplied, CustomerFails, InsertCustomer,
           CountCards, CreateCard, InsertCard, DeleteCard, CreateContract, Commit, Crash,
           EndContract, Abort, Goto, CardTypeOK, AfterCustomer, locals, ControlInv, Knows
  <2> QED
    BY <2>1, <2>2, <2>3
<1>4. cpc'[q] # "find card" /\ Active(q)' /\ req'[q].op = "pay" =>
          (cards[req'[q].row].deleted => q \in met)
  <2> SUFFICES ASSUME cpc'[q] # "find card", Active(q)', req'[q].op = "pay"
               PROVE  cards[req'[q].row].deleted => q \in met
    OBVIOUS
  <2>1. ~\E r \in ReqType : Start(q, r)
    <3>1. ASSUME NEW r \in ReqType, Start(q, r) PROVE FALSE
      BY <3>1 DEF Start, Goto, CardTypeOK
    <3> QED
      BY <3>1
  <2>2. UNCHANGED req /\ Active(q)
    BY <2>1, OnlyStartSends
  <2>3. CASE cpc[q] # "find card"
    BY <2>2, <2>3 DEF PaymentInv, ClearInv
  <2>4. CASE FindCard(q)
    BY <2>2, <2>4 DEF FindCard, Found, VisibleRows, Abort, Goto, CardTypeOK, Active, Ended
  <2>5. cpc[q] # "find card" \/ FindCard(q)
    BY <2>1 DEF CardAct, CardStep, FindCustomer, CustomerReplied, CustomerFails, InsertCustomer,
           CountCards, CreateCard, InsertCard, DeleteCard, CreateContract, Commit, Crash,
           EndContract, Abort, Goto, CardTypeOK, Active, Ended
  <2> QED
    BY <2>3, <2>4, <2>5
<1>5. ClearInv'
  BY <1>2, <1>3, <1>4 DEF PaymentInv, ClearInv
<1> QED
  BY <1>1, <1>5

\* The commit of a deletion and that of a payment: whoever is still under way with the same
\* card is a request of the same user, and has met this one.
LEMMA CommitKeepsPayments ==
    ASSUME CardTypeOK, ControlInv, OwnerInv, PaymentInv, NEW q \in Requests, Commit(q),
           UNCHANGED authVars
    PROVE  ClearInv' /\ DeletedNotPaying'
<1>1. /\ cpc[q] = "commit" /\ req[q] # None /\ Active(q) /\ UNCHANGED <<req, met>>
      /\ cpc'[q] = "done" /\ ~Active(q)' /\ req[q].op \in {"register", "delete", "pay"}
      /\ \A p \in Requests \ {q} : cpc'[p] = cpc[p] /\ (Active(p)' <=> Active(p))
  <2>1. cpc[q] = "commit" /\ req[q] # None /\ UNCHANGED <<locals, met>>
    BY CommitFacts
  <2>2. cpc'[q] = "done" /\ \A p \in Requests \ {q} : cpc'[p] = cpc[p]
    BY CommitKeepsTypes DEF OthersStay
  <2> QED
    BY <2>1, <2>2, RequestFacts DEF Active, Ended, locals
<1>2. ASSUME NEW p \in Requests, p # q, Active(p), cpc[p] # "find card", req[p].op # "register",
             req[q].op # "register", req[p].row = req[q].row
      PROVE  p \in met /\ q \in met
  <2>1. UserOf(p) = UserOf(q)
    BY <1>1, <1>2, OwnerOfCard
  <2> QED
    BY <1>1, <1>2, <2>1 DEF PaymentInv, OverlapInv
<1>3. \A p \in Requests : cpc[p] \in {"delete card", "commit"} => Active(p) /\ cpc[p] # "find card"
  BY DEF Active, Ended
<1>4. \A p \in Requests : Active(p) /\ req[p].op # "register" => req[p].row \in Requests
  BY RequestFacts DEF ControlInv, Knows, Active
<1>5. payingWith \in [Requests -> Requests \cup {None}]
  BY DEF CardTypeOK
<1>6. CASE req[q].op = "register"
  <2>1. UNCHANGED payingWith
    BY <1>6 DEF Commit
  <2>2. \A i \in Requests : cards'[i].deleted => cards[i].deleted
    <3>1. /\ cards'[q] = [user |-> UserOf(q), token |-> req[q].token, deleted |-> FALSE]
          /\ \A i \in Requests \ {q} : cards'[i] = cards[i]
      BY <1>6, CommitFacts
    <3>2. ~cards'[q].deleted
      BY <3>1
    <3> QED
      BY <3>1, <3>2
  <2>3. DeletedNotPaying'
    BY <1>1, <1>5, <2>1, <2>2 DEF PaymentInv, DeletedNotPaying
  <2>4. ClearInv'
    BY <1>1, <1>4, <2>1, <2>2 DEF PaymentInv, ClearInv
  <2> QED
    BY <2>3, <2>4
<1>7. CASE req[q].op = "delete"
  <2>1. UNCHANGED payingWith
    BY <1>7 DEF Commit
  <2>2. \A i \in Requests \ {req[q].row} : cards'[i] = cards[i]
    BY <1>7, CommitFacts
  <2>3. \A p \in Requests : payingWith[p] = req[q].row => p \in met
    BY <1>1, <1>7 DEF PaymentInv, ClearInv
  <2>4. DeletedNotPaying'
    BY <1>1, <1>5, <2>1, <2>2, <2>3 DEF PaymentInv, DeletedNotPaying
  <2>5. ASSUME NEW p \in Requests, cpc'[p] \in {"delete card", "commit"}, req[p].op = "delete",
               NEW i \in Requests, payingWith[i] = req[p].row
        PROVE  i \in met
    BY <1>1, <2>5 DEF PaymentInv, ClearInv
  <2>6. ASSUME NEW p \in Requests, cpc'[p] # "find card", Active(p)', req[p].op = "pay",
               cards'[req[p].row].deleted
        PROVE  p \in met
    <3>1. p # q /\ Active(p) /\ cpc[p] # "find card" /\ req[p].row \in Requests
      BY <1>1, <1>4, <2>6
    <3> QED
      BY <1>2, <1>7, <2>2, <2>6, <3>1 DEF PaymentInv, ClearInv
  <2>7. ClearInv'
    BY <1>1, <2>1, <2>5, <2>6 DEF ClearInv
  <2> QED
    BY <2>4, <2>7
<1>8. CASE req[q].op = "pay"
  <2>1. UNCHANGED cards /\ payingWith' = [payingWith EXCEPT ![q] = req[q].row]
    BY <1>8 DEF Commit
  <2>2. cards[req[q].row].deleted => q \in met
    BY <1>1, <1>8 DEF PaymentInv, ClearInv
  <2>3. DeletedNotPaying'
    BY <1>1, <1>5, <2>1, <2>2 DEF PaymentInv, DeletedNotPaying
  <2>4. ASSUME NEW p \in Requests, cpc'[p] \in {"delete card", "commit"}, req[p].op = "delete",
               NEW i \in Requests, payingWith'[i] = req[p].row
        PROVE  i \in met
    <3>1. p # q /\ cpc[p] \in {"delete card", "commit"}
      BY <1>1, <2>4
    <3>2. CASE i = q
      BY <1>2, <1>3, <1>5, <1>8, <2>1, <2>4, <3>1, <3>2
    <3>3. CASE i # q
      BY <1>5, <2>1, <2>4, <3>1, <3>3 DEF PaymentInv, ClearInv
    <3> QED
      BY <3>2, <3>3
  <2>5. ASSUME NEW p \in Requests, cpc'[p] # "find card", Active(p)', req[p].op = "pay",
               cards[req[p].row].deleted
        PROVE  p \in met
    BY <1>1, <2>5 DEF PaymentInv, ClearInv
  <2>6. ClearInv'
    BY <1>1, <2>1, <2>4, <2>5 DEF ClearInv
  <2> QED
    BY <2>3, <2>6
<1> QED
  BY <1>1, <1>6, <1>7, <1>8

LEMMA ActKeepsPayments ==
    ASSUME CardTypeOK, ControlInv, OwnerInv, PaymentInv, NEW q \in Requests, CardAct(q),
           UNCHANGED authVars
    PROVE  PaymentInv'
<1>1. OverlapInv' /\ met \subseteq met'
  BY ActKeepsOverlap DEF PaymentInv
<1>2. CASE EndContract(q)
  <2>1. /\ UNCHANGED <<cards, cpc, req, met>> /\ payingWith' = [payingWith EXCEPT ![q] = None]
        /\ payingWith \in [Requests -> Requests \cup {None}]
    BY <1>2 DEF EndContract, locals, CardTypeOK
  <2>2. \A p \in Requests : payingWith'[p] # None => payingWith'[p] = payingWith[p]
    BY <2>1
  <2>3. DeletedNotPaying'
    BY <2>1, <2>2 DEF PaymentInv, DeletedNotPaying
  <2>4. \A p \in Requests : cpc[p] \in {"delete card", "commit"} /\ req[p].op = "delete" =>
            req[p].row # None
    BY RequestFacts, NoneIsNoRequest DEF ControlInv, Knows
  <2>5. ClearInv'
    BY <2>1, <2>2, <2>4 DEF PaymentInv, ClearInv, Active
  <2> QED
    BY <1>1, <2>3, <2>5 DEF PaymentInv
<1>3. CASE Commit(q)
  BY <1>1, <1>3, CommitKeepsPayments DEF PaymentInv
<1>4. CASE ~EndContract(q) /\ ~Commit(q)
  <2>1. UNCHANGED <<cards, payingWith>>
    BY <1>4 DEF CardAct, CardStep, Start, FindCustomer, CustomerReplied, CustomerFails, InsertCustomer,
         CountCards, FindCard, CreateCard, InsertCard, DeleteCard, CreateContract, Crash, Abort, tables
  <2> QED
    BY <1>1, <2>1, QuietActKeepsPayments DEF PaymentInv
<1> QED
  BY <1>2, <1>3, <1>4

-----------------------------------------------------------------------------
(* The inductive invariant and the theorems.                               *)

LEMMA InitEstablishesCardInv == CardInit => CardInv
<1> SUFFICES ASSUME CardInit PROVE CardInv
  OBVIOUS
<1>1. AuthInv
  BY InitEstablishesAuthInv DEF CardInit
<1>2. CardTypeOK
  BY <1>1 DEF CardInit, CardTypeOK, AuthInv, CardPCs
<1>3. ControlInv /\ CustomerInv
  BY DEF CardInit, ControlInv, Knows, CustomerInv, Inserts, Active, Ended, NoPoison
<1>4. OwnerInv /\ RegistryInv
  BY DEF CardInit, OwnerInv, RegistryInv, RegistryOf, Names, Registers, Deletes, PendingCard
<1>5. DefaultInv /\ PaymentInv
  BY DEF CardInit, DefaultInv, PaymentInv, OverlapInv, ClearInv, DeletedNotPaying, Active, Ended
<1> QED
  BY <1>1, <1>2, <1>3, <1>4, <1>5 DEF CardInv, PeopleInv

LEMMA NextKeepsCardInv == CardInv /\ [CardNext]_<<authVars, cardVars>> => CardInv'
<1> SUFFICES ASSUME CardInv, [CardNext]_<<authVars, cardVars>> PROVE CardInv'
  OBVIOUS
<1>1. AuthInv'
  BY NextKeepsAuthInv DEF CardInv, PeopleInv, CardNext
<1>2. ASSUME NEW q \in Requests, CardAct(q), UNCHANGED authVars PROVE CardInv'
  BY <1>1, <1>2, ActKeepsControl, ActKeepsCustomers, ActKeepsOwner, ActKeepsRegistry,
     ActKeepsDefault, ActKeepsPayments DEF CardInv, PeopleInv
<1>3. CASE UNCHANGED cardVars
  <2>1. CardTypeOK'
    BY <1>1, <1>3 DEF CardInv, PeopleInv, CardTypeOK, cardVars, AuthInv
  <2>2. ControlInv' /\ CustomerInv'
    BY <1>3 DEF CardInv, PeopleInv, cardVars, ControlInv, Knows, CustomerInv, Inserts, Active, NoPoison
  <2>3. OwnerInv' /\ RegistryInv'
    <3>1. OwnerInv'
      BY <1>3 DEF CardInv, cardVars, OwnerInv
    <3>2. UNCHANGED <<cards, fcards, hurt>>
      BY <1>3 DEF cardVars
    <3>3. \A p \in Requests, c \in CardType :
              /\ Registers(p, c)' <=> Registers(p, c)
              /\ Deletes(p, c)' <=> Deletes(p, c)
              /\ PendingCard(p, c)' <=> PendingCard(p, c)
              /\ Names(p, c)' <=> Names(p, c)
      BY <1>3 DEF cardVars, Names, Registers, Deletes, PendingCard, CardOf, UserOf
    <3>4. ASSUME NEW c \in CardType PROVE RegistryOf(c)'
      <4>1. RegistryOf(c)
        BY DEF CardInv, RegistryInv
      <4> QED
        BY <3>2, <3>3, <4>1 DEF RegistryOf
    <3> QED
      BY <3>1, <3>4 DEF RegistryInv
  <2>4. DefaultInv' /\ PaymentInv'
    BY <1>3 DEF CardInv, cardVars, DefaultInv, PaymentInv, OverlapInv, ClearInv, DeletedNotPaying,
                Active, UserOf
  <2> QED
    BY <1>1, <2>1, <2>2, <2>3, <2>4 DEF CardInv, PeopleInv
<1> QED
  BY <1>2, <1>3 DEF CardNext, CardAct

LEMMA CardInvHolds == CardSpec => []CardInv
  BY InitEstablishesCardInv, NextKeepsCardInv, PTL DEF CardSpec

\* The tables, the locals of requests and what fincode holds keep their types.
THEOREM CardTypeCorrect == CardSpec => []CardTypeOK
<1>1. CardInv => CardTypeOK
  BY DEF CardInv, PeopleInv
<1> QED
  BY <1>1, CardInvHolds, PTL

\* A Google account has one row of users and that row one row of fincode_customers
\* (AuthService.login, CustomerSyncService.ensure), however many logins and requests overlap.
THEOREM OneCustomerPerPerson == CardSpec => []OnePersonOneCustomer
<1>1. CardInv => OnePersonOneCustomer
  <2> SUFFICES ASSUME CardInv PROVE OnePersonOneCustomer
    OBVIOUS
  <2>1. OneAccount /\ LoginOK /\ AuthTypeOK
    BY DEF CardInv, PeopleInv, AuthInv
  <2>2. ASSUME NEW l \in Logins, NEW m \in Logins, NEW c \in Requests, NEW d \in Requests,
               lpc[l] = "in", lpc[m] = "in", who[l].sub = who[m].sub,
               customers[c] = account[l], customers[d] = account[m]
        PROVE  c = d
    <3>1. /\ account[l] \in Logins /\ account[m] \in Logins
          /\ users[account[l]] # None /\ users[account[m]] # None
          /\ users[account[l]].sub = who[l].sub /\ users[account[m]].sub = who[m].sub
      BY <2>1, <2>2 DEF OneAccount, LoginOK, Authenticated
    <3>2. account[l] = account[m] /\ account[l] # None
      BY <2>1, <2>2, <3>1, AuthAssumption DEF OneAccount
    <3> QED
      BY <2>2, <3>2 DEF CardInv, PeopleInv, CustomerInv
  <2> QED
    BY <2>1, <2>2 DEF OnePersonOneCustomer
<1> QED
  BY <1>1, CardInvHolds, PTL

\* The placeholder id that stands for a refused creation (CustomerSyncService.ensure) never
\* reaches a committed row.
THEOREM PlaceholdersNeverCommitted == CardSpec => []NoPoison
<1>1. CardInv => NoPoison
  BY DEF CardInv, PeopleInv, CustomerInv
<1> QED
  BY <1>1, CardInvHolds, PTL

\* With nothing of a user under way, the cards shown are the cards fincode holds, but for the
\* requests that failed after fincode had acted (CardManager.register_card, delete_card).
THEOREM CardsFollowFincode == CardSpec => []CardsAgree
<1>1. CardInv => CardsAgree
  <2> SUFFICES ASSUME CardInv, NEW c \in CardType, c \notin hurt, Quiet(c.user)
               PROVE  /\ fcards[c] = "held" <=> \E q \in RowsOfCard(c) : ~cards[q].deleted
                      /\ \A p, q \in RowsOfCard(c) : p = q
    BY DEF CardsAgree
  <2>1. \A q \in Requests : q \in RowsOfCard(c) <=> Names(q, c)
    BY DEF RowsOfCard, Names
  <2>2. RowsOfCard(c) \subseteq Requests
    BY DEF RowsOfCard
  <2>3. \A q \in Requests : ~Registers(q, c) /\ ~Deletes(q, c)
    <3>1. ASSUME NEW q \in Requests, Registers(q, c) \/ Deletes(q, c) PROVE FALSE
      <4>1. Active(q) /\ CardOf(q) = c
        BY <3>1 DEF Registers, Deletes, Active, Ended
      <4>2. req[q] # None
        BY <4>1 DEF CardInv, PeopleInv, ControlInv, Knows, Active
      <4>3. UserOf(q) = c.user
        BY <4>1, <4>2, RequestFacts DEF CardInv, PeopleInv
      <4> QED
        BY <4>1, <4>3 DEF Quiet
    <3> QED
      BY <3>1
  <2>4. RegistryOf(c) /\ fcards[c] \in {"none", "held", "deleted"}
    BY DEF CardInv, PeopleInv, CardTypeOK, RegistryInv
  <2>5. fcards[c] = "held" => \E q \in RowsOfCard(c) : ~cards[q].deleted
    BY <2>1, <2>3, <2>4 DEF RegistryOf
  <2>6. (\E q \in RowsOfCard(c) : ~cards[q].deleted) => fcards[c] = "held"
    BY <2>1, <2>2, <2>3, <2>4 DEF RegistryOf
  <2>7. \A p, q \in RowsOfCard(c) : p = q
    BY <2>1, <2>2, <2>4 DEF RegistryOf
  <2> QED
    BY <2>5, <2>6, <2>7
<1> QED
  BY <1>1, CardInvHolds, PTL

\* With nothing of a user under way and none of his cards lost or deleted, the default card at
\* fincode is one of those shown, however first registrations overlap (register_card).
THEOREM DefaultIsShown == CardSpec => []DefaultCard
<1>1. CardInv => DefaultCard
  <2> SUFFICES ASSUME CardInv, NEW u \in Users, Quiet(u), VisibleRows(u) # {},
                      \A c \in CardType : c.user = u => c \notin hurt /\ fcards[c] # "deleted"
               PROVE  \E q \in VisibleRows(u) : fdefault[u] = cards[q].token
    BY DEF DefaultCard
  <2>1. CardTypeOK /\ ControlInv /\ RegistryInv /\ DefaultInv
    BY DEF CardInv, PeopleInv
  <2>2. PICK row \in Requests : cards[row] # None /\ cards[row].user = u
    BY DEF VisibleRows
  <2> DEFINE shown == [user |-> u, token |-> cards[row].token]
             default == [user |-> u, token |-> fdefault[u]]
  <2>3. shown \in CardType /\ shown.user = u /\ Names(row, shown)
    BY <2>1, <2>2 DEF CardTypeOK, RowType, CardType, Names
  <2>4. fdefault[u] # None
    <3>1. fcards[shown] # "none"
      BY <2>1, <2>3 DEF RegistryInv, RegistryOf
    <3> HIDE DEF shown
    <3> QED
      BY <2>1, <2>3, <3>1 DEF DefaultInv
  <2>5. default \in CardType /\ default.user = u /\ default.token = fdefault[u]
    BY <2>1, <2>4 DEF CardTypeOK, CardType
  <2>6. fcards[default] # "none"
    BY <2>1, <2>4 DEF DefaultInv
  <2> HIDE DEF shown, default
  <2>7. fcards[default] = "held" /\ default \notin hurt
    BY <2>1, <2>5, <2>6 DEF CardTypeOK
  <2>8. \A q \in Requests : ~Registers(q, default)
    <3>1. ASSUME NEW q \in Requests, Registers(q, default) PROVE FALSE
      <4>1. Active(q) /\ CardOf(q) = default
        BY <3>1 DEF Registers, Active, Ended
      <4>2. req[q] # None
        BY <2>1, <4>1 DEF ControlInv, Knows, Active
      <4>3. UserOf(q) = u
        BY <2>1, <2>5, <4>1, <4>2, RequestFacts
      <4> QED
        BY <4>1, <4>3 DEF Quiet
    <3> QED
      BY <3>1
  <2>9. PICK q \in Requests : Names(q, default)
    BY <2>1, <2>5, <2>7, <2>8 DEF RegistryInv, RegistryOf
  <2>10. ~cards[q].deleted
    BY <2>1, <2>5, <2>7, <2>9 DEF RegistryInv, RegistryOf
  <2> QED
    BY <2>5, <2>9, <2>10 DEF Names, VisibleRows
<1> QED
  BY <1>1, CardInvHolds, PTL

\* A card is not deleted under a usable contract, unless the payment overlapped another request
\* of the user (delete_card, the card of subscribe and change_plan).
THEOREM CardInUseStays == CardSpec => []DeletedNotPaying
<1>1. CardInv => DeletedNotPaying
  BY DEF CardInv, PaymentInv
<1> QED
  BY <1>1, CardInvHolds, PTL
=============================================================================
