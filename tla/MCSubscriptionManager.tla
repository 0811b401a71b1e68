----------------------- MODULE MCSubscriptionManager -----------------------
(* The instances of SubscriptionManager that TLC checks.                    *)
EXTENDS SubscriptionManager, TLC

CONSTANTS u1, u2, planA, planB, key1, key2

\* A row and a fresh nonce carry the name of the request, and no CHOOSE picks one.
Symmetric == Permutations(Requests)

\* Requests that are numbers arrive in that order.  It stands in for a symmetry where
\* liveness is checked: it leaves out arrivals only, and no fairness asks for one.
ArriveInOrder ==
    \A q, r \in Requests : q < r /\ pc[r] # "unsent" => pc[q] # "unsent"

Sends(u, op, plan, key) == [user |-> u, op |-> op, plan |-> plan, key |-> key]

\* The shipped frontend sends no Idempotency-Key (HomePage.tsx).
Keyless == {Sends(u1, "subscribe", planA, None), Sends(u1, "subscribe", Free, None),
            Sends(u1, "cancel", Free, None)}

\* The same with plan changes.
KeylessAll == Keyless \cup {Sends(u1, "change", p, None) : p \in {planA, planB, Free}}

\* The same of a client that may send a key with a subscribe, and may use it again when the
\* contract has ended.
KeyUsedAgain == KeylessAll \cup {Sends(u1, "subscribe", planA, key1)}

\* The behaviours of ChangesAlone in which the plan of a contract that a key has made stays as
\* it is: its row keeps the id that fincode returns for the key.
KeyedPlansStay ==
    /\ ChangesAlone
    /\ \A r \in InFlight :
          req[r].op = "change" /\ target[r] # None => rows[target[r]].nonce \notin Keys

\* The operations of one user, and a second user who subscribes.
KeylessTwoUsers ==
    Keyless \cup {Sends(u1, "change", p, None) : p \in {planB, Free}}
            \cup {Sends(u2, "subscribe", planA, None)}

\* A free contract that is upgraded.
KeylessChange == {Sends(u1, "subscribe", Free, None), Sends(u1, "change", planA, None),
                  Sends(u1, "change", planB, None)}

\* A client that names each intention once: one key to subscribe, another to change.
Keyed == {Sends(u1, "subscribe", planA, key1), Sends(u1, "change", planB, key2)}
=============================================================================
