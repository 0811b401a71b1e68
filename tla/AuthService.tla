---------------------------- MODULE AuthService ----------------------------
(***************************************************************************)
(* Login with Google: app/services/auth_service.py and the route           *)
(* POST /auth/google of app/api/routes/auth.py, over the `users` table.    *)
(* A login is one transaction at READ COMMITTED; its actions are what it   *)
(* does between two SELECTs, a flush that may wait, and the commit.        *)
(***************************************************************************)
EXTENDS Integers

CONSTANTS
    Logins,        \* the logins; a user row is named by the login that inserts it
    Identities,    \* what Google vouches for: [sub, email]
    OldEmails,     \* emails of rows from before Google login, whose google_sub is NULL
    None

ASSUME AuthAssumption == None \notin Identities \cup Logins

VARIABLES
    users,         \* the committed rows, None where none was inserted
    lpc,           \* where each login is
    who,           \* the identity it verified
    account        \* the row it ends up with

authVars == <<users, lpc, who, account>>

LoginPCs == {"unsent", "find", "check", "insert", "record", "in", "refused", "failed"}

AuthInit ==
    /\ users = [l \in Logins |-> None]
    /\ lpc = [l \in Logins |-> "unsent"]
    /\ who = [l \in Logins |-> None]
    /\ account = [l \in Logins |-> None]

-----------------------------------------------------------------------------

LoginGoto(l, label) == lpc' = [lpc EXCEPT ![l] = label] /\ UNCHANGED <<users, who, account>>

EndsAt(l, row) ==
    /\ account' = [account EXCEPT ![l] = row]
    /\ lpc' = [lpc EXCEPT ![l] = "record"]
    /\ UNCHANGED <<users, who>>

RowsOfSub(sub) == {m \in Logins : users[m] # None /\ users[m].sub = sub}

\* An entry of ix_users_email.
EmailTaken(email) ==
    email \in OldEmails \/ \E m \in Logins : users[m] # None /\ users[m].email = email

\* A flushed row whose transaction has not ended.
Pending(m) == lpc[m] = "record" /\ account[m] = m

\* verify_id_token (external) accepts the credential.
Verify(l, identity) ==
    /\ lpc[l] = "unsent"
    /\ who' = [who EXCEPT ![l] = identity]
    /\ lpc' = [lpc EXCEPT ![l] = "find"]
    /\ UNCHANGED <<users, account>>

FindBySub(l) ==
    /\ lpc[l] = "find"
    /\ \/ \E m \in RowsOfSub(who[l].sub) : EndsAt(l, m)
       \/ RowsOfSub(who[l].sub) = {} /\ LoginGoto(l, "check")

\* Owning the Google account does not prove owning the row that has its address: 409.
CheckEmail(l) ==
    /\ lpc[l] = "check"
    /\ LoginGoto(l, IF EmailTaken(who[l].email) THEN "refused" ELSE "insert")

\* The INSERT waits for uncommitted rows it would collide with.  PostgreSQL checks the
\* indexes in the order of their creation, so that a row with both the address and the
\* google_sub violates ix_users_email (0001) and is a 409; only a collision of google_sub
\* alone (0007) is answered with the row that is there.
InsertUser(l) ==
    /\ lpc[l] = "insert"
    /\ \A m \in Logins : Pending(m) =>
          who[m].email # who[l].email /\ who[m].sub # who[l].sub
    /\ \/ EmailTaken(who[l].email) /\ LoginGoto(l, "refused")
       \/ ~EmailTaken(who[l].email) /\ \E m \in RowsOfSub(who[l].sub) : EndsAt(l, m)
       \/ ~EmailTaken(who[l].email) /\ RowsOfSub(who[l].sub) = {} /\ EndsAt(l, l)

\* The audit entries, the commit, the token.
LoginCommit(l) ==
    /\ lpc[l] = "record"
    /\ users' = IF account[l] = l THEN [users EXCEPT ![l] = who[l]] ELSE users
    /\ lpc' = [lpc EXCEPT ![l] = "in"]
    /\ UNCHANGED <<who, account>>

\* A crash or a lost connection: the transaction is rolled back.
LoginFails(l) ==
    /\ lpc[l] \in {"find", "check", "insert", "record"}
    /\ LoginGoto(l, "failed")

Login(l) ==
    \/ \E identity \in Identities : Verify(l, identity)
    \/ FindBySub(l) \/ CheckEmail(l) \/ InsertUser(l) \/ LoginCommit(l) \/ LoginFails(l)

AuthNext == \E l \in Logins : Login(l)

AuthSpec == AuthInit /\ [][AuthNext]_authVars

\* get_current_user: the token of a login names a user that is still there.
Authenticated(l) == lpc[l] = "in" /\ users[account[l]] # None

-----------------------------------------------------------------------------
(* Properties                                                              *)

AuthTypeOK ==
    /\ users \in [Logins -> Identities \cup {None}]
    /\ lpc \in [Logins -> LoginPCs]
    /\ who \in [Logins -> Identities \cup {None}]
    /\ account \in [Logins -> Logins \cup {None}]

\* However first logins overlap, a Google account and an address have one row, a row from
\* before Google login keeps its address, and who is in is in the row of that Google account.
OneAccount ==
    /\ \A l, m \in Logins :
          /\ users[l] # None /\ users[m] # None
          /\ users[l].sub = users[m].sub \/ users[l].email = users[m].email
          => l = m
    /\ \A l \in Logins : users[l] # None => users[l].email \notin OldEmails
    /\ \A l \in Logins : lpc[l] = "in" => Authenticated(l) /\ users[account[l]].sub = who[l].sub

\* A login is refused only for an address that belongs to another account: overlapping
\* logins of one person both succeed.
ConcurrentLoginSucceeds ==
    \A l \in Logins : lpc[l] = "refused" =>
        \/ who[l].email \in OldEmails
        \/ \E m \in Logins :
              users[m] # None /\ users[m].email = who[l].email /\ users[m].sub # who[l].sub

=============================================================================
