-------------------------- MODULE AuthServiceProofs --------------------------
(***************************************************************************)
(* For any number of overlapping logins of any identities: one Google      *)
(* account, and one address, never have two rows of `users`.  The argument *)
(* is AuthInv: a login whose INSERT is flushed has the account and the     *)
(* address to itself, since whoever would insert either one waits for it.  *)
(***************************************************************************)
EXTENDS AuthService, TLAPS

\* The two rows, or identities, that no two rows of `users` may carry.
Collide(i, j) == i.sub = j.sub \/ i.email = j.email

\* What a login knows at each point of its handler.
LoginOK ==
    \A l \in Logins :
        /\ lpc[l] \in {"find", "check", "insert", "record", "in"} => who[l] # None
        /\ users[l] # None => lpc[l] = "in"
        /\ lpc[l] \in {"record", "in"} =>
              /\ account[l] \in Logins
              /\ \/ Pending(l)
                 \/ users[account[l]] # None /\ users[account[l]].sub = who[l].sub

\* The INSERT of a login that has not committed reserves the account and the address.
InsertReserved ==
    \A l \in Logins : Pending(l) =>
        /\ who[l].email \notin OldEmails
        /\ \A m \in Logins : users[m] # None => ~Collide(users[m], who[l])
        /\ \A m \in Logins \ {l} : Pending(m) => ~Collide(who[m], who[l])

\* The inductive invariant.
AuthInv == AuthTypeOK /\ LoginOK /\ InsertReserved /\ OneAccount

LEMMA InitEstablishesAuthInv == AuthInit => AuthInv
  BY DEF AuthInit, AuthInv, AuthTypeOK, LoginOK, InsertReserved, OneAccount, Pending, LoginPCs

\* A step that inserts no row and flushes none, and lets nobody in.
LEMMA GotoKeepsAuthInv ==
    ASSUME AuthInv, NEW l \in Logins, NEW label \in {"check", "insert", "refused", "failed"},
           lpc[l] \in {"find", "check", "insert", "record"}, LoginGoto(l, label)
    PROVE  AuthInv'
<1>1. /\ AuthTypeOK' /\ UNCHANGED <<users, who, account>>
      /\ lpc'[l] = label /\ \A m \in Logins \ {l} : lpc'[m] = lpc[m]
  BY DEF AuthInv, AuthTypeOK, LoginGoto, LoginPCs
<1>2. \A m \in Logins : Pending(m)' => Pending(m)
  BY <1>1 DEF Pending
<1>3. \A m \in Logins \ {l} : Pending(m)' <=> Pending(m)
  BY <1>1 DEF Pending
<1>4. LoginOK'
  BY <1>1, <1>3 DEF AuthInv, LoginOK
<1>5. InsertReserved'
  BY <1>1, <1>2 DEF AuthInv, InsertReserved
<1>6. OneAccount'
  BY <1>1 DEF AuthInv, OneAccount, Authenticated
<1> QED
  BY <1>1, <1>4, <1>5, <1>6 DEF AuthInv

\* A login that has found its row, or flushed the INSERT of one that nobody has.
LEMMA EndsAtKeepsAuthInv ==
    ASSUME AuthInv, NEW l \in Logins, NEW row \in Logins, EndsAt(l, row),
           lpc[l] \in {"find", "insert"},
           \/ row \in RowsOfSub(who[l].sub)
           \/ /\ row = l /\ who[l].email \notin OldEmails
              /\ \A m \in Logins : users[m] # None => ~Collide(users[m], who[l])
              /\ \A m \in Logins : Pending(m) => ~Collide(who[m], who[l])
    PROVE  AuthInv'
<1>1. /\ AuthTypeOK' /\ UNCHANGED <<users, who>>
      /\ lpc'[l] = "record" /\ account'[l] = row
      /\ \A m \in Logins \ {l} : lpc'[m] = lpc[m] /\ account'[m] = account[m]
  BY DEF AuthInv, AuthTypeOK, EndsAt, LoginPCs
<1>2. \A m \in Logins \ {l} : Pending(m)' <=> Pending(m)
  BY <1>1 DEF Pending
<1>3. Pending(l)' <=> row = l
  BY <1>1 DEF Pending
<1>4. users[l] = None
  BY DEF AuthInv, LoginOK
<1>5. CASE row \in RowsOfSub(who[l].sub)
  <2>1. ~Pending(l)' /\ users[row] # None /\ users[row].sub = who[l].sub
    BY <1>3, <1>4, <1>5 DEF RowsOfSub
  <2>2. LoginOK' /\ InsertReserved' /\ OneAccount'
    BY <1>1, <1>2, <2>1 DEF AuthInv, LoginOK, InsertReserved, OneAccount, Authenticated
  <2> QED
    BY <1>1, <2>2 DEF AuthInv
<1>6. CASE /\ row = l /\ who[l].email \notin OldEmails
           /\ \A m \in Logins : users[m] # None => ~Collide(users[m], who[l])
           /\ \A m \in Logins : Pending(m) => ~Collide(who[m], who[l])
  <2>1. Pending(l)'
    BY <1>3, <1>6
  <2>2. LoginOK' /\ OneAccount'
    BY <1>1, <1>2, <1>6, <2>1 DEF AuthInv, LoginOK, OneAccount, Authenticated
  <2>3. InsertReserved'
    BY <1>1, <1>2, <1>6 DEF AuthInv, InsertReserved, Collide
  <2> QED
    BY <1>1, <2>2, <2>3 DEF AuthInv
<1> QED
  BY <1>5, <1>6

LEMMA InsertUserKeepsAuthInv ==
    ASSUME AuthInv, NEW l \in Logins, InsertUser(l)
    PROVE  AuthInv'
<1>1. lpc[l] = "insert"
  BY DEF InsertUser
<1>2. CASE LoginGoto(l, "refused")
  BY <1>1, <1>2, GotoKeepsAuthInv
<1>3. ASSUME NEW m \in RowsOfSub(who[l].sub), EndsAt(l, m) PROVE AuthInv'
  BY <1>1, <1>3, EndsAtKeepsAuthInv DEF RowsOfSub
<1>4. CASE ~EmailTaken(who[l].email) /\ RowsOfSub(who[l].sub) = {} /\ EndsAt(l, l)
  <2>1. \A m \in Logins : users[m] # None => ~Collide(users[m], who[l])
    BY <1>4 DEF EmailTaken, RowsOfSub, Collide
  <2>2. \A m \in Logins : Pending(m) => ~Collide(who[m], who[l])
    BY DEF InsertUser, Collide
  <2> QED
    BY <1>1, <1>4, <2>1, <2>2, EndsAtKeepsAuthInv DEF EmailTaken
<1> QED
  BY <1>2, <1>3, <1>4 DEF InsertUser

\* The commit: the reservation becomes the row.
LEMMA LoginCommitKeepsAuthInv ==
    ASSUME AuthInv, NEW l \in Logins, LoginCommit(l)
    PROVE  AuthInv'
<1>1. /\ AuthTypeOK /\ UNCHANGED <<who, account>>
      /\ lpc[l] = "record" /\ lpc'[l] = "in" /\ \A m \in Logins \ {l} : lpc'[m] = lpc[m]
      /\ users[l] = None /\ who[l] # None /\ who[l] \in Identities /\ account[l] \in Logins
  BY DEF AuthInv, AuthTypeOK, LoginOK, LoginCommit
<1>2. \A m \in Logins : Pending(m)' <=> Pending(m) /\ m # l
  BY <1>1 DEF Pending
<1>3. AuthTypeOK'
  BY <1>1 DEF AuthTypeOK, LoginCommit, LoginPCs
<1>4. CASE account[l] = l
  <2>1. users'[l] = who[l] /\ \A m \in Logins \ {l} : users'[m] = users[m]
    BY <1>1, <1>4 DEF LoginCommit, AuthTypeOK
  <2>2. Pending(l)
    BY <1>1, <1>4 DEF Pending
  <2>3. \A m \in Logins : users[m] # None => users'[m] = users[m]
    BY <1>1, <2>1
  <2>4. LoginOK'
    BY <1>1, <1>2, <1>4, <2>1, <2>3 DEF AuthInv, LoginOK
  <2>5. InsertReserved'
    BY <1>1, <1>2, <2>1, <2>2 DEF AuthInv, InsertReserved, Collide
  <2>6. \A m, n \in Logins : users'[m] # None /\ users'[n] # None /\ Collide(users'[m], users'[n])
                               => m = n
    BY <1>1, <2>1, <2>2 DEF AuthInv, InsertReserved, OneAccount, Collide
  <2>7. \A m \in Logins : users'[m] # None => users'[m].email \notin OldEmails
    BY <2>1, <2>2 DEF AuthInv, InsertReserved, OneAccount
  <2>8. \A m \in Logins : lpc'[m] = "in" =>
          users'[account'[m]] # None /\ users'[account'[m]].sub = who'[m].sub
    BY <1>1, <1>4, <2>1, <2>3 DEF AuthInv, LoginOK, OneAccount, Authenticated
  <2>9. OneAccount'
    BY <2>6, <2>7, <2>8 DEF OneAccount, Authenticated, Collide
  <2> QED
    BY <1>3, <2>4, <2>5, <2>9 DEF AuthInv
<1>5. CASE account[l] # l
  <2>1. users' = users /\ users[account[l]] # None /\ users[account[l]].sub = who[l].sub
    BY <1>1, <1>5 DEF LoginCommit, AuthInv, LoginOK, Pending
  <2>2. LoginOK' /\ InsertReserved' /\ OneAccount'
    BY <1>1, <1>2, <2>1 DEF AuthInv, LoginOK, InsertReserved, OneAccount, Authenticated
  <2> QED
    BY <1>3, <2>2 DEF AuthInv
<1> QED
  BY <1>4, <1>5

LEMMA VerifyKeepsAuthInv ==
    ASSUME AuthInv, NEW l \in Logins, NEW identity \in Identities, Verify(l, identity)
    PROVE  AuthInv'
<1>1. /\ lpc[l] = "unsent" /\ lpc'[l] = "find" /\ who'[l] = identity /\ identity # None
      /\ \A m \in Logins \ {l} : lpc'[m] = lpc[m] /\ who'[m] = who[m]
      /\ UNCHANGED <<users, account>>
  BY AuthAssumption DEF AuthInv, AuthTypeOK, Verify
<1>2. AuthTypeOK'
  BY DEF AuthInv, AuthTypeOK, Verify, LoginPCs
<1>3. \A m \in Logins : (Pending(m)' <=> Pending(m)) /\ (Pending(m) => m # l)
  BY <1>1 DEF Pending
<1>4. LoginOK' /\ InsertReserved' /\ OneAccount'
  BY <1>1, <1>3 DEF AuthInv, LoginOK, InsertReserved, OneAccount, Authenticated
<1> QED
  BY <1>2, <1>4 DEF AuthInv

LEMMA NextKeepsAuthInv == AuthInv /\ [AuthNext]_authVars => AuthInv'
<1> SUFFICES ASSUME AuthInv, [AuthNext]_authVars PROVE AuthInv'
  OBVIOUS
<1>1. ASSUME NEW l \in Logins, FindBySub(l) \/ CheckEmail(l) \/ LoginFails(l) PROVE AuthInv'
  BY <1>1, GotoKeepsAuthInv, EndsAtKeepsAuthInv
     DEF FindBySub, CheckEmail, LoginFails, RowsOfSub
<1>2. CASE UNCHANGED authVars
  BY <1>2 DEF authVars, AuthInv, AuthTypeOK, LoginOK, InsertReserved, OneAccount, Pending,
              Authenticated
<1> QED
  BY <1>1, <1>2, VerifyKeepsAuthInv, InsertUserKeepsAuthInv, LoginCommitKeepsAuthInv
     DEF AuthNext, Login

-----------------------------------------------------------------------------
(* The theorems.                                                           *)

\* The columns and the locals of logins keep their types.
THEOREM LoginTypeCorrect == AuthSpec => []AuthTypeOK
<1>1. AuthInv => AuthTypeOK
  BY DEF AuthInv
<1> QED
  BY <1>1, InitEstablishesAuthInv, NextKeepsAuthInv, PTL DEF AuthSpec

\* However first logins overlap and fail, a Google account and an address have one row, and who is
\* let in is in the row of the own account.
THEOREM OneAccountPerPerson == AuthSpec => []OneAccount
<1>1. AuthInv => OneAccount
  BY DEF AuthInv
<1> QED
  BY <1>1, InitEstablishesAuthInv, NextKeepsAuthInv, PTL DEF AuthSpec
=============================================================================
