---------------------------- MODULE AuthProvider ---------------------------
(***************************************************************************)
(* The session of one browser tab: frontend/src/hooks/useAuth/             *)
(* AuthProvider.tsx over lib/auth.ts (localStorage) and lib/apiClient.ts,  *)
(* with the routes of App.tsx that depend on it.  A call is in flight from *)
(* the moment apiFetch reads the token until its reply is delivered; the   *)
(* server answers in between, so that replies arrive in any order and tell *)
(* of the past.  The n-th token is issued to person n.                     *)
(***************************************************************************)
EXTENDS Integers, Bags

CONSTANTS
    None,
    MaxTokens,     \* bound on logins
    MaxActs,       \* bound on what the user does, and on expiries
    MaxFails,      \* bound on calls that the network loses
    MaxCalls       \* bound on calls in flight when the user acts

\* None is told apart from the tokens and the versions; there is a token to open a tab with.
ASSUME BrowserAssumption ==
    /\ None \notin Int
    /\ MaxTokens \in Nat \ {0} /\ {MaxActs, MaxFails, MaxCalls} \subseteq Nat

VARIABLES
    token, stored, \* localStorage: the token, and whose user payload
    user, loading, \* React: the user shown, and whether one is awaited
    route,         \* the page asked for
    calls,         \* the bag of calls in flight
    issued,        \* server: how many tokens there are
    expired,       \* server: those that are no longer accepted
    acts, fails    \* what has happened, for the bounds

authVars == <<token, stored, user, loading, route, calls, issued, expired, acts, fails>>
session  == <<token, stored, user, loading, route>>
server   == <<issued, expired>>
counts   == <<acts, fails>>

Tokens == 1..MaxTokens
Routes == {"home", "login", "account"}
Owners == {"page", "tab", "gone"}   \* the page that sent it, a page left since, a tab reloaded since
Answers == {"none", "ok", "unauthorized", "error"}

Call(kind, task, arg, owner) ==
    [kind |-> kind, task |-> task, arg |-> arg, owner |-> owner, sent |-> token, answer |-> "none", data |-> 0]

Plus(bag, c) == bag (+) SetToBag({c})
Drop(c) == calls (-) SetToBag({c})
Replace(c, d) == Drop(c) (+) SetToBag({d})
InFlight(c) == BagIn(c, calls)
AllCalls == DOMAIN calls

\* The calls of a set that belong to one owner, handed over to another.
HandedOver(set, from, to) ==
    [c \in {[d EXCEPT !.owner = to] : d \in {e \in set : e.owner = from}} |-> calls[[c EXCEPT !.owner = from]]]

\* A tab is opened on whatever an earlier one left; the payload may be unreadable.
AuthInit ==
    /\ token \in {None, 1} /\ issued = 1 /\ expired \in SUBSET {1}
    /\ stored \in IF token = None THEN {None} ELSE {None, 1}
    /\ user = stored /\ loading = (token # None /\ stored = None)
    /\ route \in {"home", "account"}
    /\ calls = IF token # None THEN SetToBag({Call("me", "none", 0, "tab")}) ELSE EmptyBag
    /\ acts = 0 /\ fails = 0

-----------------------------------------------------------------------------

\* The user does something.
Act == acts < MaxActs /\ BagCardinality(calls) < MaxCalls /\ acts' = acts + 1 /\ UNCHANGED fails

Valid(c) == c.sent # None /\ c.sent \notin expired

SessionKinds == {"me", "login", "logout"}

Answered(c, answer, data) == Replace(c, [c EXCEPT !.answer = answer, !.data = data])

\* get_current_user answers 401 to a token it does not accept; a login needs none, but a
\* credential that Google vouches for.
ServeSession(c) ==
    /\ InFlight(c) /\ c.answer = "none" /\ c.kind \in SessionKinds
    /\ \/ /\ c.kind = "login" /\ issued < MaxTokens /\ issued' = issued + 1
          /\ calls' = Answered(c, "ok", issued + 1)
       \/ c.kind = "login" /\ calls' = Answered(c, "unauthorized", 0) /\ UNCHANGED issued
       \/ c.kind # "login" /\ Valid(c) /\ calls' = Answered(c, "ok", c.sent) /\ UNCHANGED issued
       \/ c.kind # "login" /\ ~Valid(c) /\ calls' = Answered(c, "unauthorized", 0) /\ UNCHANGED issued
    /\ UNCHANGED <<session, expired, counts>>

\* The request or its reply is lost, or the server answers with an error.
NetworkFails(c) ==
    /\ InFlight(c) /\ c.answer \in {"none", "ok"} /\ fails < MaxFails
    /\ calls' = Answered(c, "error", 0)
    /\ fails' = fails + 1
    /\ UNCHANGED <<session, server, acts>>

Expire(t) ==
    /\ t <= issued /\ t \notin expired /\ acts < MaxActs
    /\ expired' = expired \cup {t}
    /\ acts' = acts + 1
    /\ UNCHANGED <<session, calls, issued, fails>>

\* A reply to a tab that is gone.
Ignore(c) ==
    /\ InFlight(c) /\ c.answer # "none" /\ c.owner = "gone"
    /\ calls' = Drop(c)
    /\ UNCHANGED <<session, server, counts>>

Delivered(c, answers) == InFlight(c) /\ c.answer \in answers /\ c.owner # "gone"

ClearToken == token' = None /\ stored' = None

\* The event is not dispatched.
UnauthorizedSilent(c) ==
    /\ Delivered(c, {"unauthorized"})
    /\ ClearToken /\ UNCHANGED user
    /\ loading' = IF c.kind = "me" THEN FALSE ELSE loading
    /\ route' = IF c.kind = "logout" THEN "login" ELSE route
    /\ calls' = Drop(c)
    /\ UNCHANGED <<server, counts>>

\* apiFetch: clearToken, and the event that makes the provider forget its user.
Unauthorized(c) ==
    /\ Delivered(c, {"unauthorized"})
    /\ ClearToken /\ user' = None
    /\ loading' = IF c.kind = "me" THEN FALSE ELSE loading
    /\ route' = IF c.kind = "logout" THEN "login" ELSE route
    /\ calls' = Drop(c)
    /\ UNCHANGED <<server, counts>>

\* A refresh that fails keeps the token.
RefreshKeepsToken(c) ==
    /\ c.kind = "me"
    /\ \/ Delivered(c, {"ok"}) /\ stored' = c.data /\ user' = c.data /\ UNCHANGED token
       \/ Delivered(c, {"error"}) /\ user' = None /\ UNCHANGED <<token, stored>>
    /\ loading' = FALSE /\ calls' = Drop(c)
    /\ UNCHANGED <<route, server, counts>>

\* refresh: the reply is stored and shown whatever happened since it was asked for.
Refresh(c) ==
    /\ c.kind = "me"
    /\ \/ Delivered(c, {"ok"}) /\ stored' = c.data /\ user' = c.data /\ UNCHANGED token
       \/ Delivered(c, {"error"}) /\ ClearToken /\ user' = None
    /\ loading' = FALSE /\ calls' = Drop(c)
    /\ UNCHANGED <<route, server, counts>>

\* LoginPage goes back to the page the user came from.
LoggedIn(c) ==
    /\ c.kind = "login"
    /\ \/ /\ Delivered(c, {"ok"})
          /\ token' = c.data /\ stored' = c.data /\ user' = c.data
          /\ route' \in {"home", "account"}
       \/ Delivered(c, {"error"}) /\ UNCHANGED <<token, stored, user, route>>
    /\ calls' = Drop(c)
    /\ UNCHANGED <<loading, server, counts>>

\* logout clears the session whatever the reply; AccountPage goes to the login page.
LoggedOut(c) ==
    /\ c.kind = "logout" /\ Delivered(c, {"ok", "error"})
    /\ ClearToken /\ user' = None /\ route' = "login"
    /\ calls' = Drop(c)
    /\ UNCHANGED <<loading, server, counts>>

LogIn ==
    /\ Act /\ route = "login"
    /\ calls' = Plus(calls, Call("login", "none", 0, "tab"))
    /\ UNCHANGED <<session, server>>

LogOut ==
    /\ Act /\ route = "account" /\ user # None /\ ~loading
    /\ \A c \in AllCalls : c.kind # "logout" \/ c.owner = "gone"
    /\ calls' = Plus(calls, Call("logout", "none", 0, "tab"))
    /\ UNCHANGED <<session, server>>

\* RequireAuth.
Redirect ==
    /\ route = "account" /\ user = None /\ ~loading
    /\ route' = "login"
    /\ UNCHANGED <<token, stored, user, loading, calls, server, counts>>

Navigate(r) ==
    /\ Act /\ r # route
    /\ route' = r
    /\ UNCHANGED <<token, stored, user, loading, calls, server>>

\* Calls that leave the server as it is: those of the pages that read, and a logout, which is
\* an entry of the audit log.
Harmless == {"me", "logout", "sub", "cards", "history"}

\* The reloaded tab hears no reply, but its other calls may still reach the server.
Abandoned ==
    LET left == {c \in AllCalls : c.answer = "none" /\ c.kind \notin Harmless} IN
    HandedOver(left, "page", "gone") (+) HandedOver(left, "tab", "gone") (+) HandedOver(left, "gone", "gone")

\* The provider starts anew from localStorage; it asks who the user is only if there is a token.
Reload ==
    /\ Act
    /\ user' = stored /\ loading' = (token # None /\ stored = None)
    /\ calls' = IF token # None THEN Plus(Abandoned, Call("me", "none", 0, "tab")) ELSE Abandoned
    /\ UNCHANGED <<token, stored, route, server>>

-----------------------------------------------------------------------------

\* A token is never kept without its user: it is shown, or being asked for.
TokenHasUser ==
    token # None => user # None \/ \E c \in AllCalls : c.kind = "me" /\ c.owner = "tab"

=============================================================================
