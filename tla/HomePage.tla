------------------------------ MODULE HomePage ------------------------------
(***************************************************************************)
(* The dashboard: frontend/src/pages/HomePage.tsx in the session of        *)
(* AuthProvider.  It shows copies of the contract, of the cards and of a   *)
(* page of the history; a copy is the version the server had when it       *)
(* answered.  React renders, and runs effects, before it looks at the next *)
(* reply or click.                                                         *)
(***************************************************************************)
EXTENDS AuthProvider

CONSTANT Pages     \* how many pages the history has

ASSUME PagesAssumption == Pages \in Nat \ {0}

VARIABLES
    mounted,       \* RootRoute shows the page
    view,          \* what it shows, None before the first reply
    page,          \* the page of the history asked for
    versions,      \* server: the versions of the contract and of the cards
    strayed        \* history: the views that lost a reply, or got an older one later

homeVars == <<mounted, view, page, versions, strayed>>

Views  == {"sub", "cards", "history"}
Writes == {"subscribe", "change", "cancel", "register card", "delete card"}
ViewOf(kind) == CASE kind \in {"sub", "subscribe", "change", "cancel"} -> "sub"
                  [] kind \in {"cards", "register card", "delete card"} -> "cards"
                  [] kind = "history" -> "history"

Nothing == [v \in Views |-> None]

\* The version tells the state, too: v % 3 is 0 without a contract, 1 with one, 2 when its
\* cancellation is scheduled; v % 2 is 1 when there is a card.
Without(v) == v % 3 = 0
Running(v) == v % 3 = 1
Carded(v)  == v % 2 = 1

HomeInit ==
    /\ AuthInit
    /\ mounted = FALSE /\ view = Nothing /\ page = 1 /\ strayed = {}
    /\ versions \in [sub : 0..2, cards : {0}]

-----------------------------------------------------------------------------

\* RootRoute and RequireAuth.
Shown == route = "home" /\ user # None /\ ~loading
Rendered == mounted = Shown /\ ~(route = "account" /\ user = None /\ ~loading)

\* The flag of a task (submittingPlan, cancelling, cardSubmitting, deletingCardId): set until
\* its last call has been answered, and gone with the page.
TaskOf(kind) == IF kind \in {"subscribe", "change"} THEN "plan" ELSE kind
Busy(task) == \E c \in AllCalls : c.owner = "page" /\ c.task = task

FetchHistory(p, task, owner) == Call("history", task, p, owner)

\* The first render runs the effects that fetch everything.
Mount ==
    /\ ~mounted /\ Shown
    /\ mounted' = TRUE /\ view' = Nothing /\ page' = 1 /\ strayed' = {}
    /\ calls' = calls (+) SetToBag({Call("sub", "none", 0, "page"), Call("cards", "none", 0, "page"),
                                    FetchHistory(1, "none", "page")})
    /\ UNCHANGED <<session, server, counts, versions>>

\* The calls of the page go on without it.
Unmount ==
    /\ mounted /\ ~Shown
    /\ mounted' = FALSE
    /\ calls' = HandedOver(AllCalls, "page", "tab") (+) HandedOver(AllCalls, "tab", "tab")
                                                   (+) HandedOver(AllCalls, "gone", "gone")
    /\ UNCHANGED <<session, server, counts, view, page, versions, strayed>>

\* The buttons stay enabled on the first and the last page.
TurnPageUnbounded(p) ==
    /\ Act /\ mounted /\ view["history"] # None
    /\ \E next \in {page - 1, page + 1} :
          page' = next /\ calls' = Plus(calls, FetchHistory(next, "none", "page"))
    /\ view' = [view EXCEPT !["history"] = None]
    /\ UNCHANGED <<session, server, mounted, versions, strayed>>

\* The buttons are there while a page is shown; the effect of page drops it and fetches.
TurnPage(p) ==
    /\ Act /\ mounted /\ view["history"] # None
    /\ p \in {page - 1, page + 1} \cap 1..Pages
    /\ page' = p /\ view' = [view EXCEPT !["history"] = None]
    /\ calls' = Plus(calls, FetchHistory(p, "none", "page"))
    /\ UNCHANGED <<session, server, mounted, versions, strayed>>

\* Which buttons are there and enabled.
Clickable(kind) ==
    /\ ~Busy(TaskOf(kind))
    /\ CASE kind = "subscribe" -> (view["sub"] # None => Without(view["sub"])) /\ view["cards"] # None
         [] kind = "change" -> view["sub"] # None /\ Running(view["sub"]) /\ view["cards"] # None
         [] kind = "cancel" -> view["sub"] # None /\ Running(view["sub"])
         [] kind = "register card" -> TRUE
         [] kind = "delete card" -> view["cards"] # None /\ Carded(view["cards"])

\* The handler closes over the page of its render.
Click(kind) ==
    /\ Act /\ mounted /\ Clickable(kind)
    /\ calls' = Plus(calls, Call(kind, TaskOf(kind), page, "page"))
    /\ UNCHANGED <<session, server, homeVars>>

\* What a call may leave of version v: the API answers 409 to a second contract and to a change
\* of one that ends, 404 to what needs a contract or a card and finds none.  A cancellation is
\* scheduled or takes effect at once; one that is scheduled is left as it is.
Left(kind, v) ==
    CASE kind = "subscribe" -> IF Without(v) THEN {v + 1} ELSE {}
      [] kind = "change" -> IF Running(v) THEN {v + 3} ELSE {}
      [] kind = "cancel" -> IF Running(v) THEN {v + 1, v + 2} ELSE IF Without(v) THEN {} ELSE {v}
      [] kind = "register card" -> IF Carded(v) THEN {v + 2} ELSE {v + 1}
      [] kind = "delete card" -> IF Carded(v) THEN {v + 1, v + 2} ELSE {}
      [] OTHER -> {v}

Done(c) == c.kind \in Writes /\ Valid(c) /\ Left(c.kind, versions[ViewOf(c.kind)]) # {}

VersionsAfter(c) ==
    IF ~Done(c) THEN {versions}
    ELSE {[versions EXCEPT ![ViewOf(c.kind)] = v] : v \in Left(c.kind, versions[ViewOf(c.kind)])}

\* What it tells: the version it has then; of the history the page asked for, and not how old.
Told(c) == IF c.kind = "history" THEN c.arg ELSE versions'[ViewOf(c.kind)]

ServeHome(c) ==
    /\ InFlight(c) /\ c.answer = "none" /\ c.kind \notin SessionKinds
    /\ versions' \in VersionsAfter(c)
    /\ \/ ~Valid(c) /\ calls' = Answered(c, "unauthorized", 0)
       \/ Valid(c) /\ c.kind \in Writes /\ ~Done(c) /\ calls' = Answered(c, "error", 0)
       \/ Valid(c) /\ (c.kind \in Views \/ Done(c)) /\ calls' = Answered(c, "ok", Told(c))
    /\ strayed' = IF Done(c) /\ c.owner # "page" THEN strayed \cup {ViewOf(c.kind)} ELSE strayed
    /\ UNCHANGED <<session, server, counts, mounted, view, page>>

\* setError is all that happens.
Failed(c) ==
    /\ c.kind \notin SessionKinds /\ Delivered(c, {"error"})
    /\ calls' = Drop(c)
    /\ strayed' = IF c.owner = "page" THEN strayed \cup {ViewOf(c.kind)} ELSE strayed
    /\ UNCHANGED <<session, server, counts, mounted, view, page, versions>>

\* A copy that is older than the one it replaces.
Stale(v, c) == {v} \ {w \in {v} : w = "history" \/ view[w] = None \/ view[w] <= c.data}

\* refreshSubscription, refreshPlansAndCards, refreshHistory: the last reply is shown, in the
\* page that asked for it.
Fetched(c) ==
    /\ c.kind \in Views /\ Delivered(c, {"ok"})
    /\ IF c.owner # "page" THEN UNCHANGED <<view, strayed>> ELSE
          /\ view' = [view EXCEPT ![c.kind] = c.data]
          /\ strayed' = strayed \cup Stale(c.kind, c)
    /\ calls' = Drop(c)
    /\ UNCHANGED <<session, server, counts, mounted, page, versions>>

\* setPage(1), whose effect fetches unless the page is the first one; refreshHistory(1) if it
\* was when the button was clicked.
BackToFirst(c, rest, shown, stale) ==
    LET turns == c.owner = "page" /\ page # 1
        turned == IF turns THEN Plus(rest, FetchHistory(1, "none", "page")) ELSE rest
    IN  /\ page' = IF turns THEN 1 ELSE page
        /\ view' = IF turns THEN [shown EXCEPT !["history"] = None] ELSE shown
        /\ calls' = IF c.arg = 1 THEN Plus(turned, FetchHistory(1, c.task, c.owner)) ELSE turned
        /\ strayed' = strayed \cup stale

\* The contract is not fetched anew.
SubscribedOnly(c) ==
    /\ c.kind = "subscribe" /\ Delivered(c, {"ok"})
    /\ BackToFirst(c, Drop(c), view, {})
    /\ UNCHANGED <<session, server, counts, mounted, versions>>

Subscribed(c) ==
    /\ c.kind = "subscribe" /\ Delivered(c, {"ok"})
    /\ BackToFirst(c, Plus(Drop(c), Call("sub", c.task, 0, c.owner)), view, {})
    /\ UNCHANGED <<session, server, counts, mounted, versions>>

\* changePlan and confirmCancel show the reply itself.
Changed(c) ==
    /\ c.kind \in {"change", "cancel"} /\ Delivered(c, {"ok"})
    /\ IF c.owner = "page" THEN BackToFirst(c, Drop(c), [view EXCEPT !["sub"] = c.data], Stale("sub", c))
                           ELSE BackToFirst(c, Drop(c), view, {})
    /\ UNCHANGED <<session, server, counts, mounted, versions>>

\* onSubmitCard and confirmDeleteCard.
CardsChanged(c) ==
    /\ c.kind \in {"register card", "delete card"} /\ Delivered(c, {"ok"})
    /\ calls' = Plus(Drop(c), Call("cards", c.task, 0, c.owner))
    /\ UNCHANGED <<session, server, counts, homeVars>>

\* What the provider does while the page is there.
SessionStep ==
    \/ LogIn \/ LogOut
    \/ \E r \in Routes : Navigate(r)
    \/ \E t \in Tokens : Expire(t)
    \/ \E c \in AllCalls :
          \/ ServeSession(c) \/ NetworkFails(c) \/ Ignore(c)
          \/ Unauthorized(c) \/ Refresh(c) \/ LoggedIn(c) \/ LoggedOut(c)

Render == Mount \/ Unmount \/ (Redirect /\ UNCHANGED homeVars)

PageStep ==
    \/ \E p \in 1..Pages : TurnPage(p)
    \/ \E kind \in Writes : Click(kind)
    \/ \E c \in AllCalls :
          ServeHome(c) \/ Failed(c) \/ Fetched(c) \/ Subscribed(c) \/ Changed(c) \/ CardsChanged(c)

HomeNext ==
    \/ Render
    \/ Rendered /\ SessionStep /\ UNCHANGED homeVars
    \/ Rendered /\ Reload /\ mounted' = FALSE /\ UNCHANGED <<view, page, versions, strayed>>
    \/ Rendered /\ PageStep

HomeSpec == HomeInit /\ [][HomeNext]_<<authVars, homeVars>>

-----------------------------------------------------------------------------
(* Properties                                                              *)

CallType ==
    [kind : SessionKinds \cup Views \cup Writes,
     task : {"none", "plan", "cancel", "register card", "delete card"},
     arg : 0..Pages, owner : Owners, sent : Tokens \cup {None}, answer : Answers, data : Nat]

HomeTypeOK ==
    /\ {token, stored, user} \subseteq Tokens \cup {None}
    /\ loading \in BOOLEAN /\ mounted \in BOOLEAN
    /\ route \in Routes
    /\ IsABag(calls) /\ AllCalls \subseteq CallType
    /\ issued \in Tokens /\ expired \subseteq 1..issued
    /\ acts \in 0..MaxActs /\ fails \in 0..MaxFails
    /\ view \in [Views -> Nat \cup {None}] /\ page \in 1..Pages
    /\ versions \in [sub : Nat, cards : Nat] /\ strayed \subseteq Views

Quiet == Rendered /\ mounted /\ calls = EmptyBag

\* When every call has been answered, the contract and the cards shown are those of the server,
\* unless a reply was lost or overtaken: every handler fetches, or shows, what it changed.
ViewsCurrent ==
    Quiet => \A v \in {"sub", "cards"} \ strayed : view[v] = versions[v]

\* A refresh that is answered after the token was cleared shows a user again
\* (AuthProvider.tsx:18-21).  The dashboard does not last: a call that was refused, or will
\* be, is on its way back, unless the network has lost each view its calls.
NoTokenNoDashboard ==
    mounted /\ Shown /\ token = None =>
        \/ \E c \in AllCalls :
              c.owner # "gone" /\ (c.answer = "unauthorized" \/ (c.answer = "none" /\ ~Valid(c)))
        \/ \A v \in Views \ strayed :
              \E c \in AllCalls : c.owner = "page" /\ c.answer = "error" /\ ViewOf(c.kind) = v

=============================================================================
