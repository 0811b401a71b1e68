--------------------------- MODULE HomePageProofs ---------------------------
(***************************************************************************)
(* For any number of logins, clicks, expiries and lost calls: a token has  *)
(* its user, and the dashboard shows what the server has when it is at     *)
(* rest.  The argument is HomeInv: as long as a view differs from the      *)
(* server, a call of the page is under way that will repair it, or fail.   *)
(* Of the bag of calls the proofs use its domain only.                     *)
(***************************************************************************)
EXTENDS HomePage, TLAPS

PageKinds == Views \cup Writes
Versioned == {"sub", "cards"}

\* A page sends no calls about the session; what the server told of is what was asked for, or a
\* version it has had.
CallOK(c) ==
    /\ c.owner = "page" => mounted /\ c.kind \in PageKinds
    /\ c.answer = "ok" =>
          /\ c.kind \in {"me", "login"} => c.data \in Tokens
          /\ c.kind \in PageKinds /\ ViewOf(c.kind) \in Versioned => c.data <= versions[ViewOf(c.kind)]
          /\ c.kind \in PageKinds => c.sent # None

CallsOK == \A c \in AllCalls : CallOK(c)

\* A call of the page whose reply brings the view v up to date, or is lost to it.
Repairs(c, v) ==
    /\ c.owner = "page" /\ ViewOf(c.kind) = v
    /\ \/ c.answer \in {"unauthorized", "error"}
       \/ c.answer = "none" /\ c.kind = v
       \/ c.answer = "ok" /\ (c.kind \in {"subscribe", "register card", "delete card"} \/ c.data = versions[v])

\* A contract or cards that are not current are being repaired.
Repaired ==
    mounted /\ Shown => \A v \in Versioned \ strayed :
        view[v] = versions[v] \/ \E c \in AllCalls : Repairs(c, v)

\* Without a token each view still waits for a call that was sent without one.
Waits(c, v) ==
    c.owner = "page" /\ c.sent = None /\ ViewOf(c.kind) = v /\ c.answer # "ok"

RefusalsDue ==
    mounted /\ Shown /\ token = None => \A v \in Views \ strayed : \E c \in AllCalls : Waits(c, v)

\* The inductive invariant.
HomeInv ==
    HomeTypeOK /\ CallsOK /\ TokenHasUser /\ Repaired /\ RefusalsDue

-----------------------------------------------------------------------------
(* Bags of calls, by their elements.                                       *)

\* One more call is one more element.
LEMMA PlusElements ==
    ASSUME NEW bag, NEW c, IsABag(bag)
    PROVE  IsABag(Plus(bag, c)) /\ DOMAIN Plus(bag, c) = DOMAIN bag \cup {c}
  BY DEF IsABag, Plus, SetToBag, (+)

\* The other calls stay when one is delivered; a copy of it may, too.
LEMMA DropElements ==
    ASSUME IsABag(calls), NEW c \in AllCalls
    PROVE  IsABag(Drop(c)) /\ DOMAIN Drop(c) \subseteq AllCalls /\ AllCalls \ {c} \subseteq DOMAIN Drop(c)
  BY DEF IsABag, Drop, SetToBag, (-), AllCalls

LEMMA ReplaceElements ==
    ASSUME IsABag(calls), NEW c \in AllCalls, NEW d
    PROVE  /\ IsABag(Replace(c, d))
           /\ DOMAIN Replace(c, d) \subseteq AllCalls \cup {d}
           /\ (AllCalls \ {c}) \cup {d} \subseteq DOMAIN Replace(c, d)
<1>1. Replace(c, d) = Plus(Drop(c), d)
  BY DEF Replace, Plus
<1>2. IsABag(Drop(c)) /\ DOMAIN Drop(c) \subseteq AllCalls /\ AllCalls \ {c} \subseteq DOMAIN Drop(c)
  BY DropElements
<1>3. IsABag(Plus(Drop(c), d)) /\ DOMAIN Plus(Drop(c), d) = DOMAIN Drop(c) \cup {d}
  BY <1>2, PlusElements
<1> QED
  BY <1>1, <1>2, <1>3

LEMMA UnionElements ==
    ASSUME NEW a, NEW b, IsABag(a), IsABag(b)
    PROVE  IsABag(a (+) b) /\ DOMAIN (a (+) b) = DOMAIN a \cup DOMAIN b
  BY DEF IsABag, (+)

LEMMA HandedOverElements ==
    ASSUME HomeTypeOK, NEW set \in SUBSET AllCalls, NEW from \in Owners, NEW to \in Owners
    PROVE  /\ IsABag(HandedOver(set, from, to))
           /\ DOMAIN HandedOver(set, from, to) = {[d EXCEPT !.owner = to] : d \in {e \in set : e.owner = from}}
<1>1. SUFFICES ASSUME NEW d \in set, d.owner = from
               PROVE  [[d EXCEPT !.owner = to] EXCEPT !.owner = from] \in AllCalls
  BY <1>1 DEF HandedOver, HomeTypeOK, IsABag, AllCalls
<1>2. [[d EXCEPT !.owner = to] EXCEPT !.owner = from] = d
  BY <1>1 DEF HomeTypeOK, CallType
<1> QED
  BY <1>2

-----------------------------------------------------------------------------
(* What the steps have in common.                                          *)

\* The view that each kind of call is about.
LEMMA KindsOfViews ==
    /\ ViewOf("sub") = "sub" /\ ViewOf("subscribe") = "sub"
    /\ ViewOf("change") = "sub" /\ ViewOf("cancel") = "sub"
    /\ ViewOf("cards") = "cards" /\ ViewOf("register card") = "cards" /\ ViewOf("delete card") = "cards"
    /\ ViewOf("history") = "history"
    /\ \A kind \in PageKinds : ViewOf(kind) \in Views
    /\ \A kind \in Writes : ViewOf(kind) \in Versioned
  BY DEF ViewOf, PageKinds, Views, Writes, Versioned

\* What a write leaves is a version that is not an earlier one.
LEMMA LeftGrows ==
    ASSUME NEW kind, NEW v \in Nat
    PROVE  \A w \in Left(kind, v) : w \in Nat /\ v <= w
<1>1. Left(kind, v) \subseteq {v, v + 1, v + 2, v + 3}
  BY ZenonT(30) DEF Left
<1>2. \A w \in {v, v + 1, v + 2, v + 3} : w \in Nat /\ v <= w
  OBVIOUS
<1> QED
  BY <1>1, <1>2

\* Versions only grow, so that what a call was told of is still a version the server has had.
LEMMA OldCallsStayOK ==
    ASSUME HomeInv, mounted => mounted', versions' \in [sub : Nat, cards : Nat],
           \A v \in Versioned : versions[v] <= versions'[v],
           NEW c \in AllCalls
    PROVE  CallOK(c)'
<1>1. CallOK(c) /\ c \in CallType
  BY DEF HomeInv, CallsOK, HomeTypeOK
<1>2. c.kind \in PageKinds /\ ViewOf(c.kind) \in Versioned /\ c.data <= versions[ViewOf(c.kind)]
      => c.data <= versions'[ViewOf(c.kind)]
  <2>1. versions \in [sub : Nat, cards : Nat] /\ c.data \in Nat
    BY <1>1 DEF HomeInv, HomeTypeOK, CallType
  <2>2. \A v \in Versioned : versions[v] \in Nat /\ versions'[v] \in Nat
    BY <2>1 DEF Versioned
  <2> QED
    BY <2>1, <2>2
<1> QED
  BY <1>1, <1>2 DEF CallOK

\* A dashboard that is not there owes nothing.
LEMMA HiddenOwesNothing ==
    ASSUME ~mounted' \/ ~Shown'
    PROVE  Repaired' /\ RefusalsDue'
  BY DEF Repaired, RefusalsDue

\* A step of the session leaves the calls of the page alone.
LEMMA SessionLeavesPage ==
    ASSUME HomeInv, Rendered, UNCHANGED homeVars,
           \A c : c.owner = "page" => (c \in AllCalls' <=> c \in AllCalls),
           token' = token \/ token' # None \/ ~Shown'
    PROVE  Repaired' /\ RefusalsDue'
<1>1. CASE ~mounted' \/ ~Shown'
  BY <1>1, HiddenOwesNothing
<1>2. CASE mounted' /\ Shown'
  <2>1. mounted /\ Shown
    BY <1>2 DEF Rendered, homeVars
  <2>2. Repaired'
    <3>1. \A c, v : Repairs(c, v) => Repairs(c, v)'
      BY DEF Repairs, homeVars
    <3>2. \A v : (\E c \in AllCalls : Repairs(c, v)) => (\E c \in AllCalls' : Repairs(c, v)')
      BY <3>1 DEF Repairs
    <3>3. UNCHANGED <<view, versions, strayed>>
      BY DEF homeVars
    <3>4. \A v \in Versioned \ strayed : view[v] = versions[v] \/ \E c \in AllCalls : Repairs(c, v)
      BY <2>1 DEF HomeInv, Repaired
    <3> QED
      BY <3>2, <3>3, <3>4 DEF Repaired
  <2>3. RefusalsDue'
    BY <1>2, <2>1 DEF HomeInv, RefusalsDue, homeVars, Waits
  <2> QED
    BY <2>2, <2>3
<1> QED
  BY <1>1, <1>2

-----------------------------------------------------------------------------
(* The steps of the session.                                               *)

\* LogIn, LogOut: one more call of the tab.
LEMMA SessionCallKeepsHomeInv ==
    ASSUME HomeInv, Rendered, NEW kind \in {"login", "logout"}, Act,
           calls' = Plus(calls, Call(kind, "none", 0, "tab")),
           UNCHANGED <<session, server, homeVars>>
    PROVE  HomeInv'
<1> PICK c : c = Call(kind, "none", 0, "tab")
  OBVIOUS
<1>1. c \in CallType /\ c.kind = kind /\ c.owner = "tab" /\ c.answer = "none"
  <2>1. 0 \in 0..Pages /\ kind \in SessionKinds /\ "tab" \in Owners /\ HomeTypeOK
    BY PagesAssumption DEF HomeInv, SessionKinds, Owners
  <2> QED
    BY <2>1 DEF Call, HomeTypeOK, CallType, Answers
<1>2. IsABag(calls') /\ AllCalls' = AllCalls \cup {c}
  BY PlusElements DEF HomeInv, HomeTypeOK, AllCalls
<1>3. HomeTypeOK'
  BY <1>1, <1>2, BrowserAssumption DEF HomeInv, HomeTypeOK, Act, session, server, homeVars
<1>4. CallsOK'
  <2>1. \A d \in AllCalls : CallOK(d)'
    BY OldCallsStayOK, <1>3 DEF homeVars, HomeTypeOK, HomeInv, Versioned
  <2>2. CallOK(c)'
    BY <1>1 DEF CallOK
  <2> QED
    BY <1>2, <2>1, <2>2 DEF CallsOK
<1>5. TokenHasUser'
  BY <1>2 DEF HomeInv, TokenHasUser, session
<1>6. Repaired' /\ RefusalsDue'
  BY <1>1, <1>2, SessionLeavesPage DEF session
<1> QED
  BY <1>3, <1>4, <1>5, <1>6 DEF HomeInv

\* Navigate, Expire, Redirect: the calls stay as they are.
LEMMA NoCallKeepsHomeInv ==
    ASSUME HomeInv, UNCHANGED <<token, stored, user, loading, calls, issued, homeVars>>,
           route' \in Routes, expired' \subseteq 1..issued, acts' \in 0..MaxActs, UNCHANGED fails,
           Rendered \/ ~Shown'
    PROVE  HomeInv'
<1>1. HomeTypeOK'
  BY DEF HomeInv, HomeTypeOK, homeVars, AllCalls
<1>2. CallsOK'
  <2>1. \A d \in AllCalls : CallOK(d)'
    BY OldCallsStayOK, <1>1 DEF homeVars, HomeTypeOK, HomeInv, Versioned
  <2> QED
    BY <2>1 DEF CallsOK, AllCalls
<1>3. TokenHasUser'
  BY DEF HomeInv, TokenHasUser, AllCalls
<1>4. Repaired' /\ RefusalsDue'
  BY SessionLeavesPage, HiddenOwesNothing DEF AllCalls
<1> QED
  BY <1>1, <1>2, <1>3, <1>4 DEF HomeInv

\* The server answers a call of the session.
LEMMA ServeSessionKeepsHomeInv ==
    ASSUME HomeInv, Rendered, NEW c \in AllCalls, ServeSession(c), UNCHANGED homeVars
    PROVE  HomeInv'
<1>1. PICK answer \in {"ok", "unauthorized"}, data \in Nat :
         /\ calls' = Answered(c, answer, data)
         /\ answer = "ok" /\ c.kind \in {"me", "login"} => data \in Tokens
         /\ issued' \in Tokens /\ issued <= issued'
  <2>1. c.kind # "login" /\ Valid(c) => c.sent \in Tokens /\ c.sent \in Nat
    <3>1. c.sent \in Tokens \cup {None}
      BY DEF HomeInv, HomeTypeOK, CallType
    <3> QED
      BY <3>1, BrowserAssumption DEF Valid, Tokens
  <2>2. issued \in Tokens /\ issued \in Nat /\ 0 \in Nat
    BY BrowserAssumption DEF HomeInv, HomeTypeOK, Tokens
  <2>3. issued < MaxTokens => issued + 1 \in Tokens /\ issued + 1 \in Nat
    BY <2>2, BrowserAssumption DEF Tokens
  <2> QED
    BY <2>1, <2>2, <2>3 DEF ServeSession
<1> PICK d : d = [c EXCEPT !.answer = answer, !.data = data]
  OBVIOUS
<1>2. c \in CallType /\ c.kind \in SessionKinds
  BY DEF HomeInv, HomeTypeOK, ServeSession
<1>3. /\ d \in CallType /\ d.answer = answer /\ d.data = data
      /\ d.kind = c.kind /\ d.arg = c.arg /\ d.owner = c.owner /\ d.sent = c.sent
  <2>1. answer \in Answers
    BY DEF Answers
  <2> QED
    BY <1>2, <2>1 DEF CallType, Answers
<1>4. /\ IsABag(calls') /\ AllCalls' \subseteq AllCalls \cup {d}
      /\ (AllCalls \ {c}) \cup {d} \subseteq AllCalls'
  BY <1>1, ReplaceElements DEF HomeInv, HomeTypeOK, AllCalls, Answered
<1>5. HomeTypeOK'
  <2>1. expired' \subseteq 1..issued'
    BY <1>1, BrowserAssumption DEF HomeInv, HomeTypeOK, ServeSession, Tokens
  <2> QED
    BY <1>1, <1>3, <1>4, <2>1 DEF HomeInv, HomeTypeOK, ServeSession, session, counts, homeVars
<1>6. c.owner # "page" /\ c.kind \notin PageKinds
  BY <1>2 DEF HomeInv, CallsOK, CallOK, SessionKinds, PageKinds, Views, Writes
<1>7. CallsOK'
  <2>1. \A e \in AllCalls : CallOK(e)'
    BY OldCallsStayOK, <1>5 DEF homeVars, HomeTypeOK, HomeInv, Versioned
  <2>2. CallOK(d)'
    BY <1>1, <1>2, <1>3, <1>6 DEF CallOK, SessionKinds
  <2> QED
    BY <1>4, <2>1, <2>2 DEF CallsOK
<1>8. TokenHasUser'
  BY <1>3, <1>4 DEF HomeInv, TokenHasUser, ServeSession, session
<1>9. Repaired' /\ RefusalsDue'
  BY <1>3, <1>4, <1>6, SessionLeavesPage DEF ServeSession, session
<1> QED
  BY <1>5, <1>7, <1>8, <1>9 DEF HomeInv

\* NetworkFails, and ServeHome when it refuses: a call is answered without success.
LEMMA RefusedKeepsHomeInv ==
    ASSUME HomeInv, NEW c \in AllCalls, NEW answer \in {"unauthorized", "error"},
           calls' = Answered(c, answer, 0),
           UNCHANGED <<session, server, acts, homeVars>>, fails' \in 0..MaxFails
    PROVE  HomeInv'
<1> PICK d : d = [c EXCEPT !.answer = answer, !.data = 0]
  OBVIOUS
<1>1. /\ d \in CallType /\ d.answer = answer
      /\ d.kind = c.kind /\ d.arg = c.arg /\ d.owner = c.owner /\ d.sent = c.sent
  BY DEF HomeInv, HomeTypeOK, CallType, Answers
<1>2. /\ IsABag(calls') /\ AllCalls' \subseteq AllCalls \cup {d}
      /\ (AllCalls \ {c}) \cup {d} \subseteq AllCalls'
  BY ReplaceElements DEF HomeInv, HomeTypeOK, AllCalls, Answered
<1>3. HomeTypeOK'
  BY <1>1, <1>2 DEF HomeInv, HomeTypeOK, session, server, homeVars
<1>4. CallsOK'
  <2>1. \A e \in AllCalls : CallOK(e)'
    BY OldCallsStayOK, <1>3 DEF homeVars, HomeTypeOK, HomeInv, Versioned
  <2>2. CallOK(c) /\ UNCHANGED <<mounted, versions>>
    BY DEF HomeInv, CallsOK, homeVars
  <2>3. CallOK(d)'
    BY <1>1, <2>2 DEF CallOK
  <2> QED
    BY <1>2, <2>1, <2>3 DEF CallsOK
<1>5. TokenHasUser'
  BY <1>1, <1>2 DEF HomeInv, TokenHasUser, session
<1>6. mounted' /\ Shown' => mounted /\ Shown
  BY DEF Shown, session, homeVars
<1>7. Repaired'
  <2>1. \A e, v : e \in AllCalls /\ Repairs(e, v) => \E f \in AllCalls' : Repairs(f, v)'
    <3>1. SUFFICES ASSUME NEW e \in AllCalls, NEW v, Repairs(e, v)
                   PROVE  \E f \in AllCalls' : Repairs(f, v)'
      OBVIOUS
    <3>2. CASE e = c
      BY <1>1, <1>2, <3>1, <3>2 DEF Repairs
    <3>3. CASE e # c
      BY <1>2, <3>1, <3>3 DEF Repairs, homeVars
    <3> QED
      BY <3>2, <3>3
  <2> QED
    BY <1>6, <2>1 DEF HomeInv, Repaired, homeVars
<1>8. RefusalsDue'
  <2>1. \A e, v : e \in AllCalls /\ Waits(e, v) => \E f \in AllCalls' : Waits(f, v)
    <3>1. \A v : Waits(c, v) => Waits(d, v)
      BY <1>1 DEF Waits
    <3> QED
      BY <1>2, <3>1
  <2> QED
    BY <1>6, <2>1 DEF HomeInv, RefusalsDue, homeVars, session, Waits
<1> QED
  BY <1>3, <1>4, <1>5, <1>7, <1>8 DEF HomeInv

\* Ignore, Unauthorized, Refresh, LoggedIn, LoggedOut: the reply of a call that no page is
\* waiting for, or that ends the dashboard.
LEMMA DeliveryKeepsHomeInv ==
    ASSUME HomeInv, Rendered, NEW c \in AllCalls, calls' = Drop(c),
           {token', stored', user'} \subseteq Tokens \cup {None},
           loading' \in BOOLEAN, route' \in Routes, UNCHANGED <<server, counts, homeVars>>,
           token' = token \/ token' # None \/ ~Shown',
           c.owner = "page" => ~Shown',
           token' = None \/ user' # None \/ (UNCHANGED <<token, user>> /\ ~(c.kind = "me" /\ c.owner = "tab"))
    PROVE  HomeInv'
<1>1. IsABag(calls') /\ AllCalls' \subseteq AllCalls /\ AllCalls \ {c} \subseteq AllCalls'
  BY DropElements DEF HomeInv, HomeTypeOK, AllCalls
<1>2. HomeTypeOK'
  BY <1>1 DEF HomeInv, HomeTypeOK, server, counts, homeVars
<1>3. CallsOK'
  <2>1. \A e \in AllCalls : CallOK(e)'
    BY OldCallsStayOK, <1>2 DEF homeVars, HomeTypeOK, HomeInv, Versioned
  <2> QED
    BY <1>1, <2>1 DEF CallsOK
<1>4. TokenHasUser'
  BY <1>1 DEF HomeInv, TokenHasUser
<1>5. Repaired' /\ RefusalsDue'
  BY <1>1, SessionLeavesPage, HiddenOwesNothing
<1> QED
  BY <1>2, <1>3, <1>4, <1>5 DEF HomeInv

\* The five actions that look at the reply of a call about the session.
LEMMA RepliesKeepHomeInv ==
    ASSUME HomeInv, Rendered, NEW c \in AllCalls, UNCHANGED homeVars,
           Ignore(c) \/ Unauthorized(c) \/ Refresh(c) \/ LoggedIn(c) \/ LoggedOut(c)
    PROVE  HomeInv'
<1>1. c \in CallType /\ CallOK(c) /\ None \notin Tokens /\ HomeTypeOK
  BY BrowserAssumption DEF HomeInv, HomeTypeOK, CallsOK, Tokens
<1>2. c.kind \in {"me", "login"} /\ c.answer = "ok" => c.data \in Tokens
  BY <1>1 DEF CallOK
<1>3. c.owner = "page" => c.kind \notin SessionKinds
  BY <1>1 DEF CallOK, PageKinds, SessionKinds, Views, Writes
<1>4. CASE Ignore(c)
  BY <1>1, <1>4, DeliveryKeepsHomeInv DEF Ignore, session, server, HomeTypeOK
<1>5. CASE Unauthorized(c)
  BY <1>1, <1>5, DeliveryKeepsHomeInv DEF Unauthorized, ClearToken, HomeTypeOK, Shown, Routes
<1>6. CASE Refresh(c)
  BY <1>1, <1>2, <1>3, <1>6, DeliveryKeepsHomeInv
     DEF Refresh, Delivered, ClearToken, HomeTypeOK, Shown, SessionKinds
<1>7. CASE LoggedIn(c)
  BY <1>1, <1>2, <1>3, <1>7, DeliveryKeepsHomeInv
     DEF LoggedIn, Delivered, HomeTypeOK, SessionKinds, Routes
<1>8. CASE LoggedOut(c)
  BY <1>1, <1>8, DeliveryKeepsHomeInv DEF LoggedOut, ClearToken, HomeTypeOK, Shown, Routes
<1> QED
  BY <1>4, <1>5, <1>6, <1>7, <1>8

-----------------------------------------------------------------------------
(* Rendering, and a new start.                                             *)

\* The effects of the first render ask for every view.
LEMMA MountKeepsHomeInv ==
    ASSUME HomeInv, Mount
    PROVE  HomeInv'
<1> PICK s : s = Call("sub", "none", 0, "page")
  OBVIOUS
<1> PICK k : k = Call("cards", "none", 0, "page")
  OBVIOUS
<1> PICK h : h = FetchHistory(1, "none", "page")
  OBVIOUS
<1>1. 0 \in 0..Pages /\ 1 \in 0..Pages /\ 1 \in 1..Pages /\ HomeTypeOK
  BY PagesAssumption DEF HomeInv
<1>2. /\ {s, k, h} \subseteq CallType
      /\ s.kind = "sub" /\ k.kind = "cards" /\ h.kind = "history" /\ h.arg = 1
      /\ \A d \in {s, k, h} : d.owner = "page" /\ d.sent = token /\ d.answer = "none"
  <2>1. s \in CallType /\ s.kind = "sub" /\ s.owner = "page" /\ s.sent = token /\ s.answer = "none"
    BY <1>1 DEF Call, HomeTypeOK, CallType, Answers, Owners, Views
  <2>2. k \in CallType /\ k.kind = "cards" /\ k.owner = "page" /\ k.sent = token /\ k.answer = "none"
    BY <1>1 DEF Call, HomeTypeOK, CallType, Answers, Owners, Views
  <2>3. /\ h \in CallType /\ h.kind = "history" /\ h.arg = 1
        /\ h.owner = "page" /\ h.sent = token /\ h.answer = "none"
    BY <1>1 DEF FetchHistory, Call, HomeTypeOK, CallType, Answers, Owners, Views
  <2> QED
    BY <2>1, <2>2, <2>3
<1>3. IsABag(calls') /\ AllCalls' = AllCalls \cup {s, k, h}
  <2>1. IsABag(SetToBag({s, k, h})) /\ DOMAIN SetToBag({s, k, h}) = {s, k, h}
    BY DEF IsABag, SetToBag
  <2>2. calls' = calls (+) SetToBag({s, k, h})
    BY DEF Mount
  <2> QED
    BY <1>1, <2>1, <2>2, UnionElements DEF HomeTypeOK, AllCalls
<1>4. HomeTypeOK'
  BY <1>1, <1>2, <1>3 DEF HomeTypeOK, Mount, session, server, counts, Nothing
<1>5. CallsOK'
  <2>1. \A e \in AllCalls : CallOK(e)'
    BY OldCallsStayOK, <1>4 DEF Mount, HomeTypeOK, HomeInv, Versioned
  <2>2. \A d \in {s, k, h} : CallOK(d)'
    BY <1>2 DEF CallOK, Mount, PageKinds, Views
  <2> QED
    BY <1>3, <2>1, <2>2 DEF CallsOK
<1>6. TokenHasUser'
  BY <1>3 DEF HomeInv, TokenHasUser, Mount, session
<1>7. ~mounted /\ \A d \in AllCalls : d.owner # "page"
  BY DEF HomeInv, CallsOK, CallOK, Mount
<1>8. Repaired'
  <2>1. Repairs(s, "sub")' /\ Repairs(k, "cards")'
    BY <1>2, KindsOfViews DEF Repairs
  <2> QED
    BY <1>3, <2>1 DEF Repaired, Versioned
<1>9. RefusalsDue'
  <2>1. token = None => Waits(s, "sub") /\ Waits(k, "cards") /\ Waits(h, "history")
    BY <1>2, KindsOfViews DEF Waits
  <2> QED
    BY <1>3, <2>1 DEF RefusalsDue, Views, Mount, session, Waits
<1> QED
  BY <1>4, <1>5, <1>6, <1>8, <1>9 DEF HomeInv

\* The page that is left has no calls of its own any more.
LEMMA UnmountKeepsHomeInv ==
    ASSUME HomeInv, Unmount
    PROVE  HomeInv'
<1>1. HomeTypeOK /\ {"page", "tab", "gone"} = Owners /\ \A d \in AllCalls : d \in CallType /\ CallOK(d)
  BY DEF HomeInv, HomeTypeOK, CallsOK, Owners
<1> DEFINE handed == {[d EXCEPT !.owner = "tab"] : d \in {e \in AllCalls : e.owner = "page"}}
           kept(owner) == {[d EXCEPT !.owner = owner] : d \in {e \in AllCalls : e.owner = owner}}
<1>2. IsABag(calls') /\ AllCalls' = handed \cup kept("tab") \cup kept("gone")
  <2>1. IsABag(HandedOver(AllCalls, "page", "tab")) /\ DOMAIN HandedOver(AllCalls, "page", "tab") = handed
    BY <1>1, HandedOverElements
  <2>2. IsABag(HandedOver(AllCalls, "tab", "tab")) /\ DOMAIN HandedOver(AllCalls, "tab", "tab") = kept("tab")
    BY <1>1, HandedOverElements
  <2>3. IsABag(HandedOver(AllCalls, "gone", "gone")) /\ DOMAIN HandedOver(AllCalls, "gone", "gone") = kept("gone")
    BY <1>1, HandedOverElements
  <2> PICK a, b, c : /\ a = HandedOver(AllCalls, "page", "tab")
                     /\ b = HandedOver(AllCalls, "tab", "tab") /\ c = HandedOver(AllCalls, "gone", "gone")
    OBVIOUS
  <2>4. IsABag(a (+) b (+) c) /\ DOMAIN (a (+) b (+) c) = handed \cup kept("tab") \cup kept("gone")
    <3>1. IsABag(a) /\ IsABag(b) /\ IsABag(c)
      BY <2>1, <2>2, <2>3
    <3>2. IsABag(a (+) b) /\ DOMAIN (a (+) b) = DOMAIN a \cup DOMAIN b
      BY <3>1, UnionElements
    <3>3. IsABag((a (+) b) (+) c) /\ DOMAIN ((a (+) b) (+) c) = DOMAIN (a (+) b) \cup DOMAIN c
      BY <3>1, <3>2, UnionElements
    <3> HIDE DEF handed, kept
    <3> QED
      BY <2>1, <2>2, <2>3, <3>2, <3>3
  <2>5. calls' = a (+) b (+) c
    BY DEF Unmount
  <2> QED
    BY <2>4, <2>5 DEF AllCalls
<1>3. \A c \in AllCalls' : \E d \in AllCalls :
         /\ c \in CallType /\ c.owner \in {"tab", "gone"}
         /\ c.kind = d.kind /\ c.arg = d.arg /\ c.sent = d.sent /\ c.answer = d.answer /\ c.data = d.data
  <2>1. SUFFICES ASSUME NEW c \in AllCalls'
                 PROVE  \E d \in AllCalls :
                           /\ c \in CallType /\ c.owner \in {"tab", "gone"}
                           /\ c.kind = d.kind /\ c.arg = d.arg /\ c.sent = d.sent
                           /\ c.answer = d.answer /\ c.data = d.data
    OBVIOUS
  <2>2. PICK d \in AllCalls, owner \in {"tab", "gone"} : c = [d EXCEPT !.owner = owner]
    BY <1>2
  <2> QED
    BY <1>1, <2>2 DEF CallType, Owners
<1>4. HomeTypeOK'
  BY <1>1, <1>2, <1>3 DEF HomeTypeOK, Unmount, session, server, counts
<1>5. CallsOK'
  BY <1>1, <1>3 DEF CallsOK, CallOK, Unmount
<1>6. TokenHasUser'
  <2>1. \A d \in AllCalls : d.owner = "tab" => d \in kept("tab")
    BY <1>1 DEF CallType
  <2> QED
    BY <1>2, <2>1 DEF HomeInv, TokenHasUser, Unmount, session
<1> QED
  BY <1>4, <1>5, <1>6, HiddenOwesNothing DEF HomeInv, Unmount

\* A reload leaves calls that nobody hears the replies to, and asks who the user is.
LEMMA ReloadKeepsHomeInv ==
    ASSUME HomeInv, Reload, mounted' = FALSE, UNCHANGED <<view, page, versions, strayed>>
    PROVE  HomeInv'
<1> PICK left : left = {c \in AllCalls : c.answer = "none" /\ c.kind \notin Harmless}
  OBVIOUS
<1> PICK me : me = Call("me", "none", 0, "tab")
  OBVIOUS
<1>1. /\ HomeTypeOK /\ {"page", "tab", "gone"} = Owners /\ left \in SUBSET AllCalls
      /\ \A d \in left : d \in CallType /\ d.answer = "none"
  BY DEF HomeInv, HomeTypeOK, Owners
<1> DEFINE handed(owner) == {[d EXCEPT !.owner = "gone"] : d \in {e \in left : e.owner = owner}}
<1>2. IsABag(Abandoned) /\ DOMAIN Abandoned = handed("page") \cup handed("tab") \cup handed("gone")
  <2>1. \A owner \in Owners : /\ IsABag(HandedOver(left, owner, "gone"))
                              /\ DOMAIN HandedOver(left, owner, "gone") = handed(owner)
    BY <1>1, HandedOverElements
  <2> PICK a, b, c : /\ a = HandedOver(left, "page", "gone")
                     /\ b = HandedOver(left, "tab", "gone") /\ c = HandedOver(left, "gone", "gone")
    OBVIOUS
  <2> HIDE DEF handed
  <2>2. /\ IsABag(a) /\ DOMAIN a = handed("page") /\ IsABag(b) /\ DOMAIN b = handed("tab")
        /\ IsABag(c) /\ DOMAIN c = handed("gone")
    BY <1>1, <2>1
  <2>3. IsABag(a (+) b (+) c)
        /\ DOMAIN (a (+) b (+) c) = handed("page") \cup handed("tab") \cup handed("gone")
    <3>1. IsABag(a) /\ IsABag(b) /\ IsABag(c)
      BY <2>2
    <3>2. PICK ab : ab = a (+) b
      OBVIOUS
    <3>3. IsABag(ab) /\ DOMAIN ab = DOMAIN a \cup DOMAIN b
      BY <3>1, <3>2, UnionElements
    <3>4. IsABag(ab (+) c) /\ DOMAIN (ab (+) c) = DOMAIN ab \cup DOMAIN c
      BY <3>1, <3>3, UnionElements
    <3>5. DOMAIN (ab (+) c) = handed("page") \cup handed("tab") \cup handed("gone")
      BY <2>2, <3>3, <3>4
    <3> QED
      BY <3>2, <3>4, <3>5
  <2>4. Abandoned = a (+) b (+) c
    BY DEF Abandoned
  <2> QED
    BY <2>3, <2>4
<1>3. me \in CallType /\ me.kind = "me" /\ me.owner = "tab" /\ me.answer = "none"
  <2>1. 0 \in 0..Pages
    BY PagesAssumption
  <2> QED
    BY <1>1, <2>1 DEF Call, HomeTypeOK, CallType, Answers, Owners, SessionKinds
<1>4. /\ IsABag(calls') /\ AllCalls' \subseteq DOMAIN Abandoned \cup {me}
      /\ token # None => me \in AllCalls'
  <2>1. IsABag(Plus(Abandoned, me)) /\ DOMAIN Plus(Abandoned, me) = DOMAIN Abandoned \cup {me}
    BY <1>2, PlusElements
  <2> QED
    BY <1>2, <2>1 DEF Reload, AllCalls
<1>5. \A c \in AllCalls' : c \in CallType /\ c.owner # "page" /\ c.answer = "none"
  <2>1. SUFFICES ASSUME NEW c \in DOMAIN Abandoned
                 PROVE  c \in CallType /\ c.owner = "gone" /\ c.answer = "none"
    BY <1>3, <1>4
  <2>2. PICK d \in left : c = [d EXCEPT !.owner = "gone"]
    BY <1>2
  <2> QED
    BY <1>1, <2>2 DEF CallType, Owners
<1>6. HomeTypeOK'
  <2>1. loading' \in BOOLEAN
    BY DEF Reload
  <2>2. acts' \in 0..MaxActs /\ fails' = fails
    BY <1>1, BrowserAssumption DEF HomeTypeOK, Reload, Act
  <2> QED
    BY <1>1, <1>4, <1>5, <2>1, <2>2 DEF HomeTypeOK, Reload, server
<1>7. CallsOK'
  BY <1>5 DEF CallsOK, CallOK
<1>8. TokenHasUser'
  BY <1>3, <1>4 DEF TokenHasUser, Reload
<1> QED
  BY <1>6, <1>7, <1>8, HiddenOwesNothing DEF HomeInv

-----------------------------------------------------------------------------
(* The steps of the page.                                                  *)

\* What every step of the page that leaves the server alone has to show: a view that was
\* current still is, and a call that owed a view something is followed by another one.
LEMMA DebtsAreKept ==
    ASSUME HomeInv, UNCHANGED <<session, mounted, versions>>, strayed \subseteq strayed',
           \A v \in Versioned \ strayed' : view[v] = versions[v] => view'[v] = versions[v],
           \A v \in Versioned \ strayed', c \in AllCalls :
              Repairs(c, v) => view'[v] = versions[v] \/ \E d \in AllCalls' : Repairs(d, v),
           \A v \in Views \ strayed', c \in AllCalls : Waits(c, v) => \E d \in AllCalls' : Waits(d, v)
    PROVE  Repaired' /\ RefusalsDue'
<1>1. SUFFICES ASSUME mounted, Shown
               PROVE  Repaired' /\ RefusalsDue'
  BY HiddenOwesNothing DEF Shown, session
<1>2. Repaired'
  <2>1. \A d, v : Repairs(d, v) <=> Repairs(d, v)'
    BY DEF Repairs
  <2>2. \A v \in Versioned \ strayed : view[v] = versions[v] \/ \E c \in AllCalls : Repairs(c, v)
    BY <1>1 DEF HomeInv, Repaired
  <2>3. \A v \in Versioned \ strayed' : view'[v] = versions[v] \/ \E d \in AllCalls' : Repairs(d, v)
    BY <2>2
  <2> QED
    BY <2>1, <2>3 DEF Repaired
<1>3. RefusalsDue'
  <2>1. token = None => \A v \in Views \ strayed : \E c \in AllCalls : Waits(c, v)
    BY <1>1 DEF HomeInv, RefusalsDue
  <2>2. \A d, v : Waits(d, v) <=> Waits(d, v)'
    BY DEF Waits
  <2> QED
    BY <2>1, <2>2 DEF RefusalsDue, session
<1> QED
  BY <1>2, <1>3

\* The rest of the invariant, when the calls that are new are ordinary ones.
LEMMA NewCallsKeepTypes ==
    ASSUME HomeInv, UNCHANGED <<token, stored, user, loading, mounted, versions, server>>,
           IsABag(calls'), route' \in Routes, acts' \in 0..MaxActs, fails' \in 0..MaxFails,
           view' \in [Views -> Nat \cup {None}], page' \in 1..Pages, strayed' \subseteq Views,
           \A d \in AllCalls' : d \notin AllCalls =>
              /\ d \in CallType /\ d.answer = "none"
              /\ d.owner = "page" => mounted /\ d.kind \in PageKinds,
           \A d \in AllCalls : d.kind = "me" => d \in AllCalls'
    PROVE  HomeTypeOK' /\ CallsOK' /\ TokenHasUser'
<1>1. HomeTypeOK'
  BY DEF HomeInv, HomeTypeOK, server
<1>2. CallsOK'
  <2>1. \A e \in AllCalls : CallOK(e)'
    BY OldCallsStayOK, <1>1 DEF HomeTypeOK, HomeInv, Versioned
  <2>2. \A d \in AllCalls' : d \notin AllCalls => CallOK(d)'
    BY DEF CallOK
  <2> QED
    BY <2>1, <2>2 DEF CallsOK
<1>3. TokenHasUser'
  BY DEF HomeInv, TokenHasUser
<1> QED
  BY <1>1, <1>2, <1>3

\* TurnPage: the page and its fetch change together.
LEMMA TurnPageKeepsHomeInv ==
    ASSUME HomeInv, NEW p \in 1..Pages, TurnPage(p)
    PROVE  HomeInv'
<1> PICK h : h = FetchHistory(p, "none", "page")
  OBVIOUS
<1>1. HomeTypeOK /\ p \in 0..Pages /\ acts' \in 0..MaxActs
  BY PagesAssumption, BrowserAssumption DEF HomeInv, HomeTypeOK, TurnPage, Act
<1>2. h \in CallType /\ h.kind = "history" /\ h.arg = p /\ h.owner = "page" /\ h.answer = "none"
  BY <1>1 DEF FetchHistory, Call, HomeTypeOK, CallType, Answers, Owners, Views
<1>3. IsABag(calls') /\ AllCalls' = AllCalls \cup {h}
  BY <1>1, PlusElements DEF HomeTypeOK, AllCalls, TurnPage
<1>4. /\ view' \in [Views -> Nat \cup {None}] /\ \A v \in Versioned : view'[v] = view[v]
      /\ strayed' \subseteq Views /\ strayed \subseteq strayed'
  BY <1>1 DEF HomeTypeOK, TurnPage, Views, Versioned
<1>5. HomeTypeOK' /\ CallsOK' /\ TokenHasUser'
  <2>1. route' \in Routes /\ fails' \in 0..MaxFails /\ page' \in 1..Pages
    BY <1>1 DEF HomeTypeOK, TurnPage, Act, session
  <2> QED
    BY <1>1, <1>2, <1>3, <1>4, <2>1, NewCallsKeepTypes DEF TurnPage, session, PageKinds, Views
<1>6. Repaired' /\ RefusalsDue'
  <2>1. /\ \A v \in Versioned : view[v] = versions[v] => view'[v] = versions[v]
        /\ UNCHANGED <<session, mounted, versions>>
    BY <1>4 DEF TurnPage
  <2> QED
    BY <1>3, <1>4, <2>1, DebtsAreKept
<1> QED
  BY <1>5, <1>6 DEF HomeInv

\* Click: one more call of the page.
LEMMA ClickKeepsHomeInv ==
    ASSUME HomeInv, NEW kind \in Writes, Click(kind)
    PROVE  HomeInv'
<1> PICK c : c = Call(kind, TaskOf(kind), page, "page")
  OBVIOUS
<1>1. HomeTypeOK /\ acts' \in 0..MaxActs /\ page \in 0..Pages
  BY PagesAssumption, BrowserAssumption DEF HomeInv, HomeTypeOK, Click, Act
<1>2. c \in CallType /\ c.kind = kind /\ c.owner = "page" /\ c.answer = "none"
  <2>1. TaskOf(kind) \in {"none", "plan", "cancel", "register card", "delete card"}
    BY DEF TaskOf, Writes
  <2> QED
    BY <1>1, <2>1 DEF Call, HomeTypeOK, CallType, Answers, Owners
<1>3. IsABag(calls') /\ AllCalls' = AllCalls \cup {c}
  BY <1>1, PlusElements DEF HomeTypeOK, AllCalls, Click
<1>4. UNCHANGED <<session, server, mounted, view, page, versions, strayed>> /\ mounted /\ fails' = fails
  BY DEF Click, homeVars, Act
<1>5. HomeTypeOK' /\ CallsOK' /\ TokenHasUser'
  BY <1>1, <1>2, <1>3, <1>4, NewCallsKeepTypes DEF HomeTypeOK, session, PageKinds
<1>6. Repaired' /\ RefusalsDue'
  BY <1>3, <1>4, DebtsAreKept
<1> QED
  BY <1>5, <1>6 DEF HomeInv

\* ServeHome, when it grants the call.
LEMMA GrantedKeepsHomeInv ==
    ASSUME HomeInv, Rendered, NEW c \in AllCalls, ServeHome(c), Valid(c),
           calls' = Answered(c, "ok", Told(c)), c.kind \in Views \/ Done(c)
    PROVE  HomeInv'
<1> PICK d : d = [c EXCEPT !.answer = "ok", !.data = Told(c)]
  OBVIOUS
<1>1. HomeTypeOK /\ c \in CallType /\ CallOK(c) /\ c.kind \in PageKinds /\ c.answer = "none"
  BY DEF HomeInv, CallsOK, HomeTypeOK, ServeHome, CallType, PageKinds
<1>2. /\ versions' \in [sub : Nat, cards : Nat] /\ \A v \in Versioned : versions[v] <= versions'[v]
      /\ \A v \in Versioned : ~(Done(c) /\ ViewOf(c.kind) = v) => versions'[v] = versions[v]
  <2>1. versions' \in VersionsAfter(c) /\ versions \in [sub : Nat, cards : Nat]
    BY <1>1 DEF ServeHome, HomeTypeOK
  <2>2. CASE ~Done(c)
    BY <2>1, <2>2 DEF VersionsAfter, Versioned
  <2>3. CASE Done(c)
    <3>1. ViewOf(c.kind) \in {"sub", "cards"} /\ versions[ViewOf(c.kind)] \in Nat
      BY <2>1, <2>3, KindsOfViews DEF Done, Versioned
    <3>2. PICK w \in Left(c.kind, versions[ViewOf(c.kind)]) :
             versions' = [versions EXCEPT ![ViewOf(c.kind)] = w]
      BY <2>1, <2>3 DEF VersionsAfter
    <3>3. w \in Nat /\ versions[ViewOf(c.kind)] <= w
      BY <3>1, <3>2, LeftGrows
    <3>4. versions' \in [sub : Nat, cards : Nat]
      BY <2>1, <3>1, <3>2, <3>3
    <3>5. \A v \in Versioned : versions'[v] = IF v = ViewOf(c.kind) THEN w ELSE versions[v]
      BY <2>1, <3>1, <3>2 DEF Versioned
    <3>6. \A v \in Versioned : versions[v] \in Nat
      BY <2>1 DEF Versioned
    <3> QED
      BY <2>3, <3>3, <3>4, <3>5, <3>6
  <2> QED
    BY <2>2, <2>3
<1>3. Told(c) \in Nat /\ Told(c) = IF c.kind = "history" THEN c.arg ELSE versions'[ViewOf(c.kind)]
  <2>1. c.kind # "history" => ViewOf(c.kind) \in {"sub", "cards"}
    BY <1>1, KindsOfViews DEF PageKinds, Views, Writes
  <2>2. c.arg \in Nat
    <3>1. c.arg \in 0..Pages
      BY <1>1 DEF CallType
    <3> QED
      BY <3>1, PagesAssumption
  <2> QED
    BY <1>2, <2>1, <2>2 DEF Told, ServeHome
<1>4. /\ d \in CallType /\ d.answer = "ok" /\ d.data = Told(c)
      /\ d.kind = c.kind /\ d.arg = c.arg /\ d.owner = c.owner /\ d.sent = c.sent
  BY <1>1, <1>3 DEF CallType, Answers
<1>5. /\ IsABag(calls') /\ AllCalls' \subseteq AllCalls \cup {d}
      /\ (AllCalls \ {c}) \cup {d} \subseteq AllCalls'
  BY <1>1, ReplaceElements DEF HomeTypeOK, AllCalls, Answered
<1>6. UNCHANGED <<token, stored, user, loading, route, issued, expired, acts, fails, mounted, view, page>>
  BY DEF ServeHome, session, server, counts
<1>7. strayed \subseteq strayed' /\ strayed' \subseteq Views
      /\ (Done(c) /\ c.owner # "page" => ViewOf(c.kind) \in strayed')
  BY <1>1, KindsOfViews DEF ServeHome, HomeTypeOK
<1>8. HomeTypeOK'
  BY <1>1, <1>2, <1>4, <1>5, <1>6, <1>7 DEF HomeTypeOK
<1>9. CallsOK'
  <2>1. \A e \in AllCalls : CallOK(e)'
    BY <1>2, <1>6, OldCallsStayOK
  <2>2. CallOK(d)'
    <3>1. d.owner = "page" => mounted' /\ d.kind \in PageKinds
      BY <1>1, <1>4, <1>6 DEF CallOK
    <3>2. d.kind \notin {"me", "login"} /\ d.sent # None
      BY <1>1, <1>3, <1>4 DEF PageKinds, Views, Writes, Valid
    <3>3. ViewOf(d.kind) \in Versioned => d.data <= versions'[ViewOf(d.kind)]
      <4>1. ViewOf(d.kind) \in Versioned => d.kind # "history"
        BY KindsOfViews DEF Versioned
      <4>2. ViewOf(d.kind) \in Versioned => versions'[ViewOf(d.kind)] \in Nat
        BY <1>2 DEF Versioned
      <4> QED
        BY <1>3, <1>4, <4>1, <4>2
    <3> QED
      BY <3>1, <3>2, <3>3 DEF CallOK
  <2> QED
    BY <1>5, <2>1, <2>2 DEF CallsOK
<1>10. TokenHasUser'
  BY <1>4, <1>5, <1>6 DEF HomeInv, TokenHasUser
<1>11. ASSUME mounted, Shown
       PROVE  Repaired'
  <2>1. SUFFICES ASSUME NEW v \in Versioned \ strayed'
                 PROVE  view[v] = versions'[v] \/ \E e \in AllCalls' : Repairs(e, v)'
    BY <1>6 DEF Repaired
  <2>2. CASE Done(c) /\ ViewOf(c.kind) = v
    <3>1. c.owner = "page" /\ c.kind # "history"
      BY <1>7, <2>1, <2>2, KindsOfViews DEF Versioned
    <3>2. Repairs(d, v)'
      BY <1>3, <1>4, <2>2, <3>1 DEF Repairs
    <3> QED
      BY <1>5, <3>2
  <2>3. CASE ~(Done(c) /\ ViewOf(c.kind) = v)
    <3>1. versions'[v] = versions[v]
      BY <1>2, <2>1, <2>3
    <3>2. CASE view[v] = versions[v]
      BY <3>1, <3>2
    <3>3. CASE view[v] # versions[v]
      <4>1. PICK e \in AllCalls : Repairs(e, v)
        BY <1>7, <1>11, <2>1, <3>3 DEF HomeInv, Repaired
      <4>2. CASE e = c
        <5>1. c.owner = "page" /\ c.kind = v /\ c.kind # "history" /\ ViewOf(c.kind) = v
          BY <1>1, <2>1, <4>1, <4>2 DEF Repairs, Versioned
        <5>2. Repairs(d, v)'
          BY <1>3, <1>4, <5>1 DEF Repairs
        <5> QED
          BY <1>5, <5>2
      <4>3. CASE e # c
        BY <1>5, <3>1, <4>1, <4>3 DEF Repairs
      <4> QED
        BY <4>2, <4>3
    <3> QED
      BY <3>2, <3>3
  <2> QED
    BY <2>2, <2>3
<1>12. ASSUME mounted, Shown
       PROVE  RefusalsDue'
  <2>1. \A v : ~Waits(c, v)
    BY DEF Waits, Valid
  <2>2. token = None => \A v \in Views \ strayed : \E e \in AllCalls : Waits(e, v)
    BY <1>12 DEF HomeInv, RefusalsDue
  <2> QED
    BY <1>5, <1>6, <1>7, <2>1, <2>2 DEF RefusalsDue, Waits
<1>13. ~(mounted /\ Shown) => ~mounted' \/ ~Shown'
  BY <1>6 DEF Shown
<1> QED
  BY <1>8, <1>9, <1>10, <1>11, <1>12, <1>13, HiddenOwesNothing DEF HomeInv

\* The server answers a call of a page, or of one that was left.
LEMMA ServeHomeKeepsHomeInv ==
    ASSUME HomeInv, Rendered, NEW c \in AllCalls, ServeHome(c)
    PROVE  HomeInv'
<1>1. CASE Valid(c) /\ (c.kind \in Views \/ Done(c)) /\ calls' = Answered(c, "ok", Told(c))
  BY <1>1, GrantedKeepsHomeInv
<1>2. ASSUME NEW answer \in {"unauthorized", "error"}, calls' = Answered(c, answer, 0), ~Done(c)
      PROVE  HomeInv'
  BY <1>2, RefusedKeepsHomeInv DEF HomeInv, HomeTypeOK, ServeHome, VersionsAfter, server, counts, homeVars
<1>3. CASE ~Valid(c) /\ calls' = Answered(c, "unauthorized", 0)
  BY <1>2, <1>3 DEF Done
<1>4. CASE ~Done(c) /\ calls' = Answered(c, "error", 0)
  BY <1>2, <1>4
<1> QED
  BY <1>1, <1>3, <1>4 DEF ServeHome

-----------------------------------------------------------------------------
(* Replies to the page.                                                    *)

\* A reply that is dropped asks for nothing: the types and the session are as before.
LEMMA ReplyKeepsTypes ==
    ASSUME HomeInv, NEW c \in AllCalls, c.kind \in PageKinds, calls' = Drop(c),
           UNCHANGED <<session, server, counts, mounted, versions>>,
           view' \in [Views -> Nat \cup {None}], page' = page, strayed' \subseteq Views
    PROVE  /\ HomeTypeOK' /\ CallsOK' /\ TokenHasUser'
           /\ AllCalls' \subseteq AllCalls /\ AllCalls \ {c} \subseteq AllCalls'
<1>1. IsABag(calls') /\ AllCalls' \subseteq AllCalls /\ AllCalls \ {c} \subseteq AllCalls'
  BY DropElements DEF HomeInv, HomeTypeOK, AllCalls
<1>2. /\ route' \in Routes /\ acts' \in 0..MaxActs /\ fails' \in 0..MaxFails /\ page' \in 1..Pages
      /\ UNCHANGED <<token, stored, user, loading, mounted, versions, server>>
  BY DEF HomeInv, HomeTypeOK, session, counts
<1>3. c.kind # "me"
  BY DEF PageKinds, Views, Writes
<1> QED
  BY <1>1, <1>2, <1>3, NewCallsKeepTypes

\* Failed: the view has lost a reply.
LEMMA FailedKeepsHomeInv ==
    ASSUME HomeInv, Rendered, NEW c \in AllCalls, Failed(c)
    PROVE  HomeInv'
<1>1. /\ HomeTypeOK /\ c.kind \in PageKinds /\ ViewOf(c.kind) \in Views
      /\ UNCHANGED <<session, server, counts, mounted, view, page, versions>>
  BY KindsOfViews DEF HomeInv, HomeTypeOK, CallType, Failed, PageKinds
<1>2. strayed' \subseteq Views /\ strayed \subseteq strayed' /\ (c.owner = "page" => ViewOf(c.kind) \in strayed')
  BY <1>1 DEF Failed, HomeTypeOK
<1>3. /\ HomeTypeOK' /\ CallsOK' /\ TokenHasUser'
      /\ AllCalls' \subseteq AllCalls /\ AllCalls \ {c} \subseteq AllCalls'
  BY <1>1, <1>2, ReplyKeepsTypes DEF Failed, HomeTypeOK
<1>4. Repaired' /\ RefusalsDue'
  <2>1. \A v : v \notin strayed' => ~Repairs(c, v) /\ ~Waits(c, v)
    BY <1>2 DEF Repairs, Waits
  <2> QED
    BY <1>1, <1>2, <1>3, <2>1, DebtsAreKept
<1> QED
  BY <1>3, <1>4 DEF HomeInv

\* A copy the page shows brings the view to the version of the server, or back: then it has strayed.
LEMMA ShownCopy ==
    ASSUME HomeInv, NEW c \in AllCalls, NEW v \in Versioned, c.answer = "ok",
           c.kind \in PageKinds, ViewOf(c.kind) = v, view[v] = versions[v], v \notin Stale(v, c)
    PROVE  c.data = versions[v]
<1>1. c.data <= versions[v] /\ c.data \in Nat /\ versions[v] \in Nat
  BY DEF HomeInv, CallsOK, CallOK, HomeTypeOK, CallType, Versioned
<1>2. view[v] <= c.data
  BY <1>1, BrowserAssumption DEF Stale, Versioned
<1> QED
  BY <1>1, <1>2

\* Fetched: the page shows the reply.
LEMMA FetchedKeepsHomeInv ==
    ASSUME HomeInv, Rendered, NEW c \in AllCalls, Fetched(c)
    PROVE  HomeInv'
<1>1. /\ HomeTypeOK /\ c \in CallType /\ CallOK(c) /\ c.kind \in PageKinds /\ c.kind \in Views
      /\ ViewOf(c.kind) = c.kind /\ c.answer = "ok"
      /\ UNCHANGED <<session, server, counts, mounted, page, versions>>
  BY KindsOfViews DEF HomeInv, CallsOK, HomeTypeOK, CallType, Fetched, Delivered, PageKinds, Views
<1>2. /\ view' \in [Views -> Nat \cup {None}] /\ strayed' \subseteq Views /\ strayed \subseteq strayed'
      /\ \A v \in Views : c.owner = "page" /\ c.kind = v => view'[v] = c.data /\ Stale(v, c) \subseteq strayed'
      /\ \A v \in Views : ~(c.owner = "page" /\ c.kind = v) => view'[v] = view[v]
  BY <1>1 DEF HomeTypeOK, Fetched, Stale, CallType
<1>3. /\ HomeTypeOK' /\ CallsOK' /\ TokenHasUser'
      /\ AllCalls' \subseteq AllCalls /\ AllCalls \ {c} \subseteq AllCalls'
  BY <1>1, <1>2, ReplyKeepsTypes DEF Fetched
<1>4. Repaired' /\ RefusalsDue'
  <2>1. \A v \in Versioned \ strayed' : view[v] = versions[v] => view'[v] = versions[v]
    BY <1>1, <1>2, ShownCopy DEF Versioned, Views
  <2>2. \A v \in Versioned : Repairs(c, v) => view'[v] = versions[v]
    BY <1>1, <1>2 DEF Repairs, Versioned, Views
  <2>3. \A v : ~Waits(c, v)
    BY <1>1 DEF Waits
  <2> QED
    BY <1>1, <1>2, <1>3, <2>1, <2>2, <2>3, DebtsAreKept
<1> QED
  BY <1>3, <1>4 DEF HomeInv

\* CardsChanged: the cards are fetched anew.
LEMMA CardsChangedKeepsHomeInv ==
    ASSUME HomeInv, Rendered, NEW c \in AllCalls, CardsChanged(c)
    PROVE  HomeInv'
<1> PICK d : d = Call("cards", c.task, 0, c.owner)
  OBVIOUS
<1>1. /\ HomeTypeOK /\ c \in CallType /\ CallOK(c) /\ ViewOf(c.kind) = "cards" /\ c.answer = "ok"
      /\ c.kind \in Writes /\ c.kind \in PageKinds /\ c.kind \notin {"me", "history"}
  BY KindsOfViews DEF HomeInv, CallsOK, HomeTypeOK, CardsChanged, Delivered, Writes, PageKinds
<1>2. /\ d \in CallType /\ d.kind = "cards" /\ d.owner = c.owner /\ d.answer = "none"
  <2>1. 0 \in 0..Pages
    BY PagesAssumption
  <2> QED
    BY <1>1, <2>1 DEF Call, HomeTypeOK, CallType, Answers, Views
<1>3. /\ IsABag(calls') /\ AllCalls' \subseteq AllCalls \cup {d}
      /\ (AllCalls \ {c}) \cup {d} \subseteq AllCalls'
  <2>1. IsABag(Drop(c)) /\ DOMAIN Drop(c) \subseteq AllCalls /\ AllCalls \ {c} \subseteq DOMAIN Drop(c)
    BY <1>1, DropElements DEF HomeTypeOK
  <2>2. IsABag(Plus(Drop(c), d)) /\ DOMAIN Plus(Drop(c), d) = DOMAIN Drop(c) \cup {d}
    BY <2>1, PlusElements
  <2> QED
    BY <2>1, <2>2 DEF CardsChanged, AllCalls
<1>4. UNCHANGED <<session, server, counts, mounted, view, page, versions, strayed>>
  BY DEF CardsChanged, homeVars
<1>5. HomeTypeOK' /\ CallsOK' /\ TokenHasUser'
  <2>1. /\ route' \in Routes /\ acts' \in 0..MaxActs /\ fails' \in 0..MaxFails
        /\ view' \in [Views -> Nat \cup {None}] /\ page' \in 1..Pages /\ strayed' \subseteq Views
        /\ UNCHANGED <<token, stored, user, loading, mounted, versions, server>>
    BY <1>1, <1>4 DEF HomeTypeOK, session, counts
  <2>2. d.owner = "page" => mounted /\ d.kind \in PageKinds
    BY <1>1, <1>2 DEF CallOK, PageKinds, Views
  <2> QED
    BY <1>1, <1>2, <1>3, <2>1, <2>2, NewCallsKeepTypes
<1>6. Repaired' /\ RefusalsDue'
  <2>1. \A v : Repairs(c, v) => Repairs(d, v)
    BY <1>1, <1>2, KindsOfViews DEF Repairs
  <2>2. \A v : ~Waits(c, v)
    BY <1>1 DEF Waits
  <2> QED
    BY <1>3, <1>4, <2>1, <2>2, DebtsAreKept
<1> QED
  BY <1>5, <1>6 DEF HomeInv

\* Going back to the first page adds fetches, by the owner of the call, to the rest.
LEMMA BackToFirstCalls ==
    ASSUME HomeTypeOK, NEW c \in AllCalls, NEW rest, IsABag(rest), NEW shown, NEW stale,
           BackToFirst(c, rest, shown, stale)
    PROVE  /\ IsABag(calls') /\ DOMAIN rest \subseteq AllCalls'
           /\ \A d \in AllCalls' : d \notin DOMAIN rest =>
                 d \in CallType /\ d.kind = "history" /\ d.owner = c.owner /\ d.answer = "none"
<1> PICK e : e = FetchHistory(1, "none", "page")
  OBVIOUS
<1> PICK f : f = FetchHistory(1, c.task, c.owner)
  OBVIOUS
<1>1. c \in CallType /\ 1 \in 0..Pages
  BY PagesAssumption DEF HomeTypeOK
<1>2. e \in CallType /\ e.kind = "history" /\ e.owner = "page" /\ e.answer = "none"
  BY <1>1 DEF FetchHistory, Call, HomeTypeOK, CallType, Answers, Owners, Views
<1>3. f \in CallType /\ f.kind = "history" /\ f.owner = c.owner /\ f.answer = "none"
  BY <1>1 DEF FetchHistory, Call, HomeTypeOK, CallType, Answers, Owners, Views
<1>4. PICK turned : /\ turned = IF c.owner = "page" /\ page # 1 THEN Plus(rest, e) ELSE rest
                    /\ calls' = IF c.arg = 1 THEN Plus(turned, f) ELSE turned
  BY DEF BackToFirst
<1>5. IsABag(Plus(rest, e)) /\ DOMAIN Plus(rest, e) = DOMAIN rest \cup {e}
  BY PlusElements
<1>6. /\ IsABag(turned) /\ DOMAIN rest \subseteq DOMAIN turned
      /\ DOMAIN turned \subseteq DOMAIN rest \cup (IF c.owner = "page" THEN {e} ELSE {})
  BY <1>4, <1>5
<1>7. IsABag(Plus(turned, f)) /\ DOMAIN Plus(turned, f) = DOMAIN turned \cup {f}
  BY <1>6, PlusElements
<1>8. /\ IsABag(calls') /\ DOMAIN turned \subseteq AllCalls' /\ AllCalls' \subseteq DOMAIN turned \cup {f}
  BY <1>4, <1>6, <1>7 DEF AllCalls
<1> QED
  BY <1>2, <1>3, <1>6, <1>8

\* It leaves the other views as they are to be shown, and forgets nothing that has strayed.
LEMMA BackToFirstShows ==
    ASSUME HomeTypeOK, NEW c, NEW rest, NEW shown, NEW stale, BackToFirst(c, rest, shown, stale),
           shown \in [Views -> Nat \cup {None}], stale \subseteq Views
    PROVE  /\ view' \in [Views -> Nat \cup {None}] /\ page' \in 1..Pages
           /\ strayed' \subseteq Views /\ strayed \cup stale \subseteq strayed'
           /\ \A v \in Versioned : view'[v] = shown[v]
<1>1. page' \in 1..Pages
  <2>1. 1 \in 1..Pages
    BY PagesAssumption
  <2> QED
    BY <2>1 DEF BackToFirst, HomeTypeOK
<1>2. view' \in [Views -> Nat \cup {None}] /\ \A v \in Versioned : view'[v] = shown[v]
  <2>1. view' = shown \/ view' = [shown EXCEPT !["history"] = None]
    BY DEF BackToFirst
  <2> QED
    BY <2>1 DEF Views, Versioned
<1>3. strayed' \subseteq Views /\ strayed \cup stale \subseteq strayed'
  BY DEF BackToFirst, HomeTypeOK
<1> QED
  BY <1>1, <1>2, <1>3

\* Subscribed: the contract and the history are fetched anew.
LEMMA SubscribedKeepsHomeInv ==
    ASSUME HomeInv, Rendered, NEW c \in AllCalls, Subscribed(c)
    PROVE  HomeInv'
<1> PICK s : s = Call("sub", c.task, 0, c.owner)
  OBVIOUS
<1> PICK rest : rest = Plus(Drop(c), s)
  OBVIOUS
<1>1. /\ HomeTypeOK /\ c \in CallType /\ CallOK(c) /\ ViewOf(c.kind) = "sub" /\ c.answer = "ok"
      /\ c.kind = "subscribe" /\ c.kind \in PageKinds /\ BackToFirst(c, rest, view, {})
      /\ UNCHANGED <<session, server, counts, mounted, versions>>
  BY KindsOfViews DEF HomeInv, CallsOK, HomeTypeOK, Subscribed, Delivered, Writes, PageKinds
<1>2. /\ s \in CallType /\ s.kind = "sub" /\ s.owner = c.owner /\ s.answer = "none"
  <2>1. 0 \in 0..Pages
    BY PagesAssumption
  <2> QED
    BY <1>1, <2>1 DEF Call, HomeTypeOK, CallType, Answers, Views
<1>3. IsABag(rest) /\ DOMAIN rest \subseteq AllCalls \cup {s} /\ (AllCalls \ {c}) \cup {s} \subseteq DOMAIN rest
  <2>1. IsABag(Drop(c)) /\ DOMAIN Drop(c) \subseteq AllCalls /\ AllCalls \ {c} \subseteq DOMAIN Drop(c)
    BY <1>1, DropElements DEF HomeTypeOK
  <2>2. IsABag(Plus(Drop(c), s)) /\ DOMAIN Plus(Drop(c), s) = DOMAIN Drop(c) \cup {s}
    BY <2>1, PlusElements
  <2> QED
    BY <2>1, <2>2
<1>4. /\ IsABag(calls') /\ DOMAIN rest \subseteq AllCalls'
      /\ \A d \in AllCalls' : d \notin DOMAIN rest =>
            d \in CallType /\ d.kind = "history" /\ d.owner = c.owner /\ d.answer = "none"
  BY <1>1, <1>3, BackToFirstCalls
<1>5. /\ view' \in [Views -> Nat \cup {None}] /\ page' \in 1..Pages
      /\ strayed' \subseteq Views /\ strayed \subseteq strayed'
      /\ \A v \in Versioned : view'[v] = view[v]
  <2>1. view \in [Views -> Nat \cup {None}] /\ {} \subseteq Views /\ strayed \cup {} = strayed
    BY <1>1 DEF HomeTypeOK
  <2> QED
    BY <1>1, <2>1, BackToFirstShows
<1>6. HomeTypeOK' /\ CallsOK' /\ TokenHasUser'
  <2>1. /\ route' \in Routes /\ acts' \in 0..MaxActs /\ fails' \in 0..MaxFails
        /\ UNCHANGED <<token, stored, user, loading, mounted, versions, server>>
    BY <1>1 DEF HomeTypeOK, session, counts
  <2>2. \A d \in AllCalls' : d \notin AllCalls =>
           /\ d \in CallType /\ d.answer = "none"
           /\ d.owner = "page" => mounted /\ d.kind \in PageKinds
    BY <1>1, <1>2, <1>3, <1>4 DEF CallOK, PageKinds, Views
  <2>3. \A d \in AllCalls : d.kind = "me" => d \in AllCalls'
    BY <1>1, <1>3, <1>4
  <2> QED
    BY <1>4, <1>5, <2>1, <2>2, <2>3, NewCallsKeepTypes
<1>7. Repaired' /\ RefusalsDue'
  <2>1. \A v : Repairs(c, v) => Repairs(s, v)
    BY <1>1, <1>2, KindsOfViews DEF Repairs
  <2>2. \A v : ~Waits(c, v)
    BY <1>1 DEF Waits
  <2>3. (AllCalls \ {c}) \cup {s} \subseteq AllCalls'
    BY <1>3, <1>4
  <2> QED
    BY <1>1, <1>5, <2>1, <2>2, <2>3, DebtsAreKept
<1> QED
  BY <1>6, <1>7 DEF HomeInv

\* Changed: the page shows the reply, and the history is fetched anew.
LEMMA ChangedKeepsHomeInv ==
    ASSUME HomeInv, Rendered, NEW c \in AllCalls, Changed(c)
    PROVE  HomeInv'
<1>1. /\ HomeTypeOK /\ c \in CallType /\ CallOK(c) /\ ViewOf(c.kind) = "sub" /\ c.answer = "ok"
      /\ c.kind \in {"change", "cancel"} /\ c.kind \in PageKinds
      /\ UNCHANGED <<session, server, counts, mounted, versions>>
  BY KindsOfViews DEF HomeInv, CallsOK, HomeTypeOK, Changed, Delivered, Writes, PageKinds
<1>2. PICK rest, shown, stale :
         /\ rest = Drop(c) /\ BackToFirst(c, rest, shown, stale)
         /\ c.owner = "page" => shown = [view EXCEPT !["sub"] = c.data] /\ stale = Stale("sub", c)
         /\ c.owner # "page" => shown = view /\ stale = {}
  BY DEF Changed
<1>3. IsABag(rest) /\ DOMAIN rest \subseteq AllCalls /\ AllCalls \ {c} \subseteq DOMAIN rest
  BY <1>1, <1>2, DropElements DEF HomeTypeOK
<1>4. /\ IsABag(calls') /\ DOMAIN rest \subseteq AllCalls'
      /\ \A d \in AllCalls' : d \notin DOMAIN rest =>
            d \in CallType /\ d.kind = "history" /\ d.owner = c.owner /\ d.answer = "none"
  BY <1>1, <1>2, <1>3, BackToFirstCalls
<1>5. /\ shown \in [Views -> Nat \cup {None}] /\ stale \subseteq Views
      /\ shown["history"] = view["history"] /\ shown["cards"] = view["cards"]
      /\ c.owner = "page" => shown["sub"] = c.data
      /\ c.owner # "page" => shown["sub"] = view["sub"]
  <2>1. c.data \in Nat /\ view \in [Views -> Nat \cup {None}]
    BY <1>1 DEF HomeTypeOK, CallType
  <2>2. "sub" \in Views /\ "history" \in Views /\ "cards" \in Views /\ Stale("sub", c) \subseteq Views
    BY DEF Stale, Views
  <2> QED
    BY <1>2, <2>1, <2>2
<1>6. /\ view' \in [Views -> Nat \cup {None}] /\ page' \in 1..Pages
      /\ strayed' \subseteq Views /\ strayed \cup stale \subseteq strayed'
      /\ \A v \in Versioned : view'[v] = shown[v]
  <2>1. BackToFirst(c, rest, shown, stale) /\ HomeTypeOK
    BY <1>1, <1>2
  <2> QED
    BY <1>5, <2>1, BackToFirstShows
<1>7. HomeTypeOK' /\ CallsOK' /\ TokenHasUser'
  <2>1. /\ route' \in Routes /\ acts' \in 0..MaxActs /\ fails' \in 0..MaxFails
        /\ UNCHANGED <<token, stored, user, loading, mounted, versions, server>>
    BY <1>1 DEF HomeTypeOK, session, counts
  <2>2. \A d \in AllCalls' : d \notin AllCalls =>
           /\ d \in CallType /\ d.answer = "none"
           /\ d.owner = "page" => mounted /\ d.kind \in PageKinds
    BY <1>1, <1>3, <1>4 DEF CallOK, PageKinds, Views
  <2>3. \A d \in AllCalls : d.kind = "me" => d \in AllCalls'
    BY <1>1, <1>3, <1>4
  <2> QED
    BY <1>4, <1>6, <2>1, <2>2, <2>3, NewCallsKeepTypes
<1>8. Repaired' /\ RefusalsDue'
  <2>1. \A v \in Versioned \ strayed' : view[v] = versions[v] => view'[v] = versions[v]
    BY <1>1, <1>2, <1>5, <1>6, ShownCopy DEF Versioned
  <2>2. \A v \in Versioned : Repairs(c, v) => view'[v] = versions[v]
    BY <1>1, <1>5, <1>6 DEF Repairs, Versioned
  <2>3. \A v : ~Waits(c, v)
    BY <1>1 DEF Waits
  <2>4. AllCalls \ {c} \subseteq AllCalls' /\ strayed \subseteq strayed'
    BY <1>3, <1>4, <1>6
  <2> QED
    BY <1>1, <2>1, <2>2, <2>3, <2>4, DebtsAreKept
<1> QED
  BY <1>7, <1>8 DEF HomeInv

-----------------------------------------------------------------------------
(* The theorems.                                                           *)

LEMMA InitEstablishesHomeInv == HomeInit => HomeInv
<1> SUFFICES ASSUME HomeInit
             PROVE  HomeInv
  OBVIOUS
<1> PICK me : me = Call("me", "none", 0, "tab")
  OBVIOUS
<1>1. {token, stored, user} \subseteq Tokens \cup {None} /\ issued \in Tokens /\ expired \subseteq 1..issued
  <2>1. 1 \in Tokens
    BY BrowserAssumption DEF Tokens
  <2> QED
    BY <2>1 DEF HomeInit, AuthInit
<1>2. me \in CallType /\ me.kind = "me" /\ me.owner = "tab" /\ me.answer = "none"
  <2>1. 0 \in 0..Pages
    BY PagesAssumption
  <2> QED
    BY <1>1, <2>1 DEF Call, CallType, Answers, Owners, SessionKinds
<1>3. /\ IsABag(calls) /\ AllCalls \subseteq {me}
      /\ token # None => me \in AllCalls
  <2>1. calls = SetToBag({me}) \/ (calls = EmptyBag /\ token = None)
    BY DEF HomeInit, AuthInit
  <2>2. IsABag(SetToBag({me})) /\ DOMAIN SetToBag({me}) = {me}
    BY DEF SetToBag, IsABag
  <2>3. IsABag(EmptyBag) /\ DOMAIN EmptyBag = {}
    BY DEF EmptyBag, SetToBag, IsABag
  <2> QED
    BY <2>1, <2>2, <2>3 DEF AllCalls
<1>4. HomeTypeOK
  <2>1. loading \in BOOLEAN /\ mounted \in BOOLEAN /\ route \in Routes
    BY DEF HomeInit, AuthInit, Routes
  <2>2. acts \in 0..MaxActs /\ fails \in 0..MaxFails /\ page \in 1..Pages
    BY BrowserAssumption, PagesAssumption DEF HomeInit, AuthInit
  <2>3. view \in [Views -> Nat \cup {None}] /\ versions \in [sub : Nat, cards : Nat] /\ strayed \subseteq Views
    BY DEF HomeInit, Nothing
  <2> QED
    BY <1>1, <1>2, <1>3, <2>1, <2>2, <2>3 DEF HomeTypeOK
<1>5. CallsOK
  BY <1>2, <1>3 DEF CallsOK, CallOK
<1>6. TokenHasUser
  BY <1>2, <1>3 DEF TokenHasUser
<1>7. Repaired /\ RefusalsDue
  BY DEF HomeInit, Repaired, RefusalsDue
<1> QED
  BY <1>4, <1>5, <1>6, <1>7 DEF HomeInv

\* The network loses a call.
LEMMA NetworkFailsKeepsHomeInv ==
    ASSUME HomeInv, NEW c \in AllCalls, NetworkFails(c), UNCHANGED homeVars
    PROVE  HomeInv'
<1>1. fails' \in 0..MaxFails
  BY BrowserAssumption DEF HomeInv, HomeTypeOK, NetworkFails
<1> QED
  BY <1>1, RefusedKeepsHomeInv DEF NetworkFails

\* A step of the provider.
LEMMA SessionStepKeepsHomeInv ==
    ASSUME HomeInv, Rendered, SessionStep, UNCHANGED homeVars
    PROVE  HomeInv'
<1>1. CASE LogIn
  BY <1>1, SessionCallKeepsHomeInv DEF LogIn
<1>2. CASE LogOut
  BY <1>2, SessionCallKeepsHomeInv DEF LogOut
<1>3. ASSUME NEW r \in Routes, Navigate(r)
      PROVE  HomeInv'
  <2>1. acts' \in 0..MaxActs
    BY <1>3, BrowserAssumption DEF HomeInv, HomeTypeOK, Navigate, Act
  <2>2. expired' \subseteq 1..issued
    BY <1>3 DEF HomeInv, HomeTypeOK, Navigate, server
  <2> QED
    BY <1>3, <2>1, <2>2, NoCallKeepsHomeInv DEF Navigate, Act, server
<1>4. ASSUME NEW t \in Tokens, Expire(t)
      PROVE  HomeInv'
  <2>1. acts' \in 0..MaxActs
    BY <1>4, BrowserAssumption DEF HomeInv, HomeTypeOK, Expire
  <2>2. expired' \subseteq 1..issued
    BY <1>4, BrowserAssumption DEF HomeInv, HomeTypeOK, Expire, Tokens
  <2> QED
    BY <1>4, <2>1, <2>2, NoCallKeepsHomeInv DEF Expire, session, HomeInv, HomeTypeOK
<1>5. ASSUME NEW c \in AllCalls,
             \/ ServeSession(c) \/ NetworkFails(c) \/ Ignore(c)
             \/ Unauthorized(c) \/ Refresh(c) \/ LoggedIn(c) \/ LoggedOut(c)
      PROVE  HomeInv'
  BY <1>5, ServeSessionKeepsHomeInv, NetworkFailsKeepsHomeInv, RepliesKeepHomeInv
<1> QED
  BY <1>1, <1>2, <1>3, <1>4, <1>5 DEF SessionStep

LEMMA RedirectKeepsHomeInv ==
    ASSUME HomeInv, Redirect, UNCHANGED homeVars
    PROVE  HomeInv'
<1>1. route' \in Routes /\ expired' \subseteq 1..issued /\ acts' \in 0..MaxActs /\ ~Shown'
  BY DEF HomeInv, HomeTypeOK, Redirect, Routes, Shown, server, counts
<1> QED
  BY <1>1, NoCallKeepsHomeInv DEF Redirect, server, counts

\* A step of the page.
LEMMA PageStepKeepsHomeInv ==
    ASSUME HomeInv, Rendered, PageStep
    PROVE  HomeInv'
  BY TurnPageKeepsHomeInv, ClickKeepsHomeInv, ServeHomeKeepsHomeInv, FailedKeepsHomeInv,
     FetchedKeepsHomeInv, SubscribedKeepsHomeInv, ChangedKeepsHomeInv, CardsChangedKeepsHomeInv
     DEF PageStep

LEMMA StepKeepsHomeInv == HomeInv /\ [HomeNext]_<<authVars, homeVars>> => HomeInv'
<1> SUFFICES ASSUME HomeInv, [HomeNext]_<<authVars, homeVars>>
             PROVE  HomeInv'
  OBVIOUS
<1>1. CASE Render
  BY <1>1, MountKeepsHomeInv, UnmountKeepsHomeInv, RedirectKeepsHomeInv DEF Render
<1>2. CASE Rendered /\ SessionStep /\ UNCHANGED homeVars
  BY <1>2, SessionStepKeepsHomeInv
<1>3. CASE Rendered /\ Reload /\ mounted' = FALSE /\ UNCHANGED <<view, page, versions, strayed>>
  BY <1>3, ReloadKeepsHomeInv
<1>4. CASE Rendered /\ PageStep
  BY <1>4, PageStepKeepsHomeInv
<1>5. CASE UNCHANGED <<authVars, homeVars>>
  <2>1. HomeTypeOK'
    BY <1>5 DEF authVars, homeVars, HomeInv, HomeTypeOK, AllCalls
  <2>2. CallsOK' /\ TokenHasUser'
    BY <1>5 DEF authVars, homeVars, HomeInv, CallsOK, CallOK, TokenHasUser, AllCalls
  <2>3. Repaired'
    BY <1>5 DEF authVars, homeVars, HomeInv, Repaired, Repairs, AllCalls, Shown
  <2>4. RefusalsDue'
    BY <1>5 DEF authVars, homeVars, HomeInv, RefusalsDue, Waits, AllCalls, Shown
  <2> QED
    BY <2>1, <2>2, <2>3, <2>4 DEF HomeInv
<1> QED
  BY <1>1, <1>2, <1>3, <1>4, <1>5 DEF HomeNext

\* The inductive invariant holds of every behaviour of the dashboard.
THEOREM HomeInvHolds == HomeSpec => []HomeInv
  BY InitEstablishesHomeInv, StepKeepsHomeInv, PTL DEF HomeSpec

\* The browser's state and the calls in flight have the types HomeTypeOK gives them: the page asked
\* for is one the history has.
THEOREM BrowserTypeCorrect == HomeSpec => []HomeTypeOK
<1>1. HomeInv => HomeTypeOK
  BY DEF HomeInv
<1> QED
  BY <1>1, HomeInvHolds, PTL

\* A token in localStorage is never without its user: AuthProvider shows one, or refresh is asking.
THEOREM UserOrRefresh == HomeSpec => []TokenHasUser
<1>1. HomeInv => TokenHasUser
  BY DEF HomeInv
<1> QED
  BY <1>1, HomeInvHolds, PTL

\* When nothing is under way the contract and the cards of HomePage are those of the server, but
\* for replies that were lost or overtaken.
THEOREM DashboardIsCurrent == HomeSpec => []ViewsCurrent
<1>1. HomeInv => ViewsCurrent
  <2> SUFFICES ASSUME HomeInv, Quiet
               PROVE  \A v \in {"sub", "cards"} \ strayed : view[v] = versions[v]
    BY DEF ViewsCurrent
  <2>1. mounted /\ Shown /\ AllCalls = {}
    BY DEF Quiet, Rendered, EmptyBag, SetToBag, AllCalls
  <2> QED
    BY <2>1 DEF HomeInv, Repaired, Versioned
<1> QED
  BY <1>1, HomeInvHolds, PTL

\* A dashboard without a token is about to be refused, and with that to end.
THEOREM DashboardEndsWithToken == HomeSpec => []NoTokenNoDashboard
<1>1. HomeInv => NoTokenNoDashboard
  <2> SUFFICES ASSUME HomeInv, mounted, Shown, token = None
               PROVE  \/ \E c \in AllCalls :
                            c.owner # "gone" /\ (c.answer = "unauthorized" \/ (c.answer = "none" /\ ~Valid(c)))
                      \/ \A v \in Views \ strayed :
                            \E c \in AllCalls : c.owner = "page" /\ c.answer = "error" /\ ViewOf(c.kind) = v
    BY DEF NoTokenNoDashboard
  <2>1. \A v \in Views \ strayed : \E c \in AllCalls : Waits(c, v)
    BY DEF HomeInv, RefusalsDue
  <2>2. \A v : \A c \in AllCalls : Waits(c, v) =>
           /\ c.owner = "page" /\ ViewOf(c.kind) = v
           /\ \/ c.answer = "unauthorized"
              \/ c.answer = "none" /\ ~Valid(c)
              \/ c.answer = "error"
    BY DEF HomeInv, HomeTypeOK, CallType, Answers, Waits, Valid
  <2> QED
    BY <2>1, <2>2
<1> QED
  BY <1>1, HomeInvHolds, PTL

=============================================================================
