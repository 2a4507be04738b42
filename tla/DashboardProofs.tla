---------------------------- MODULE DashboardProofs ----------------------------
(***************************************************************************)
(* What the dashboard keeps in the session storage agrees with the page,   *)
(* for any tokens, flows, tabs, ranges and bounds; and what it draws of a  *)
(* report counts every attempt of it, for any attempts, windows, buckets,  *)
(* offsets and catalogs.                                                   *)
(***************************************************************************)
EXTENDS MCDashboard, Sequences, FiniteSetTheorems, TLAPS

(* The login form is shown only when nothing is stored: the token it tries  *)
(* may replace the current one without the copy becoming another's.         *)
StoredInv == StoredTokenIsCurrent /\ (shown = "login" => stored = None)

(* route() shows the login form to who has no token. *)
LEMMA RouteShows ==
    ASSUME NEW done, Route(done), stored' \in {None, token'}
    PROVE  StoredInv'
<1>1. CASE token' = None
  BY <1>1 DEF Route, StoredInv, StoredTokenIsCurrent
<1>2. CASE token' # None
  BY <1>2 DEF Route, StoredInv, StoredTokenIsCurrent
<1> QED BY <1>1, <1>2

LEMMA SignOutForgets ==
    ASSUME NEW done, SignOut(done)
    PROVE  StoredInv'
BY RouteShows DEF SignOut

(* An answer of any kind keeps the invariant. *)
LEMMA AnswerKeeps ==
    ASSUME StoredInv, Answer
    PROVE  StoredInv'
<1> PICK c \in BagToSet(calls) :
      Unauthorized(c) \/ Failed(c) \/ ModelsLoaded(c) \/ UsageLoaded(c) \/ TableLoaded(c) \/ LoggedIn(c)
  BY DEF Answer
<1>1. CASE Unauthorized(c)
  <2>1. CASE c.fn # "action"
    BY <1>1, <2>1, SignOutForgets DEF Unauthorized
  <2>2. CASE c.fn = "action"
    BY <1>1, <2>2 DEF Unauthorized, StoredInv, StoredTokenIsCurrent
  <2> QED BY <2>1, <2>2
<1>2. CASE Failed(c) \/ ModelsLoaded(c) \/ UsageLoaded(c) \/ TableLoaded(c)
  BY <1>2 DEF Failed, ModelsLoaded, UsageLoaded, TableLoaded, StoredInv, StoredTokenIsCurrent
<1>3. CASE LoggedIn(c)
  BY <1>3, RouteShows DEF LoggedIn
<1> QED BY <1>1, <1>2, <1>3

LEMMA StoredInvStep ==
    ASSUME StoredInv, [Next]_vars
    PROVE  StoredInv'
<1>1. CASE Answer
  BY <1>1, AnswerKeeps
<1>2. CASE ClickSignOut
  BY <1>2, SignOutForgets DEF ClickSignOut
<1>3. CASE ClickAction \/ Refresh
  BY <1>3 DEF ClickAction, Refresh, storage, StoredInv, StoredTokenIsCurrent
<1>4. ASSUME NEW t \in Tokens, LogIn(t) PROVE StoredInv'
  BY <1>4 DEF LogIn, StoredInv, StoredTokenIsCurrent
<1>5. ASSUME NEW t \in Tokens, Revoke(t) PROVE StoredInv'
  BY <1>5 DEF Revoke, page, storage, StoredInv, StoredTokenIsCurrent
<1>6. ASSUME NEW name \in Tabs, SelectTab(name) PROVE StoredInv'
  BY <1>6, RouteShows DEF SelectTab, StoredInv, StoredTokenIsCurrent
<1>7. ASSUME NEW r \in Ranges, SelectRange(r) PROVE StoredInv'
  BY <1>7 DEF SelectRange, storage, StoredInv, StoredTokenIsCurrent
<1>8. ASSUME NEW f \in Flows, StartSignIn(f) \/ Assign(f) PROVE StoredInv'
  BY <1>8 DEF StartSignIn, Assign, page, storage, StoredInv, StoredTokenIsCurrent
<1>9. CASE Leave \/ Reload
  BY <1>9 DEF Leave, Reload, Loaded, storage, StoredInv, StoredTokenIsCurrent
<1>10. CASE ComeBack
  BY <1>10 DEF ComeBack, page, StoredInv, StoredTokenIsCurrent
<1>11. CASE Startup
  BY <1>11, RouteShows DEF Startup, StoredInv, StoredTokenIsCurrent
<1>12. CASE Redeemed
  <2>1. stored' \in {None, token'}
    BY <1>12 DEF Redeemed, StoredInv, StoredTokenIsCurrent
  <2> QED BY <1>12, <2>1, RouteShows DEF Redeemed
<1>13. CASE UNCHANGED vars
  BY <1>13 DEF vars, page, storage, StoredInv, StoredTokenIsCurrent
<1> QED
  BY <1>1, <1>2, <1>3, <1>4, <1>5, <1>6, <1>7, <1>8, <1>9, <1>10, <1>11, <1>12, <1>13 DEF Next

(* Whatever calls, sign-ons and reloads run into each other, the token in   *)
(* the session storage is the one in use or none (app.js:65-81, 988-1002).  *)
THEOREM StoredTokenTheorem == Spec => []StoredTokenIsCurrent
<1>1. Init => StoredInv
  BY DEF Init, StoredInv, StoredTokenIsCurrent
<1>2. StoredInv /\ [Next]_vars => StoredInv'
  BY StoredInvStep
<1>3. StoredInv => StoredTokenIsCurrent
  BY DEF StoredInv
<1> QED BY <1>1, <1>2, <1>3, PTL DEF Spec

-----------------------------------------------------------------------------
LEMMA LastSignInStep ==
    ASSUME LastSignInWins, [Next]_vars
    PROVE  LastSignInWins'
<1>1. CASE Answer
  BY <1>1 DEF Answer, browser, LastSignInWins
<1>2. CASE ClickSignOut \/ ClickAction \/ Refresh \/ Startup
  BY <1>2 DEF ClickSignOut, ClickAction, Refresh, Startup, storage, browser, LastSignInWins
<1>3. ASSUME NEW t \in Tokens, LogIn(t) \/ Revoke(t) PROVE LastSignInWins'
  BY <1>3 DEF LogIn, Revoke, storage, browser, LastSignInWins
<1>4. ASSUME NEW name \in Tabs, SelectTab(name) PROVE LastSignInWins'
  BY <1>4 DEF SelectTab, browser, LastSignInWins
<1>5. ASSUME NEW r \in Ranges, SelectRange(r) PROVE LastSignInWins'
  BY <1>5 DEF SelectRange, storage, browser, LastSignInWins
<1>6. ASSUME NEW f \in Flows, StartSignIn(f) PROVE LastSignInWins'
  BY <1>6 DEF StartSignIn, storage, LastSignInWins
<1>7. ASSUME NEW f \in Flows, Assign(f) PROVE LastSignInWins'
  BY <1>7 DEF Assign, LastSignInWins
<1>8. CASE Leave
  BY <1>8 DEF Leave, storage, LastSignInWins
<1>9. CASE ComeBack \/ Reload
  BY <1>9 DEF ComeBack, Reload, LastSignInWins
<1>10. CASE Redeemed
  BY <1>10 DEF Redeemed, LastSignInWins
<1>11. CASE UNCHANGED vars
  BY <1>11 DEF vars, storage, browser, LastSignInWins
<1> QED
  BY <1>1, <1>2, <1>3, <1>4, <1>5, <1>6, <1>7, <1>8, <1>9, <1>10, <1>11 DEF Next

(* However many sign-ons are begun, the browser leaves with the one whose   *)
(* request is stored (startSignIn, app.js:154-178).                         *)
THEOREM LastSignInTheorem == Spec => []LastSignInWins
<1>1. Init => LastSignInWins
  BY DEF Init, LastSignInWins
<1> QED BY <1>1, LastSignInStep, PTL DEF Spec

-----------------------------------------------------------------------------
(* The calls under way: those of loadUsage, and only those, have a range.   *)
Sent == {c \in Calls : c.fn = "loadUsage" <=> c.range # None}

SentBag(bag) == IsABag(bag) /\ BagToSet(bag) \subseteq Sent

LEMMA ExchangeType ==
    ASSUME SentBag(calls), NEW done, NEW new, new \subseteq Sent, Exchange(done, new)
    PROVE  SentBag(calls')
<1> DEFINE rest == calls (-) SetToBag(done)
           sent == SetToBag(new)
<1>1. DOMAIN calls \subseteq Sent /\ \A c \in DOMAIN calls : calls[c] \in Nat /\ calls[c] > 0
  BY DEF SentBag, IsABag, BagToSet
<1>2. DOMAIN rest \subseteq DOMAIN calls /\ \A c \in DOMAIN rest : rest[c] \in Nat /\ rest[c] > 0
  BY <1>1 DEF (-), SetToBag
<1>3. DOMAIN sent = new /\ \A c \in new : sent[c] = 1
  BY DEF SetToBag
<1> HIDE DEF rest, sent
<1>4. /\ calls' = [c \in DOMAIN rest \cup DOMAIN sent |->
                     (IF c \in DOMAIN rest THEN rest[c] ELSE 0)
                       + (IF c \in DOMAIN sent THEN sent[c] ELSE 0)]
  BY DEF Exchange, (+), rest, sent
<1>5. DOMAIN calls' \subseteq Sent
  BY <1>1, <1>2, <1>3, <1>4
<1>6. \A c \in DOMAIN calls' : calls'[c] \in {n \in Nat : n > 0}
  BY <1>2, <1>3, <1>4
<1>7. calls' = [c \in DOMAIN calls' |-> calls'[c]]
  BY <1>4
<1> QED BY <1>5, <1>6, <1>7 DEF SentBag, IsABag, BagToSet

LEMMA LoadersType ==
    ASSUME token' \in Tokens \cup {None}
    PROVE  /\ LoadAccounts \subseteq Sent /\ LoadModels \subseteq Sent /\ LoadConfig \subseteq Sent
           /\ range' \in Ranges => LoadUsage \subseteq Sent
           /\ range' \in Ranges /\ tab' \in Tabs => Loader(tab') \subseteq Sent
           /\ Call("login", "models", None) \in Sent /\ Call("action", "action", None) \in Sent
           /\ \A r \in Ranges : Call("loadUsage", "usage", r) \in Sent
<1>1. ASSUME NEW fn \in Functions, fn # "loadUsage", NEW ask \in Endpoints
      PROVE  Call(fn, ask, None) \in Sent
  BY <1>1 DEF Call, Calls, Sent
<1>2. ASSUME NEW r \in Ranges, NEW ask \in Endpoints
      PROVE  Call("loadUsage", ask, r) \in Sent
  BY <1>2, DashboardSessionAssumption DEF Call, Calls, Sent, Functions
<1>3. LoadAccounts \subseteq Sent /\ LoadModels \subseteq Sent /\ LoadConfig \subseteq Sent
  BY <1>1 DEF LoadAccounts, LoadModels, LoadConfig, Functions, Endpoints
<1>4. range' \in Ranges => LoadUsage \subseteq Sent
  <2> SUFFICES ASSUME range' \in Ranges PROVE LoadUsage \subseteq Sent
    OBVIOUS
  <2>1. (IF models' THEN "usage" ELSE "models") \in Endpoints
    BY DEF Endpoints
  <2> QED BY <1>2, <2>1 DEF LoadUsage
<1>5. range' \in Ranges /\ tab' \in Tabs => Loader(tab') \subseteq Sent
  BY <1>3, <1>4, DashboardSessionAssumption DEF Loader
<1> QED BY <1>1, <1>2, <1>3, <1>4, <1>5 DEF Functions, Endpoints

(* What the page, the storage and the browser are, but for the calls. *)
PageType ==
    /\ {token, stored} \subseteq Tokens \cup {None} /\ pending \in Flows \cup {None}
    /\ models \in BOOLEAN /\ range \in Ranges /\ report \in Ranges \cup {None}
    /\ shown \in {"nothing", "login", "tabs"} /\ tab \in Tabs
    /\ place \in {"page", "leaving", "issuer"} /\ target \in Flows \cup {None}
    /\ signIns \subseteq Flows /\ redeeming \in BOOLEAN
    /\ valid \subseteq Tokens /\ failures \in 0 .. MaxFailures

LEMMA TypeParts ==
    /\ TypeOK <=> PageType /\ SentBag(calls)
    /\ TypeOK' <=> PageType' /\ SentBag(calls')
BY DEF TypeOK, PageType, SentBag, Sent

LEMMA RouteType ==
    ASSUME TypeOK, NEW done, Route(done),
           token' \in Tokens \cup {None}, range' \in Ranges, tab' \in Tabs
    PROVE  shown' \in {"nothing", "login", "tabs"} /\ SentBag(calls')
<1>1. Exchange(done, IF token' = None THEN {} ELSE Loader(tab'))
  BY DEF Route
<1>2. (IF token' = None THEN {} ELSE Loader(tab')) \subseteq Sent
  BY LoadersType
<1>3. SentBag(calls)
  BY TypeParts
<1>4. \A new : new \subseteq Sent /\ Exchange(done, new) => SentBag(calls')
  BY <1>3, ExchangeType
<1> QED BY <1>1, <1>2, <1>4 DEF Route

LEMMA SignOutType ==
    ASSUME TypeOK, NEW done, SignOut(done), UNCHANGED <<pending, browser, valid>>,
           failures' = failures
    PROVE  TypeOK'
<1>1. /\ token' = None /\ models' = FALSE /\ stored' = None
      /\ tab' = tab /\ range' = range /\ report' = report /\ Route(done)
  BY DEF SignOut
<1>2. shown' \in {"nothing", "login", "tabs"} /\ SentBag(calls')
  BY <1>1, RouteType DEF TypeOK
<1>3. PageType'
  BY <1>1, <1>2 DEF TypeOK, PageType, browser
<1> QED BY <1>2, <1>3, TypeParts

LEMMA AnswerType ==
    ASSUME TypeOK, Answer
    PROVE  TypeOK'
<1> PICK c \in BagToSet(calls) :
      Unauthorized(c) \/ Failed(c) \/ ModelsLoaded(c) \/ UsageLoaded(c) \/ TableLoaded(c) \/ LoggedIn(c)
  BY DEF Answer
<1>1. /\ UNCHANGED <<pending, browser, valid>> /\ SentBag(calls) /\ PageType
      /\ c \in Sent /\ c.range \in Ranges \cup {None} /\ (c.fn = "loadUsage" => c.range \in Ranges)
  BY TypeParts DEF Answer, TypeOK, SentBag, Sent, Calls
<1>2. ASSUME NEW done, NEW new, new \subseteq Sent, Exchange(done, new) PROVE SentBag(calls')
  BY <1>1, <1>2, ExchangeType
<1>3. CASE Unauthorized(c)
  <2>1. CASE c.fn # "action"
    BY <1>1, <1>3, <2>1, SignOutType DEF Unauthorized
  <2>2. CASE c.fn = "action"
    <3>1. /\ token' = None /\ models' = FALSE /\ stored' = None /\ shown' = "login"
          /\ UNCHANGED <<tab, range, report>> /\ failures' = failures
          /\ Exchange({c}, LoadAccounts)
      BY <1>3, <2>2 DEF Unauthorized
    <3>2. SentBag(calls')
      BY <1>2, <3>1, LoadersType
    <3>3. PageType'
      BY <1>1, <3>1 DEF PageType, browser
    <3> QED BY <3>2, <3>3, TypeParts
  <2> QED BY <2>1, <2>2
<1>4. CASE Failed(c) \/ TableLoaded(c)
  <2>1. UNCHANGED <<token, range, report, shown, tab, stored>>
    BY <1>4 DEF Failed, TableLoaded
  <2>2. failures' \in 0 .. MaxFailures
    <3>1. failures' = failures \/ (failures < MaxFailures /\ failures' = failures + 1)
      BY <1>4 DEF Failed, TableLoaded
    <3> QED BY <1>1, <3>1, DashboardSessionAssumption DEF PageType
  <2>3. models' \in BOOLEAN
    <3>1. models \in BOOLEAN
      BY <1>1 DEF PageType
    <3>2. models' = models \/ models' = (models \/ c.fn = "loadModels")
      BY <1>4 DEF Failed, TableLoaded
    <3>3. (c.fn = "loadModels") \in BOOLEAN
      OBVIOUS
    <3> QED BY <3>1, <3>2, <3>3
  <2>4. Exchange({c}, Retold(c))
    BY <1>4 DEF Failed, TableLoaded
  <2>5. Retold(c) \subseteq Sent
    BY <1>1, <2>1, LoadersType DEF Retold, PageType
  <2>6. PageType'
    BY <1>1, <2>1, <2>2, <2>3 DEF PageType, browser
  <2> QED BY <1>2, <2>4, <2>5, <2>6, TypeParts
<1>5. CASE ModelsLoaded(c)
  <2>1. /\ models' = TRUE /\ UNCHANGED <<token, range, report, shown, tab, stored, failures>>
        /\ Exchange({c}, {Call("loadUsage", "usage", c.range)}) /\ c.range \in Ranges
    BY <1>1, <1>5 DEF ModelsLoaded
  <2>2. {Call("loadUsage", "usage", c.range)} \subseteq Sent
    BY <1>1, <2>1, LoadersType DEF PageType
  <2>3. PageType'
    BY <1>1, <2>1 DEF PageType, browser
  <2> QED BY <1>2, <2>1, <2>2, <2>3, TypeParts
<1>6. CASE UsageLoaded(c)
  <2>1. /\ report' = c.range /\ Exchange({c}, {})
        /\ UNCHANGED <<token, models, range, shown, tab, stored, failures>>
    BY <1>6 DEF UsageLoaded
  <2>2. PageType'
    BY <1>1, <2>1 DEF PageType, browser
  <2> QED BY <1>2, <2>1, <2>2, TypeParts
<1>7. CASE LoggedIn(c)
  <2>1. /\ stored' = token /\ Route({c})
        /\ UNCHANGED <<token, models, range, report, tab, failures>>
    BY <1>7 DEF LoggedIn
  <2>2. shown' \in {"nothing", "login", "tabs"} /\ SentBag(calls')
    BY <1>1, <2>1, RouteType DEF PageType
  <2>3. PageType'
    BY <1>1, <2>1, <2>2 DEF PageType, browser
  <2> QED BY <2>2, <2>3, TypeParts
<1> QED BY <1>3, <1>4, <1>5, <1>6, <1>7

LEMMA ViewerType ==
    ASSUME TypeOK,
           \/ ClickSignOut \/ ClickAction \/ Refresh
           \/ \E t \in Tokens : LogIn(t) \/ Revoke(t)
           \/ \E name \in Tabs : SelectTab(name)
           \/ \E r \in Ranges : SelectRange(r)
    PROVE  TypeOK'
<1>1. SentBag(calls) /\ PageType
  BY TypeParts
<1>2. ASSUME NEW done, NEW new, new \subseteq Sent, Exchange(done, new) PROVE SentBag(calls')
  BY <1>1, <1>2, ExchangeType
<1>3. CASE ClickSignOut
  BY <1>3, SignOutType DEF ClickSignOut, server
<1>4. CASE ClickAction \/ Refresh
  <2>1. UNCHANGED <<token, models, range, report, shown, storage, browser, tab, server>>
    BY <1>4 DEF ClickAction, Refresh
  <2>2. Exchange({}, {Call("action", "action", None)}) \/ Exchange({}, LoadUsage)
    BY <1>4 DEF ClickAction, Refresh
  <2>3. {Call("action", "action", None)} \subseteq Sent /\ LoadUsage \subseteq Sent
    BY <1>1, <2>1, LoadersType DEF PageType
  <2>4. PageType'
    BY <1>1, <2>1 DEF PageType, storage, browser, server
  <2> QED BY <1>2, <2>2, <2>3, <2>4, TypeParts
<1>5. ASSUME NEW t \in Tokens, LogIn(t) PROVE TypeOK'
  <2>1. /\ token' = t /\ Exchange({}, {Call("login", "models", None)})
        /\ UNCHANGED <<models, range, report, shown, stored, pending, browser, tab, server>>
    BY <1>5 DEF LogIn
  <2>2. {Call("login", "models", None)} \subseteq Sent
    BY <2>1, LoadersType
  <2>3. PageType'
    BY <1>1, <2>1 DEF PageType, browser, server
  <2> QED BY <1>2, <2>1, <2>2, <2>3, TypeParts
<1>6. ASSUME NEW t \in Tokens, Revoke(t) PROVE TypeOK'
  BY <1>6 DEF Revoke, page, storage, browser, TypeOK
<1>7. ASSUME NEW name \in Tabs, SelectTab(name) PROVE TypeOK'
  <2>1. /\ tab' = name /\ Route({})
        /\ UNCHANGED <<token, models, range, report, stored, pending, browser, server>>
    BY <1>7 DEF SelectTab
  <2>2. shown' \in {"nothing", "login", "tabs"} /\ SentBag(calls')
    BY <1>1, <2>1, RouteType DEF PageType
  <2>3. PageType'
    BY <1>1, <2>1, <2>2 DEF PageType, browser, server
  <2> QED BY <2>2, <2>3, TypeParts
<1>8. ASSUME NEW r \in Ranges, SelectRange(r) PROVE TypeOK'
  <2>1. /\ range' = r /\ Exchange({}, LoadUsage)
        /\ UNCHANGED <<token, models, report, shown, storage, browser, tab, server>>
    BY <1>8 DEF SelectRange
  <2>2. LoadUsage \subseteq Sent
    BY <1>1, <2>1, LoadersType DEF PageType
  <2>3. PageType'
    BY <1>1, <2>1 DEF PageType, storage, browser, server
  <2> QED BY <1>2, <2>1, <2>2, <2>3, TypeParts
<1> QED BY <1>3, <1>4, <1>5, <1>6, <1>7, <1>8

LEMMA PageLoadType ==
    ASSUME TypeOK, Leave \/ Reload
    PROVE  TypeOK'
<1>0. PageType
  BY TypeParts
<1>1. Loaded /\ UNCHANGED <<storage, tab, server>> /\ redeeming' = FALSE
  BY DEF Leave, Reload
<1>2. place' \in {"page", "issuer"} /\ target' \in {target, None}
  BY DEF Leave, Reload
<1>3. SentBag(calls')
  BY <1>1 DEF Loaded, EmptyBag, SetToBag, SentBag, IsABag, BagToSet
<1>4. PageType'
  BY <1>0, <1>1, <1>2, DashboardSessionAssumption DEF Loaded, PageType, storage, server
<1> QED BY <1>3, <1>4, TypeParts

LEMMA SignInType ==
    ASSUME TypeOK,
           \/ \E f \in Flows : StartSignIn(f) \/ Assign(f)
           \/ ComeBack \/ Startup \/ Redeemed
    PROVE  TypeOK'
<1>1. SentBag(calls) /\ PageType
  BY TypeParts
<1>2. CASE \E f \in Flows : StartSignIn(f) \/ Assign(f)
  BY <1>2 DEF StartSignIn, Assign, page, storage, server, TypeOK
<1>3. CASE ComeBack
  BY <1>3 DEF ComeBack, page, server, TypeOK
<1>4. CASE Startup \/ Redeemed
  <2>1. /\ Route({}) /\ {token', stored'} \subseteq Tokens \cup {None}
        /\ UNCHANGED <<models, range, report, tab, pending, place, target, signIns, server>>
        /\ redeeming' \in BOOLEAN
    BY <1>1, <1>4 DEF Startup, Redeemed, browser, PageType
  <2>2. shown' \in {"nothing", "login", "tabs"} /\ SentBag(calls')
    BY <1>1, <2>1, RouteType DEF PageType
  <2>3. PageType'
    BY <1>1, <2>1, <2>2 DEF PageType, server
  <2> QED BY <2>2, <2>3, TypeParts
<1> QED BY <1>2, <1>3, <1>4

(* In every state the calls under way are the client's own, and a call has  *)
(* a range just when it is loadUsage's: whichever comes back last, the      *)
(* report drawn is that of a range (loadUsage).                             *)
THEOREM TypeCorrect == Spec => []TypeOK
<1>1. Init => TypeOK
  <2> SUFFICES ASSUME Init PROVE PageType /\ SentBag(calls)
    BY TypeParts
  <2>1. PageType
    <3>1. models \in BOOLEAN /\ redeeming \in BOOLEAN
      BY DEF Init
    <3>2. failures \in 0 .. MaxFailures /\ range \in Ranges /\ tab \in Tabs
      BY DashboardSessionAssumption DEF Init
    <3>3. {token, stored} \subseteq Tokens \cup {None} /\ signIns \subseteq Flows /\ valid \subseteq Tokens
      BY DEF Init
    <3> QED BY <3>1, <3>2, <3>3 DEF Init, PageType
  <2>2. SentBag(calls)
    BY DEF Init, EmptyBag, SetToBag, SentBag, IsABag, BagToSet
  <2> QED BY <2>1, <2>2
<1>2. TypeOK /\ [Next]_vars => TypeOK'
  <2> SUFFICES ASSUME TypeOK, [Next]_vars PROVE TypeOK'
    OBVIOUS
  <2>1. CASE UNCHANGED vars
    BY <2>1 DEF vars, page, storage, browser, server, TypeOK
  <2>2. CASE Next
    BY <2>2, AnswerType, ViewerType, PageLoadType, SignInType DEF Next
  <2> QED BY <2>1, <2>2
<1> QED BY <1>1, <1>2, PTL DEF Spec

-----------------------------------------------------------------------------
(***************************************************************************)
(* Sums.                                                                   *)
(***************************************************************************)

(* Every non-empty set of natural numbers has a least one: induction over   *)
(* numbers and finite sets, by the least counterexample.                    *)
LEMMA LeastNumber ==
    ASSUME NEW S \in SUBSET Nat, S # {}
    PROVE  \E n \in S : \A k \in S : n <= k
<1> DEFINE Less == OpToRel(<, Nat)
<1>1. IsWellFoundedOn(Less, Nat)
  BY NatLessThanWellFounded
<1>2. PICK n \in S : \A k \in S : ~(<<k, n>> \in Less)
  <2> HIDE DEF Less
  <2> QED BY <1>1, WFMin
<1>3. ASSUME NEW k \in S PROVE n <= k
  <2>1. k \in Nat /\ n \in Nat
    OBVIOUS
  <2>2. k < n => <<k, n>> \in Less
    BY <2>1 DEF OpToRel
  <2> HIDE DEF Less
  <2> QED BY <1>2, <2>1, <2>2
<1> QED BY <1>3

Pick(s) == CHOOSE x \in s : TRUE

(* g adds up the values of f over each set of arguments. *)
Adds(g, f, R) ==
    g = [s \in SUBSET R |-> IF s = {} THEN 0 ELSE f[Pick(s)] + g[s \ {Pick(s)}]]

LEMMA SumIs ==
    ASSUME NEW f
    PROVE  Panels!SumOf(f) = (CHOOSE g : Adds(g, f, DOMAIN f))[DOMAIN f]
BY DEF Panels!SumOf, Panels!MapThenSumSet, Panels!MapThenFoldSet, Pick, Adds

(* Each cell counts a value of f, and no two share an element. *)
Cells(cell, f, R) ==
    /\ IsFiniteSet(R)
    /\ \A x \in R : IsFiniteSet(cell[x]) /\ f[x] = Cardinality(cell[x])
    /\ \A x, y \in R : x # y => cell[x] \cap cell[y] = {}

(* What is in the cells of s. *)
All(cell, s) == UNION {cell[x] : x \in s}

LEMMA CellsFinite ==
    ASSUME NEW R, NEW f, NEW cell, Cells(cell, f, R), NEW s \in SUBSET R
    PROVE  IsFiniteSet(All(cell, s)) /\ IsFiniteSet(s)
<1> DEFINE c == [x \in s |-> cell[x]]
           T == {cell[x] : x \in s}
<1>1. IsFiniteSet(s)
  BY FS_Subset DEF Cells
<1>2. c \in Surjection(s, T)
  BY DEF Surjection
<1>3. IsFiniteSet(T)
  <2> HIDE DEF c, T
  <2> QED BY <1>1, <1>2, FS_Surjection
<1>4. \A t \in T : IsFiniteSet(t)
  BY DEF Cells
<1>5. IsFiniteSet(UNION T)
  <2> HIDE DEF T
  <2> QED BY <1>3, <1>4, FS_UNION
<1> QED BY <1>1, <1>5 DEF All

LEMMA CellsAdd ==
    ASSUME NEW R, NEW f, NEW cell, Cells(cell, f, R), NEW s \in SUBSET R, NEW x \in s
    PROVE  Cardinality(All(cell, s)) = f[x] + Cardinality(All(cell, s \ {x}))
<1> DEFINE rest == All(cell, s \ {x})
<1>1. All(cell, s) = cell[x] \cup rest
  BY DEF All
<1>2. cell[x] \cap rest = {}
  BY DEF All, Cells
<1>3. IsFiniteSet(rest) /\ IsFiniteSet(cell[x]) /\ f[x] = Cardinality(cell[x])
  <2>1. s \ {x} \in SUBSET R
    OBVIOUS
  <2>2. IsFiniteSet(rest)
    BY <2>1, CellsFinite
  <2> QED BY <2>2 DEF Cells
<1> HIDE DEF rest
<1>4. Cardinality(rest) \in Nat /\ Cardinality(cell[x]) \in Nat
  BY <1>3, FS_CardinalityType
<1>5. Cardinality(cell[x] \cup rest) = Cardinality(cell[x]) + Cardinality(rest) - Cardinality(cell[x] \cap rest)
  BY <1>3, FS_Union
<1>6. Cardinality(cell[x] \cap rest) = 0
  BY <1>2, FS_EmptySet
<1>7. Cardinality(cell[x] \cup rest) = f[x] + Cardinality(rest)
  BY <1>3, <1>4, <1>5, <1>6
<1> QED BY <1>1, <1>7 DEF rest

(* The sum of the numbers of elements is the number of all elements. *)
LEMMA SumOfCells ==
    ASSUME NEW f, NEW cell, Cells(cell, f, DOMAIN f)
    PROVE  /\ Panels!SumOf(f) = Cardinality(All(cell, DOMAIN f))
           /\ IsFiniteSet(All(cell, DOMAIN f))
<1> DEFINE R == DOMAIN f
           h == [s \in SUBSET R |-> Cardinality(All(cell, s))]
<1>0. Cells(cell, f, R)
  OBVIOUS
<1> HIDE DEF R
<1>1. Adds(h, f, R)
  <2>1. ASSUME NEW s \in SUBSET R, s # {} PROVE h[s] = f[Pick(s)] + h[s \ {Pick(s)}]
    <3>1. Pick(s) \in s
      BY <2>1 DEF Pick
    <3>2. s \ {Pick(s)} \in SUBSET R
      OBVIOUS
    <3>3. Cardinality(All(cell, s)) = f[Pick(s)] + Cardinality(All(cell, s \ {Pick(s)}))
      BY <1>0, <3>1, CellsAdd
    <3> QED BY <3>2, <3>3
  <2>2. h[{}] = 0
    <3>1. All(cell, {}) = {}
      BY DEF All
    <3> QED BY <3>1, FS_EmptySet
  <2> DEFINE g == [s \in SUBSET R |-> IF s = {} THEN 0 ELSE f[Pick(s)] + h[s \ {Pick(s)}]]
  <2>3. \A s \in SUBSET R : h[s] = g[s]
    <3> SUFFICES ASSUME NEW s \in SUBSET R PROVE h[s] = g[s]
      OBVIOUS
    <3> HIDE DEF h
    <3> QED BY <2>1, <2>2
  <2>4. h = [s \in SUBSET R |-> h[s]] /\ g = [s \in SUBSET R |-> g[s]]
    OBVIOUS
  <2>5. h = g
    <3> HIDE DEF h, g
    <3> QED BY <2>3, <2>4
  <2> HIDE DEF h
  <2> QED BY <2>5 DEF Adds
<1> HIDE DEF h
<1>2. ASSUME NEW g, Adds(g, f, R), NEW q, Adds(q, f, R) PROVE \A s \in SUBSET R : g[s] = q[s]
  <2> DEFINE Bad == {s \in SUBSET R : g[s] # q[s]}
             Sizes == {Cardinality(s) : s \in Bad}
  <2> SUFFICES ASSUME Bad # {} PROVE FALSE
    OBVIOUS
  <2>1. \A s \in SUBSET R : IsFiniteSet(s) /\ Cardinality(s) \in Nat
    BY <1>0, CellsFinite, FS_CardinalityType
  <2>2. PICK s \in Bad : \A t \in Bad : Cardinality(s) <= Cardinality(t)
    <3>1. Sizes \in SUBSET Nat /\ Sizes # {}
      BY <2>1
    <3>2. PICK n \in Sizes : \A k \in Sizes : n <= k
      <4> HIDE DEF Sizes
      <4> QED BY <3>1, LeastNumber
    <3> QED BY <3>2
  <2>3. s \in SUBSET R /\ g[s] # q[s]
    OBVIOUS
  <2>4. s # {}
    BY <1>2, <2>3 DEF Adds
  <2> DEFINE less == s \ {Pick(s)}
  <2>5. Pick(s) \in s
    BY <2>4 DEF Pick
  <2>6. less \in SUBSET R /\ ~(Cardinality(s) <= Cardinality(less))
    BY <2>1, <2>3, <2>5, FS_RemoveElement
  <2>7. g[less] = q[less]
    BY <2>2, <2>6
  <2>8. g[s] = f[Pick(s)] + g[less]
    BY <1>2, <2>3, <2>4 DEF Adds
  <2>9. q[s] = f[Pick(s)] + q[less]
    BY <1>2, <2>3, <2>4 DEF Adds
  <2> QED BY <2>3, <2>7, <2>8, <2>9
<1>3. Adds(CHOOSE g : Adds(g, f, R), f, R)
  BY <1>1
<1>4. (CHOOSE g : Adds(g, f, R))[R] = h[R]
  BY <1>1, <1>2, <1>3
<1>5. h[R] = Cardinality(All(cell, R)) /\ IsFiniteSet(All(cell, R))
  BY <1>0, CellsFinite DEF h
<1> QED BY <1>4, <1>5, SumIs DEF R

(***************************************************************************)
(* Rows and totals.                                                        *)
(***************************************************************************)

(* What can be added up of attempts, and of rows. *)
Fields == {"attempts", "auto", "tokens"}

Counted(some) == IsFiniteSet(some) /\ \A a \in some : a.tokens \in Nat /\ a.at \in Int

(* One element for each token of a. *)
TokensOf(a) == {a} \X (1 .. a.tokens)

(* The attempts or tokens that a sum of the field counts. *)
Units(some, field) ==
    IF field = "attempts" THEN some
    ELSE IF field = "auto" THEN {a \in some : a.auto}
    ELSE UNION {TokensOf(a) : a \in some}

(* The panels' module counts as the library's theorems do. *)
LEMMA SameCardinality ==
    ASSUME NEW S
    PROVE  Panels!Cardinality(S) = Cardinality(S)
BY DEF Panels!Cardinality, Cardinality

LEMMA TokensOfIs ==
    ASSUME NEW a, a.tokens \in Nat
    PROVE  IsFiniteSet(TokensOf(a)) /\ Cardinality(TokensOf(a)) = a.tokens
<1>1. IsFiniteSet({a}) /\ Cardinality({a}) = 1
  BY FS_Singleton
<1>2. IsFiniteSet(1 .. a.tokens) /\ Cardinality(1 .. a.tokens) = a.tokens
  BY FS_Interval
<1> DEFINE one == {a}
           all == 1 .. a.tokens
<1> HIDE DEF one, all
<1>3. IsFiniteSet(one \X all) /\ Cardinality(one \X all) = Cardinality(one) * Cardinality(all)
  BY <1>1, <1>2, FS_Product DEF one, all
<1>4. Cardinality(one) * Cardinality(all) = a.tokens
  BY <1>1, <1>2 DEF one, all
<1> QED BY <1>3, <1>4 DEF TokensOf, one, all

(* SUM of the tokens of attempts. *)
LEMMA TokensAre ==
    ASSUME NEW some, Counted(some)
    PROVE  /\ Panels!Added(some, "tokens") = Cardinality(Units(some, "tokens"))
           /\ IsFiniteSet(Units(some, "tokens"))
<1> DEFINE f == [x \in some |-> x["tokens"]]
           cell == [a \in some |-> TokensOf(a)]
<1>1. \A x \in some : IsFiniteSet(cell[x]) /\ f[x] = Cardinality(cell[x])
  <2> SUFFICES ASSUME NEW x \in some PROVE IsFiniteSet(cell[x]) /\ f[x] = Cardinality(cell[x])
    OBVIOUS
  <2>1. x.tokens \in Nat
    BY DEF Counted
  <2> QED BY <2>1, TokensOfIs
<1>2. \A x, y \in some : x # y => cell[x] \cap cell[y] = {}
  BY DEF TokensOf
<1>3. DOMAIN f = some /\ Panels!Added(some, "tokens") = Panels!SumOf(f)
  BY DEF Panels!Added
<1>4. All(cell, some) = Units(some, "tokens")
  BY DEF All, Units
<1> HIDE DEF f, cell
<1>5. Cells(cell, f, DOMAIN f)
  BY <1>1, <1>2, <1>3 DEF Cells, Counted
<1> QED BY <1>3, <1>4, <1>5, SumOfCells

LEMMA UnitsFinite ==
    ASSUME NEW some, Counted(some), NEW field
    PROVE  IsFiniteSet(Units(some, field))
<1>1. IsFiniteSet(Units(some, "tokens"))
  BY TokensAre
<1>2. IsFiniteSet({a \in some : a.auto})
  BY FS_Subset DEF Counted
<1> QED BY <1>1, <1>2 DEF Units, Counted

LEMMA CountedSubset ==
    ASSUME NEW some, Counted(some), NEW part \in SUBSET some
    PROVE  Counted(part)
BY FS_Subset DEF Counted

(* The attempts of a row, and the row. *)
Group(of, bucket, key) == {a \in of : Panels!RowKey(a, bucket) = key}

RowFor(of, bucket, k) ==
    [key |-> k, attempts |-> Cardinality(Group(of, bucket, k)),
     auto |-> Cardinality({a \in Group(of, bucket, k) : a.auto}),
     tokens |-> Panels!Added(Group(of, bucket, k), "tokens")]

LEMMA RowsAre ==
    ASSUME NEW of, NEW bucket
    PROVE  Panels!Rows(of, bucket) = {RowFor(of, bucket, Panels!RowKey(a, bucket)) : a \in of}
<1> DEFINE row(k) == [key |-> k, attempts |-> Panels!Cardinality(Group(of, bucket, k)),
                      auto |-> Panels!Cardinality({a \in Group(of, bucket, k) : a.auto}),
                      tokens |-> Panels!Added(Group(of, bucket, k), "tokens")]
<1>1. Panels!Rows(of, bucket) = {row(k) : k \in {Panels!RowKey(a, bucket) : a \in of}}
  BY DEF Panels!Rows, Group
<1>2. \A k : row(k) = RowFor(of, bucket, k)
  BY SameCardinality DEF RowFor
<1> HIDE DEF row
<1> QED BY <1>1, <1>2

(* Every attempt has its row. *)
LEMMA RowExists ==
    ASSUME NEW of, NEW bucket, NEW a \in of
    PROVE  \E r \in Panels!Rows(of, bucket) : r.key = Panels!RowKey(a, bucket)
<1> DEFINE k == Panels!RowKey(a, bucket)
<1>1. RowFor(of, bucket, k) \in Panels!Rows(of, bucket)
  BY RowsAre
<1>2. RowFor(of, bucket, k).key = k
  BY DEF RowFor
<1> QED BY <1>1, <1>2

(* A row holds what its own attempts have. *)
LEMMA RowHolds ==
    ASSUME NEW of, Counted(of), NEW bucket, NEW r \in Panels!Rows(of, bucket), NEW field \in Fields
    PROVE  /\ r[field] = Cardinality(Units(Group(of, bucket, r.key), field))
           /\ IsFiniteSet(Units(Group(of, bucket, r.key), field))
           /\ r = RowFor(of, bucket, r.key)
           /\ \E a \in of : r.key = Panels!RowKey(a, bucket)
<1>1. PICK a \in of : r = RowFor(of, bucket, Panels!RowKey(a, bucket))
  BY RowsAre
<1>2. r.key = Panels!RowKey(a, bucket)
  BY <1>1 DEF RowFor
<1> DEFINE group == Group(of, bucket, r.key)
<1>3. r = RowFor(of, bucket, r.key)
  BY <1>1, <1>2
<1>4. Counted(group)
  <2>1. group \in SUBSET of
    BY DEF Group
  <2> QED BY <2>1, CountedSubset
<1>5. /\ r["attempts"] = Cardinality(group) /\ r["auto"] = Cardinality({a1 \in group : a1.auto})
      /\ r["tokens"] = Panels!Added(group, "tokens")
  <2> HIDE DEF group
  <2> DEFINE k == r.key
  <2>1. r = RowFor(of, bucket, k) /\ group = Group(of, bucket, k)
    BY <1>3 DEF group
  <2> HIDE DEF k
  <2> QED BY <2>1 DEF RowFor
<1> HIDE DEF group
<1>6. r[field] = Cardinality(Units(group, field))
  <2>1. CASE field = "attempts"
    BY <2>1, <1>5 DEF Units
  <2>2. CASE field = "auto"
    BY <2>2, <1>5 DEF Units
  <2>3. CASE field = "tokens"
    BY <2>3, <1>4, <1>5, TokensAre
  <2> QED BY <2>1, <2>2, <2>3 DEF Fields
<1>7. IsFiniteSet(Units(group, field))
  BY <1>4, UnitsFinite
<1> QED BY <1>2, <1>3, <1>6, <1>7 DEF group

LEMMA RowsFinite ==
    ASSUME NEW of, Counted(of), NEW bucket
    PROVE  IsFiniteSet(Panels!Rows(of, bucket))
<1> DEFINE f == [a \in of |-> RowFor(of, bucket, Panels!RowKey(a, bucket))]
<1>1. f \in Surjection(of, Panels!Rows(of, bucket))
  BY RowsAre DEF Surjection
<1> HIDE DEF f
<1> QED BY <1>1, FS_Surjection DEF Counted

(* The attempts that rows stand for. *)
From(of, bucket, rows) == {a \in of : \E r \in rows : r.key = Panels!RowKey(a, bucket)}

(* add() over rows counts the attempts that they stand for. *)
LEMMA AddedRows ==
    ASSUME NEW of, Counted(of), NEW bucket, NEW rows \in SUBSET Panels!Rows(of, bucket), NEW field \in Fields
    PROVE  Panels!Added(rows, field) = Cardinality(Units(From(of, bucket, rows), field))
<1> DEFINE f == [x \in rows |-> x[field]]
           cell == [r \in rows |-> Units(Group(of, bucket, r.key), field)]
<1>1. \A r \in rows : IsFiniteSet(cell[r]) /\ f[r] = Cardinality(cell[r])
  BY RowHolds
<1>2. \A r, q \in rows : r # q => cell[r] \cap cell[q] = {}
  <2> SUFFICES ASSUME NEW r \in rows, NEW q \in rows, NEW u \in cell[r], u \in cell[q] PROVE r = q
    OBVIOUS
  <2>1. r = RowFor(of, bucket, r.key) /\ q = RowFor(of, bucket, q.key)
    BY RowHolds
  <2>2. u \in Units(Group(of, bucket, r.key), field) /\ u \in Units(Group(of, bucket, q.key), field)
    OBVIOUS
  <2>3. r.key = q.key
    <3>1. CASE field = "attempts"
      BY <2>2, <3>1 DEF Units, Group
    <3>2. CASE field = "auto"
      BY <2>2, <3>2 DEF Units, Group
    <3>3. CASE field = "tokens"
      <4>1. PICK a \in Group(of, bucket, r.key) : u \in TokensOf(a)
        BY <2>2, <3>3 DEF Units
      <4>2. PICK b \in Group(of, bucket, q.key) : u \in TokensOf(b)
        BY <2>2, <3>3 DEF Units
      <4>3. a = b
        BY <4>1, <4>2 DEF TokensOf
      <4> QED BY <4>3 DEF Group
    <3> QED BY <3>1, <3>2, <3>3 DEF Fields
  <2> QED BY <2>1, <2>3
<1>3. DOMAIN f = rows /\ Panels!Added(rows, field) = Panels!SumOf(f)
  BY DEF Panels!Added
<1>4. All(cell, rows) = Units(From(of, bucket, rows), field)
  <2>1. CASE field = "attempts"
    BY <2>1 DEF All, Units, Group, From
  <2>2. CASE field = "auto"
    BY <2>2 DEF All, Units, Group, From
  <2>3. CASE field = "tokens"
    <3>1. All(cell, rows) = UNION {UNION {TokensOf(a) : a \in Group(of, bucket, r.key)} : r \in rows}
      BY <2>3 DEF All, Units
    <3>2. Units(From(of, bucket, rows), field) = UNION {TokensOf(a) : a \in From(of, bucket, rows)}
      BY <2>3 DEF Units
    <3> HIDE DEF cell
    <3> QED BY <3>1, <3>2 DEF Group, From
  <2> QED BY <2>1, <2>2, <2>3 DEF Fields
<1>5. IsFiniteSet(rows)
  BY RowsFinite, FS_Subset
<1> HIDE DEF f, cell
<1>6. Cells(cell, f, DOMAIN f)
  BY <1>1, <1>2, <1>3, <1>5 DEF Cells
<1> QED BY <1>3, <1>4, <1>6, SumOfCells

(* Totals of rows count the attempts that they stand for. *)
LEMMA TotalsCount ==
    ASSUME NEW of, Counted(of), NEW bucket, NEW rows \in SUBSET Panels!Rows(of, bucket)
    PROVE  Panels!Totals(rows) = Panels!Counts(From(of, bucket, rows))
<1> DEFINE some == From(of, bucket, rows)
           with(status) == {r \in rows : r.key.status = status}
           has(status) == {a \in some : a.status = status}
<1>1. /\ Panels!Added(rows, "attempts") = Cardinality(some)
      /\ Panels!Added(rows, "auto") = Cardinality({a \in some : a.auto})
      /\ Panels!Added(rows, "tokens") = Cardinality(Units(some, "tokens"))
  BY AddedRows DEF Fields, Units
<1>2. Counted(some)
  <2>1. some \in SUBSET of
    BY DEF From
  <2> QED BY <2>1, CountedSubset
<1>3. Panels!Added(some, "tokens") = Cardinality(Units(some, "tokens"))
  BY <1>2, TokensAre
<1>4. ASSUME NEW status
      PROVE  Panels!Added(with(status), "attempts") = Panels!Cardinality(has(status))
  <2>1. with(status) \in SUBSET Panels!Rows(of, bucket)
    OBVIOUS
  <2>2. From(of, bucket, with(status)) = has(status)
    BY DEF From, Panels!RowKey
  <2>3. Panels!Added(with(status), "attempts") = Cardinality(Units(From(of, bucket, with(status)), "attempts"))
    BY <2>1, AddedRows DEF Fields
  <2> HIDE DEF has, with
  <2> QED BY <2>2, <2>3, SameCardinality DEF Units
<1>5. {r.key.provider : r \in rows} = {a.provider : a \in some}
  <2>1. ASSUME NEW r \in rows PROVE \E a \in some : a.provider = r.key.provider
    <3>1. PICK a \in of : r.key = Panels!RowKey(a, bucket)
      BY RowHolds DEF Fields
    <3> QED BY <3>1 DEF From, Panels!RowKey
  <2>2. ASSUME NEW a \in some PROVE \E r \in rows : a.provider = r.key.provider
    BY DEF From, Panels!RowKey
  <2> HIDE DEF some
  <2> QED BY <2>1, <2>2
<1>6. Panels!Totals(rows) =
        [attempts |-> Panels!Added(rows, "attempts"), auto |-> Panels!Added(rows, "auto"),
         succeeded |-> Panels!Added(with("succeeded"), "attempts"),
         failed |-> Panels!Added(with("failed"), "attempts"), tokens |-> Panels!Added(rows, "tokens"),
         providers |-> {r.key.provider : r \in rows}]
  BY DEF Panels!Totals
<1> HIDE DEF some
<1>7. Panels!Counts(some) =
        [attempts |-> Panels!Cardinality(some), auto |-> Panels!Cardinality({a \in some : a.auto}),
         succeeded |-> Panels!Cardinality(has("succeeded")), failed |-> Panels!Cardinality(has("failed")),
         tokens |-> Panels!Added(some, "tokens"), providers |-> {a.provider : a \in some}]
  BY DEF Panels!Counts
<1>8. /\ Panels!Cardinality(some) = Cardinality(some)
      /\ Panels!Cardinality({a \in some : a.auto}) = Cardinality({a \in some : a.auto})
  BY SameCardinality
<1>9. /\ Panels!Added(rows, "attempts") = Panels!Cardinality(some)
       /\ Panels!Added(rows, "auto") = Panels!Cardinality({a \in some : a.auto})
       /\ Panels!Added(rows, "tokens") = Panels!Added(some, "tokens")
  BY <1>1, <1>3, <1>8
<1> HIDE DEF with, has
<1> QED BY <1>4, <1>5, <1>6, <1>7, <1>9 DEF some

(***************************************************************************)
(* Tables, figures and the recent requests.                                *)
(***************************************************************************)

(* The tables' groups are those of the attempts. *)
LEMMA ByModelCounts ==
    ASSUME NEW of, Counted(of), NEW bucket
    PROVE  Panels!ByModel(Panels!Rows(of, bucket)) =
             [id \in {<<a.provider, a.model>> : a \in of} |->
                 Panels!Counts({a \in of : <<a.provider, a.model>> = id})]
<1> DEFINE rows == Panels!Rows(of, bucket)
           key == [r \in rows |-> <<r.key.provider, r.key.model>>]
           group(id) == {r \in rows : key[r] = id}
           members(id) == {a \in of : <<a.provider, a.model>> = id}
<1>1. ASSUME NEW id PROVE Panels!Totals(group(id)) = Panels!Counts(members(id))
  <2>1. Panels!Totals(group(id)) = Panels!Counts(From(of, bucket, group(id)))
    <3>1. group(id) \in SUBSET rows
      OBVIOUS
    <3> HIDE DEF group
    <3> QED BY <3>1, TotalsCount
  <2>2. From(of, bucket, group(id)) = members(id)
    <3>1. ASSUME NEW a \in of, NEW r \in rows, r.key = Panels!RowKey(a, bucket)
          PROVE  key[r] = <<a.provider, a.model>>
      BY <3>1 DEF Panels!RowKey
    <3>2. ASSUME NEW a \in of PROVE \E r \in rows : r.key = Panels!RowKey(a, bucket)
      BY RowExists
    <3> HIDE DEF rows, key
    <3>3. ASSUME NEW a \in From(of, bucket, group(id)) PROVE a \in members(id)
      BY <3>1 DEF From
    <3>4. ASSUME NEW a \in members(id) PROVE a \in From(of, bucket, group(id))
      BY <3>1, <3>2 DEF From
    <3> HIDE DEF group, members
    <3> QED BY <3>3, <3>4
  <2> HIDE DEF group, members
  <2> QED BY <2>1, <2>2
<1>2. {key[r] : r \in rows} = {<<a.provider, a.model>> : a \in of}
  <2>1. ASSUME NEW r \in rows PROVE \E a \in of : key[r] = <<a.provider, a.model>>
    <3>1. PICK a \in of : r.key = Panels!RowKey(a, bucket)
      BY RowHolds DEF Fields
    <3> QED BY <3>1 DEF Panels!RowKey
  <2>2. ASSUME NEW a \in of PROVE \E r \in rows : key[r] = <<a.provider, a.model>>
    <3>1. PICK r \in rows : r.key = Panels!RowKey(a, bucket)
      BY RowExists
    <3> QED BY <3>1 DEF Panels!RowKey
  <2> HIDE DEF rows, key
  <2>3. {key[r] : r \in rows} \subseteq {<<a.provider, a.model>> : a \in of}
    BY <2>1
  <2>4. {<<a.provider, a.model>> : a \in of} \subseteq {key[r] : r \in rows}
    BY <2>2
  <2> QED BY <2>3, <2>4
<1>3. Panels!ByModel(rows) = [id \in {key[r] : r \in rows} |-> Panels!Totals(group(id))]
  BY DEF Panels!ByModel, Panels!GroupBy
<1> HIDE DEF rows, key, group, members
<1>4. Panels!ByModel(rows) = [id \in {<<a.provider, a.model>> : a \in of} |-> Panels!Counts(members(id))]
  BY <1>1, <1>2, <1>3
<1> QED BY <1>4 DEF members, rows

LEMMA ByAccountCounts ==
    ASSUME NEW of, Counted(of), NEW bucket
    PROVE  Panels!ByAccount(Panels!Rows(of, bucket)) =
             [id \in {a.account : a \in of} |-> Panels!Counts({a \in of : a.account = id})]
<1> DEFINE rows == Panels!Rows(of, bucket)
           key == [r \in rows |-> r.key.account]
           group(id) == {r \in rows : key[r] = id}
           members(id) == {a \in of : a.account = id}
<1>1. ASSUME NEW id PROVE Panels!Totals(group(id)) = Panels!Counts(members(id))
  <2>1. Panels!Totals(group(id)) = Panels!Counts(From(of, bucket, group(id)))
    <3>1. group(id) \in SUBSET rows
      OBVIOUS
    <3> HIDE DEF group
    <3> QED BY <3>1, TotalsCount
  <2>2. From(of, bucket, group(id)) = members(id)
    <3>1. ASSUME NEW a \in of, NEW r \in rows, r.key = Panels!RowKey(a, bucket) PROVE key[r] = a.account
      BY <3>1 DEF Panels!RowKey
    <3>2. ASSUME NEW a \in of PROVE \E r \in rows : r.key = Panels!RowKey(a, bucket)
      BY RowExists
    <3> HIDE DEF rows, key
    <3>3. ASSUME NEW a \in From(of, bucket, group(id)) PROVE a \in members(id)
      BY <3>1 DEF From
    <3>4. ASSUME NEW a \in members(id) PROVE a \in From(of, bucket, group(id))
      BY <3>1, <3>2 DEF From
    <3> HIDE DEF group, members
    <3> QED BY <3>3, <3>4
  <2> HIDE DEF group, members
  <2> QED BY <2>1, <2>2
<1>2. {key[r] : r \in rows} = {a.account : a \in of}
  <2>1. ASSUME NEW r \in rows PROVE \E a \in of : key[r] = a.account
    <3>1. PICK a \in of : r.key = Panels!RowKey(a, bucket)
      BY RowHolds DEF Fields
    <3> QED BY <3>1 DEF Panels!RowKey
  <2>2. ASSUME NEW a \in of PROVE \E r \in rows : key[r] = a.account
    <3>1. PICK r \in rows : r.key = Panels!RowKey(a, bucket)
      BY RowExists
    <3> QED BY <3>1 DEF Panels!RowKey
  <2> HIDE DEF rows, key
  <2> QED BY <2>1, <2>2
<1>3. Panels!ByAccount(rows) = [id \in {key[r] : r \in rows} |-> Panels!Totals(group(id))]
  BY DEF Panels!ByAccount, Panels!GroupBy
<1> HIDE DEF rows, key, group, members
<1>4. Panels!ByAccount(rows) = [id \in {a.account : a \in of} |-> Panels!Counts(members(id))]
  BY <1>1, <1>2, <1>3
<1> QED BY <1>4 DEF members, rows

(* The figures are those of all attempts. *)
LEMMA KpisCount ==
    ASSUME NEW of, Counted(of), NEW bucket
    PROVE  LET kpis == Panels!Kpis(Panels!Rows(of, bucket))
           IN  kpis.requests = Cardinality(of) /\ kpis.failed = Panels!Counts(of).failed
<1> DEFINE rows == Panels!Rows(of, bucket)
<1>1. From(of, bucket, rows) = of
  <2>1. ASSUME NEW a \in of PROVE \E r \in rows : r.key = Panels!RowKey(a, bucket)
    BY RowExists
  <2> QED BY <2>1 DEF From
<1>2. Panels!Totals(rows) = Panels!Counts(of)
  BY <1>1, TotalsCount
<1>3. Panels!Counts(of).attempts = Cardinality(of)
  BY SameCardinality DEF Panels!Counts
<1> HIDE DEF rows
<1>4. Panels!Kpis(rows).requests = Panels!Totals(rows).attempts /\ Panels!Kpis(rows).failed = Panels!Totals(rows).failed
  BY DEF Panels!Kpis
<1> QED BY <1>2, <1>3, <1>4 DEF rows

(* Attempts are told apart by their numbers. *)
Numbered(some) ==
    /\ IsFiniteSet(some)
    /\ \A a \in some : a.id \in Nat
    /\ \A a, b \in some : a.id = b.id => a = b

(* Those that began after a; and a list of all, the newest first. *)
Newer(some, a) == {b \in some : b.id > a.id}

Sorted(list, some) ==
    /\ list \in [1 .. Cardinality(some) -> some]
    /\ \A i, j \in 1 .. Cardinality(some) : i < j => list[i].id > list[j].id

LEMMA NewerFewer ==
    ASSUME NEW some, Numbered(some), NEW a \in some, NEW b \in some, a.id > b.id
    PROVE  Cardinality(Newer(some, a)) < Cardinality(Newer(some, b))
<1>1. /\ Newer(some, a) \in SUBSET Newer(some, b)
      /\ b \notin Newer(some, b) /\ a \in Newer(some, b) /\ a \notin Newer(some, a)
  BY DEF Newer, Numbered
<1>2. IsFiniteSet(Newer(some, b))
  BY FS_Subset DEF Newer, Numbered
<1>3. /\ Cardinality(Newer(some, a)) <= Cardinality(Newer(some, b))
      /\ Cardinality(Newer(some, a)) # Cardinality(Newer(some, b))
  BY <1>1, <1>2, FS_Subset
<1>4. Cardinality(Newer(some, a)) \in Nat /\ Cardinality(Newer(some, b)) \in Nat
  BY <1>1, <1>2, FS_Subset, FS_CardinalityType
<1> QED BY <1>3, <1>4

(* There is a list of them, the newest first. *)
LEMMA LatestSorted ==
    ASSUME NEW some, Numbered(some)
    PROVE  Sorted(Panels!Latest(some), some)
<1> DEFINE n == Cardinality(some)
           rank == [a \in some |-> Cardinality(Newer(some, a)) + 1]
           list == [i \in 1 .. n |-> CHOOSE a \in some : rank[a] = i]
<1>1. n \in Nat
  BY FS_CardinalityType DEF Numbered
<1>2. ASSUME NEW a \in some PROVE rank[a] \in 1 .. n
  <2>1. Newer(some, a) \in SUBSET some /\ Newer(some, a) # some
    BY DEF Newer, Numbered
  <2>2. IsFiniteSet(Newer(some, a)) /\ Cardinality(Newer(some, a)) <= n /\ Cardinality(Newer(some, a)) # n
    BY <2>1, FS_Subset DEF Numbered
  <2>3. Cardinality(Newer(some, a)) \in Nat
    BY <2>2, FS_CardinalityType
  <2> HIDE DEF n
  <2> QED BY <1>1, <2>2, <2>3
<1>3. ASSUME NEW a \in some, NEW b \in some, a # b PROVE rank[a] # rank[b] /\ (rank[a] < rank[b] => a.id > b.id)
  <2>0. rank[a] = Cardinality(Newer(some, a)) + 1 /\ rank[b] = Cardinality(Newer(some, b)) + 1
    OBVIOUS
  <2>00. rank[a] \in Nat /\ rank[b] \in Nat
    BY <1>1, <1>2
  <2>1. CASE a.id > b.id
    <3>1. Cardinality(Newer(some, a)) < Cardinality(Newer(some, b))
      BY <2>1, NewerFewer
    <3>2. Cardinality(Newer(some, a)) \in Nat /\ Cardinality(Newer(some, b)) \in Nat
      BY FS_Subset, FS_CardinalityType DEF Newer, Numbered
    <3> HIDE DEF rank
    <3> QED BY <2>0, <2>1, <3>1, <3>2
  <2>2. CASE b.id > a.id
    <3>1. Cardinality(Newer(some, b)) < Cardinality(Newer(some, a))
      BY <2>2, NewerFewer
    <3>2. Cardinality(Newer(some, a)) \in Nat /\ Cardinality(Newer(some, b)) \in Nat
      BY FS_Subset, FS_CardinalityType DEF Newer, Numbered
    <3> HIDE DEF rank
    <3> QED BY <2>0, <2>2, <3>1, <3>2
  <2> QED BY <1>3, <2>1, <2>2 DEF Numbered
<1>4. rank \in Surjection(some, 1 .. n)
  <2>1. rank \in Injection(some, 1 .. n)
    <3>1. rank \in [some -> 1 .. n]
      <4>1. \A a \in some : rank[a] \in 1 .. n
        BY <1>2
      <4>2. rank = [a \in some |-> rank[a]]
        OBVIOUS
      <4> HIDE DEF rank, n
      <4> QED BY <4>1, <4>2
    <3> HIDE DEF rank, n
    <3>2. \A a, b \in some : rank[a] = rank[b] => a = b
      BY <1>3
    <3>3. DOMAIN rank = some
      BY <3>1
    <3> QED BY <3>1, <3>2, <3>3 DEF Injection, IsInjective
  <2>2. IsFiniteSet(1 .. n) /\ Cardinality(1 .. n) = Cardinality(some)
    BY <1>1, FS_Interval
  <2> HIDE DEF rank, n
  <2> QED BY <2>1, <2>2, FS_Injection
<1>5. ASSUME NEW i \in 1 .. n PROVE list[i] \in some /\ rank[list[i]] = i
  <2>1. PICK a \in some : rank[a] = i
    <3> HIDE DEF rank, n
    <3> QED BY <1>4 DEF Surjection
  <2> HIDE DEF rank, n
  <2> QED BY <2>1
<1>6. Sorted(list, some)
  <2>1. list \in [1 .. n -> some]
    <3> HIDE DEF rank
    <3>1. list = [i \in 1 .. n |-> list[i]]
      OBVIOUS
    <3> HIDE DEF list, n
    <3> QED BY <1>5, <3>1
  <2>2. ASSUME NEW i \in 1 .. n, NEW j \in 1 .. n, i < j PROVE list[i].id > list[j].id
    <3> HIDE DEF list, rank, n
    <3>1. list[i] # list[j]
      BY <1>1, <1>5, <2>2
    <3> QED BY <1>3, <1>5, <2>2, <3>1
  <2> HIDE DEF list, rank
  <2> QED BY <2>1, <2>2 DEF Sorted
<1>7. \A l : Sorted(l, some) <=> l \in [1 .. n -> some] /\ \A i, j \in DOMAIN l : i < j => l[i].id > l[j].id
  BY DEF Sorted
<1>8. Panels!Latest(some) = CHOOSE l \in [1 .. n -> some] : \A i, j \in DOMAIN l : i < j => l[i].id > l[j].id
  BY SameCardinality DEF Panels!Latest
<1> HIDE DEF list, n
<1> QED BY <1>6, <1>7, <1>8

(* As many are newer as come before in the list. *)
LEMMA LatestCounts ==
    ASSUME NEW some, Numbered(some), NEW i \in 1 .. Cardinality(some)
    PROVE  Cardinality(Newer(some, Panels!Latest(some)[i])) = i - 1
<1> DEFINE n == Cardinality(some)
           list == Panels!Latest(some)
           newer == Newer(some, list[i])
           first == [j \in 1 .. i - 1 |-> list[j]]
<1>1. n \in Nat
  BY FS_CardinalityType DEF Numbered
<1>2. list \in [1 .. n -> some] /\ \A j, k \in 1 .. n : j < k => list[j].id > list[k].id
  BY LatestSorted DEF Sorted
<1>3. \A j \in 1 .. n : list[j] \in some /\ list[j].id \in Nat
  BY <1>2 DEF Numbered
<1> HIDE DEF n, list
<1>4. list \in Surjection(1 .. n, some)
  <2>1. \A j, k \in 1 .. n : list[j] = list[k] => j = k
    <3> SUFFICES ASSUME NEW j \in 1 .. n, NEW k \in 1 .. n, j < k PROVE list[j] # list[k]
      BY <1>1
    <3> QED BY <1>2, <1>3
  <2>2. DOMAIN list = 1 .. n
    BY <1>2
  <2>3. list \in Injection(1 .. n, some)
    BY <1>2, <2>1, <2>2 DEF Injection, IsInjective
  <2>4. IsFiniteSet(some) /\ Cardinality(1 .. n) = Cardinality(some)
    BY <1>1, FS_Interval DEF Numbered, n
  <2> QED BY <2>3, <2>4, FS_Injection
<1>5. i \in 1 .. n
  BY DEF n
<1>6. first \in Bijection(1 .. i - 1, newer)
  <2>1. ASSUME NEW j \in 1 .. i - 1 PROVE first[j] \in newer /\ first[j] = list[j] /\ j \in 1 .. n
    BY <1>1, <1>2, <1>3, <1>5 DEF Newer
  <2>2. \A j, k \in 1 .. i - 1 : first[j] = first[k] => j = k
    <3> SUFFICES ASSUME NEW j \in 1 .. i - 1, NEW k \in 1 .. i - 1, j < k PROVE first[j] # first[k]
      BY <1>1, <1>5
    <3> QED BY <1>2, <1>3, <2>1
  <2>3. ASSUME NEW b \in newer PROVE \E j \in 1 .. i - 1 : first[j] = b
    <3>1. PICK j \in 1 .. n : list[j] = b
      BY <1>4 DEF Surjection, Newer
    <3>2. list[j].id > list[i].id
      BY <3>1 DEF Newer
    <3>3. ~(i < j) /\ i # j
      BY <1>2, <1>3, <1>5, <3>2
    <3>4. j \in 1 .. i - 1
      BY <1>1, <1>5, <3>3
    <3> QED BY <3>1, <3>4
  <2>4. first = [j \in 1 .. i - 1 |-> first[j]] /\ DOMAIN first = 1 .. i - 1
    OBVIOUS
  <2> HIDE DEF first, newer
  <2>5. first \in [1 .. i - 1 -> newer]
    BY <2>1, <2>4
  <2> QED BY <2>2, <2>3, <2>4, <2>5 DEF Bijection, Injection, Surjection, IsInjective
<1>7. i - 1 \in Nat
  BY <1>1, <1>5
<1> HIDE DEF first
<1>8. ExistsBijection(1 .. i - 1, newer)
  BY <1>6 DEF ExistsBijection
<1>9. Cardinality(newer) = i - 1
  <2> HIDE DEF newer
  <2> QED BY <1>7, <1>8, FS_CountingElements
<1> QED BY <1>9 DEF list

(***************************************************************************)
(* Buckets.                                                                *)
(***************************************************************************)

(* A multiple of n that is smaller than n is zero. *)
LEMMA SmallMultiple ==
    ASSUME NEW n \in Nat \ {0}, NEW d \in Int, -n < n * d, n * d < n
    PROVE  d = 0
OBVIOUS

(* Whole multiples leave no remainder. *)
LEMMA WholeTurns ==
    ASSUME NEW n \in Nat \ {0}, NEW k \in Int
    PROVE  (n * k) % n = 0
<1> DEFINE p == (n * k) \div n
           s == (n * k) % n
<1>0. n * k \in Int
  OBVIOUS
<1>1. p \in Int /\ s \in 0 .. n - 1 /\ n * k = n * p + s
  BY <1>0
<1> HIDE DEF p, s
<1>2. n * (k - p) = n * k - n * p
  BY <1>1
<1>3. n * (k - p) = s
  <2>1. n * p \in Int
    BY <1>1
  <2> QED BY <1>0, <1>1, <1>2, <2>1
<1>4. k - p = 0
  BY <1>1, <1>3, SmallMultiple
<1>5. s = 0
  BY <1>3, <1>4
<1> QED BY <1>5 DEF s

(* A start that the offset allows. *)
Aligned(t, bucket) == \E q \in Int : t = bucket * q - Offset

LEMMA OffsetType == Offset \in Int
BY PanelsAssumption DEF Panels!DashboardPanelsAssumption

(* The bucket of x is the aligned one that x lies in. *)
LEMMA BucketSpan ==
    ASSUME NEW x \in Int, NEW bucket \in Nat \ {0}
    PROVE  LET t == Panels!BucketOf(x, bucket)
           IN  t \in Int /\ t <= x /\ x < t + bucket /\ Aligned(t, bucket)
<1> DEFINE y == x + Offset
           q == y \div bucket
           r == y % bucket
<1>1. y \in Int
  BY OffsetType
<1> HIDE DEF y
<1>2. q \in Int /\ r \in 0 .. bucket - 1 /\ y = bucket * q + r
  BY <1>1
<1> HIDE DEF q, r
<1>3. Panels!BucketOf(x, bucket) = q * bucket - Offset
  BY DEF Panels!BucketOf, y, q
<1>4. q * bucket = bucket * q /\ bucket * q \in Int
  BY <1>2
<1>5. Aligned(bucket * q - Offset, bucket)
  BY <1>2 DEF Aligned
<1>6. x = y - Offset
  BY OffsetType DEF y
<1> DEFINE m == bucket * q
<1>7. m \in Int /\ Panels!BucketOf(x, bucket) = m - Offset /\ y = m + r /\ Aligned(m - Offset, bucket)
  BY <1>2, <1>3, <1>4, <1>5
<1> HIDE DEF m
<1> QED BY <1>1, <1>2, <1>6, <1>7, OffsetType

(* Two starts are a bucket apart, or the same. *)
LEMMA AlignedClose ==
    ASSUME NEW bucket \in Nat \ {0}, NEW t, NEW s, Aligned(t, bucket), Aligned(s, bucket),
           t - s < bucket, s - t < bucket
    PROVE  t = s
<1>1. PICK q \in Int : t = bucket * q - Offset
  BY DEF Aligned
<1>2. PICK p \in Int : s = bucket * p - Offset
  BY DEF Aligned
<1>3. bucket * q \in Int /\ bucket * p \in Int /\ bucket * (q - p) = bucket * q - bucket * p
  OBVIOUS
<1>4. -bucket < bucket * (q - p) /\ bucket * (q - p) < bucket
  BY <1>1, <1>2, <1>3, OffsetType
<1>5. q - p = 0
  BY <1>4, SmallMultiple
<1>6. q = p
  BY <1>5
<1> QED BY <1>1, <1>2, <1>6

LEMMA BucketUnique ==
    ASSUME NEW x \in Int, NEW bucket \in Nat \ {0}, NEW t \in Int, Aligned(t, bucket)
    PROVE  Panels!BucketOf(x, bucket) = t <=> t <= x /\ x < t + bucket
<1> DEFINE s == Panels!BucketOf(x, bucket)
<1>1. s \in Int /\ s <= x /\ x < s + bucket /\ Aligned(s, bucket)
  BY BucketSpan
<1> HIDE DEF s
<1>2. ASSUME t <= x, x < t + bucket PROVE s = t
  <2>1. t - s < bucket /\ s - t < bucket
    BY <1>1, <1>2
  <2> QED BY <1>1, <2>1, AlignedClose
<1> QED BY <1>1, <1>2 DEF s

(* The bucket of the begin of the window. *)
First(key) == Panels!BucketOf(now - RANGES[key].window, RANGES[key].bucket)

LEMMA RangeType ==
    ASSUME NEW key \in DOMAIN RANGES
    PROVE  RANGES[key].window \in Nat /\ RANGES[key].bucket \in Nat \ {0}
BY PanelsAssumption DEF Panels!DashboardPanelsAssumption

(* The drawn buckets are aligned, start with the first, and leave nothing   *)
(* out.                                                                     *)
LEMMA BucketsAre ==
    ASSUME now \in Int, NEW key \in DOMAIN RANGES
    PROVE  LET bucket == RANGES[key].bucket
               starts == Panels!Buckets(key)
           IN  /\ \A t \in starts : t \in Int /\ Aligned(t, bucket) /\ First(key) <= t
               /\ First(key) \in starts
               /\ \A x \in Int : First(key) <= x /\ x <= now => Panels!BucketOf(x, bucket) \in starts
<1> DEFINE bucket == RANGES[key].bucket
           w == now - RANGES[key].window
           first == First(key)
           starts == Panels!Buckets(key)
<1>1. bucket \in Nat \ {0} /\ w \in Int /\ w <= now
  BY RangeType
<1>2. starts = {t \in first .. now : (t - first) % bucket = 0}
  BY DEF Panels!Buckets, First, Panels!BucketOf
<1>3. first = Panels!BucketOf(w, bucket)
  BY DEF First
<1> HIDE DEF bucket, w, first, starts
<1>4. first \in Int /\ first <= w /\ Aligned(first, bucket)
  BY <1>1, <1>3, BucketSpan
<1>5. PICK p \in Int : first = bucket * p - Offset
  BY <1>4 DEF Aligned
<1>6. ASSUME NEW t \in starts PROVE t \in Int /\ Aligned(t, bucket) /\ first <= t
  <2>1. t \in Int /\ first <= t /\ (t - first) % bucket = 0
    BY <1>2, <1>4
  <2> DEFINE d == t - first
             k == d \div bucket
  <2>2. d \in Int /\ d % bucket = 0
    BY <1>4, <2>1
  <2>3. t = first + d
    BY <1>4, <2>1
  <2> HIDE DEF d
  <2>4. k \in Int /\ d = bucket * k
    BY <1>1, <2>2
  <2> HIDE DEF k
  <2>5. bucket * (p + k) = bucket * p + bucket * k /\ bucket * p \in Int /\ bucket * k \in Int /\ p + k \in Int
    BY <1>1, <1>5, <2>4
  <2>6. t = bucket * (p + k) - Offset
    <3> DEFINE m == bucket * p
               l == bucket * k
               o == bucket * (p + k)
    <3>1. first = m - Offset /\ d = l /\ o = m + l /\ m \in Int /\ l \in Int
      BY <1>5, <2>4, <2>5
    <3>2. SUFFICES t = o - Offset
      OBVIOUS
    <3> HIDE DEF m, l, o
    <3> QED BY <2>3, <3>1, OffsetType
  <2> QED BY <2>1, <2>5, <2>6 DEF Aligned
<1>7. first \in starts
  <2>1. first - first = 0 /\ 0 % bucket = 0
    BY <1>1, <1>4
  <2>2. first \in first .. now
    BY <1>1, <1>4
  <2> QED BY <1>2, <2>1, <2>2
<1>8. ASSUME NEW x \in Int, first <= x, x <= now PROVE Panels!BucketOf(x, bucket) \in starts
  <2> DEFINE t == Panels!BucketOf(x, bucket)
  <2>1. t \in Int /\ t <= x /\ x < t + bucket /\ Aligned(t, bucket)
    BY <1>1, BucketSpan
  <2> HIDE DEF t
  <2>2. PICK q \in Int : t = bucket * q - Offset
    BY <2>1 DEF Aligned
  <2>3. bucket * (q - p) = bucket * q - bucket * p /\ bucket * q \in Int /\ bucket * p \in Int /\ q - p \in Int
    BY <1>1
  <2>4. t - first = bucket * (q - p)
    <3> DEFINE m == bucket * p
               l == bucket * q
               o == bucket * (q - p)
    <3>1. first = m - Offset /\ t = l - Offset /\ o = l - m /\ m \in Int /\ l \in Int
      BY <1>5, <2>2, <2>3
    <3>2. SUFFICES t - first = o
      OBVIOUS
    <3> HIDE DEF m, l, o
    <3> QED BY <3>1, OffsetType
  <2>5. (t - first) % bucket = 0
    BY <1>1, <2>3, <2>4, WholeTurns
  <2>6. first <= t
    <3> SUFFICES ASSUME t < first PROVE FALSE
      BY <1>4, <2>1
    <3>1. t - first < bucket /\ first - t < bucket
      BY <1>1, <1>4, <1>8, <2>1
    <3> QED BY <1>1, <1>4, <2>1, <3>1, AlignedClose
  <2> QED BY <1>2, <1>4, <1>8, <2>1, <2>5, <2>6 DEF t
<1> QED BY <1>6, <1>7, <1>8 DEF bucket, first, starts

(***************************************************************************)
(* The axis.                                                               *)
(***************************************************************************)

(* f lists the first powers of ten. *)
Powers(f, n) ==
    f = [i \in 0 .. n |-> IF i = 0 THEN 1 ELSE 10 * f[i - 1]]

LEMMA PowersExist ==
    ASSUME NEW n \in Nat
    PROVE  \E f : Powers(f, n)
<1> DEFINE Bad == {k \in Nat : ~\E f : Powers(f, k)}
<1> SUFFICES ASSUME Bad # {} PROVE FALSE
  OBVIOUS
<1>1. PICK k \in Bad : \A l \in Bad : k <= l
  <2>1. Bad \in SUBSET Nat
    OBVIOUS
  <2> HIDE DEF Bad
  <2> QED BY <2>1, LeastNumber
<1>2. k \in Nat /\ ~\E f : Powers(f, k)
  OBVIOUS
<1>3. CASE k = 0
  <2> DEFINE f == [i \in 0 .. 0 |-> 1]
  <2>1. f = [i \in 0 .. 0 |-> IF i = 0 THEN 1 ELSE 10 * f[i - 1]]
    OBVIOUS
  <2> QED BY <1>2, <1>3, <2>1 DEF Powers
<1>4. CASE k > 0
  <2>1. k - 1 \in Nat /\ ~(k <= k - 1)
    BY <1>2, <1>4
  <2>2. k - 1 \notin Bad
    <3> HIDE DEF Bad
    <3> QED BY <1>1, <2>1
  <2>3. PICK f : Powers(f, k - 1)
    BY <2>1, <2>2
  <2> DEFINE h == [i \in 0 .. k |-> IF i = k THEN 10 * f[k - 1] ELSE f[i]]
             g == [i \in 0 .. k |-> IF i = 0 THEN 1 ELSE 10 * h[i - 1]]
  <2>4. ASSUME NEW i \in 0 .. k PROVE h[i] = g[i]
    <3>1. CASE i = 0
      <4>1. f[0] = 1
        BY <1>2, <1>4, <2>3 DEF Powers
      <4> QED BY <1>4, <3>1, <4>1
    <3>2. CASE i = k
      <4>1. h[k - 1] = f[k - 1]
        BY <1>2, <1>4
      <4> QED BY <1>2, <1>4, <3>2, <4>1
    <3>3. CASE i \in 1 .. k - 1
      <4>1. h[i] = f[i] /\ h[i - 1] = f[i - 1]
        BY <1>2, <3>3
      <4>2. f[i] = 10 * f[i - 1]
        BY <1>2, <2>3, <3>3 DEF Powers
      <4> QED BY <1>2, <3>3, <4>1, <4>2
    <3> QED BY <1>2, <3>1, <3>2, <3>3
  <2>5. h = [i \in 0 .. k |-> h[i]] /\ g = [i \in 0 .. k |-> g[i]]
    OBVIOUS
  <2>6. h = g
    <3> HIDE DEF h, g
    <3> QED BY <2>4, <2>5
  <2>7. Powers(h, k)
    <3> HIDE DEF h
    <3> QED BY <2>6 DEF Powers
  <2> QED BY <1>2, <2>7
<1> QED BY <1>2, <1>3, <1>4

LEMMA PowersUnique ==
    ASSUME NEW n \in Nat, NEW m \in Nat, NEW f, NEW g, Powers(f, n), Powers(g, m),
           NEW i \in Nat, i <= n, i <= m
    PROVE  f[i] = g[i]
<1> DEFINE Bad == {k \in Nat : k <= n /\ k <= m /\ f[k] # g[k]}
<1> SUFFICES ASSUME Bad # {} PROVE FALSE
  OBVIOUS
<1>1. PICK k \in Bad : \A l \in Bad : k <= l
  <2>1. Bad \in SUBSET Nat
    OBVIOUS
  <2> HIDE DEF Bad
  <2> QED BY <2>1, LeastNumber
<1>2. k \in Nat /\ k <= n /\ k <= m /\ f[k] # g[k]
  OBVIOUS
<1>3. k # 0 /\ k \in 0 .. n /\ k \in 0 .. m /\ f[k] = 10 * f[k - 1] /\ g[k] = 10 * g[k - 1]
  BY <1>2 DEF Powers
<1>4. k - 1 \in Nat /\ k - 1 <= n /\ k - 1 <= m /\ ~(k <= k - 1)
  BY <1>2, <1>3
<1>5. f[k - 1] = g[k - 1]
  <2>1. k - 1 \notin Bad
    <3> HIDE DEF Bad
    <3> QED BY <1>1, <1>4
  <2> QED BY <1>4, <2>1
<1> QED BY <1>2, <1>3, <1>5

LEMMA TenIs ==
    Panels!Ten = [n \in Nat |-> IF n = 0 THEN 1 ELSE 10 * Panels!Ten[n - 1]]
<1> DEFINE is(t) == t = [n \in Nat |-> IF n = 0 THEN 1 ELSE 10 * t[n - 1]]
           row == [n \in Nat |-> CHOOSE f : Powers(f, n)]
           t == [n \in Nat |-> row[n][n]]
           u == [n \in Nat |-> IF n = 0 THEN 1 ELSE 10 * t[n - 1]]
<1>1. \A n \in Nat : Powers(row[n], n)
  BY PowersExist
<1> HIDE DEF row
<1>2. ASSUME NEW n \in Nat PROVE t[n] = u[n]
  <2> DEFINE f == row[n]
  <2>0. f = [i \in 0 .. n |-> IF i = 0 THEN 1 ELSE 10 * f[i - 1]]
    BY <1>1 DEF Powers
  <2> HIDE DEF f
  <2>00. f[n] = IF n = 0 THEN 1 ELSE 10 * f[n - 1]
    BY <2>0
  <2>1. CASE n = 0
    BY <2>1, <2>00 DEF f
  <2>2. CASE n # 0
    <3>1. row[n][n] = 10 * row[n][n - 1]
      BY <2>00, <2>2 DEF f
    <3>2. n - 1 \in Nat /\ n - 1 <= n
      BY <2>2
    <3>3. row[n][n - 1] = row[n - 1][n - 1]
      BY <1>1, <3>2, PowersUnique
    <3> QED BY <2>2, <3>1, <3>2, <3>3
  <2> QED BY <2>1, <2>2
<1>3. t = [n \in Nat |-> t[n]] /\ u = [n \in Nat |-> u[n]]
  OBVIOUS
<1>4. t = u
  <2> HIDE DEF t, u
  <2> QED BY <1>2, <1>3
<1>5. is(t)
  <2> HIDE DEF t
  <2> QED BY <1>4
<1>6. \E f : is(f)
  <2> HIDE DEF is, t
  <2> QED BY <1>5
<1> DEFINE ten == CHOOSE f : is(f)
<1>7. is(ten)
  <2> HIDE DEF is
  <2> QED BY <1>6
<1>8. Panels!Ten = ten
  BY DEF Panels!Ten
<1> HIDE DEF ten
<1> QED BY <1>7, <1>8

LEMMA TenType ==
    ASSUME NEW n \in Nat
    PROVE  Panels!Ten[n] \in Nat /\ Panels!Ten[n] > n /\ Panels!Ten[n + 1] = 10 * Panels!Ten[n]
<1> DEFINE ten == Panels!Ten
           Bad == {k \in Nat : ~(ten[k] \in Nat /\ ten[k] > k)}
<1>0. ten = [k \in Nat |-> IF k = 0 THEN 1 ELSE 10 * ten[k - 1]]
  BY TenIs
<1> HIDE DEF ten
<1>1. ten[0] = 1 /\ \A k \in Nat : ten[k + 1] = 10 * ten[k]
  BY <1>0
<1>2. ASSUME Bad # {} PROVE FALSE
  <2>1. PICK k \in Bad : \A l \in Bad : k <= l
    <3>1. Bad \in SUBSET Nat
      OBVIOUS
    <3> HIDE DEF Bad
    <3> QED BY <1>2, <3>1, LeastNumber
  <2>2. k \in Nat /\ ~(ten[k] \in Nat /\ ten[k] > k)
    OBVIOUS
  <2>3. k # 0
    BY <1>1, <2>2
  <2>4. k - 1 \in Nat /\ ~(k <= k - 1) /\ (k - 1) + 1 = k
    BY <2>2, <2>3
  <2>5. ten[k - 1] \in Nat /\ ten[k - 1] > k - 1
    <3>1. k - 1 \notin Bad
      <4> HIDE DEF Bad
      <4> QED BY <2>1, <2>4
    <3> QED BY <2>4, <3>1
  <2>6. ten[k] = 10 * ten[k - 1]
    BY <1>1, <2>4
  <2> QED BY <2>2, <2>3, <2>4, <2>5, <2>6
<1> QED BY <1>1, <1>2 DEF ten

(* A step is not below what it is asked for. *)
LEMMA NiceStepReaches ==
    ASSUME NEW raw \in Nat \ {0}
    PROVE  Panels!NiceStep(raw) \in Nat /\ Panels!NiceStep(raw) >= raw
<1> DEFINE ten == Panels!Ten
           n == CHOOSE n \in 0 .. raw : ten[n] <= raw /\ raw < ten[n + 1]
           power == ten[n]
           steps == {step \in {power, 2 * power, 5 * power, 10 * power} : step >= raw}
<1>0. \A k \in Nat : ten[k] \in Nat /\ ten[k] > k /\ ten[k + 1] = 10 * ten[k]
  BY TenType
<1>00. ten[0] = 1
  BY TenIs
<1> HIDE DEF ten
<1>1. \E k \in 0 .. raw : ten[k] <= raw /\ raw < ten[k + 1]
  <2> DEFINE Above == {k \in Nat : raw < ten[k]}
  <2>1. raw \in Above /\ Above \in SUBSET Nat
    BY <1>0
  <2>2. PICK k \in Above : \A l \in Above : k <= l
    <3> HIDE DEF Above
    <3> QED BY <2>1, LeastNumber
  <2>3. k # 0 /\ k \in Nat /\ raw < ten[k] /\ k <= raw
    BY <1>00, <2>1, <2>2
  <2>4. k - 1 \in Nat /\ ~(k <= k - 1) /\ (k - 1) + 1 = k /\ k - 1 \in 0 .. raw
    BY <2>3
  <2>5. ten[k - 1] <= raw
    <3>1. k - 1 \notin Above
      <4> HIDE DEF Above
      <4> QED BY <2>2, <2>4
    <3> QED BY <1>0, <2>4, <3>1
  <2> QED BY <2>3, <2>4, <2>5
<1>2. n \in 0 .. raw /\ ten[n] <= raw /\ raw < ten[n + 1]
  BY <1>1
<1> HIDE DEF n
<1>3. power \in Nat /\ raw < 10 * power
  BY <1>0, <1>2
<1>4. Panels!NiceStep(raw) = CHOOSE x \in steps : \A y \in steps : x <= y
  BY DEF Panels!NiceStep, Panels!Min, n, ten
<1> HIDE DEF power
<1>5. steps \in SUBSET Nat /\ steps # {} /\ \A x \in steps : x >= raw
  BY <1>3
<1> HIDE DEF steps
<1>6. \E x \in steps : \A y \in steps : x <= y
  BY <1>5, LeastNumber
<1> QED BY <1>4, <1>5, <1>6

(* The highest of bounded numbers. *)
LEMMA MaxIs ==
    ASSUME NEW S \in SUBSET Nat, S # {}, NEW bound \in Nat, \A s \in S : s <= bound
    PROVE  Panels!Max(S) \in S /\ \A s \in S : s <= Panels!Max(S)
<1> DEFINE Upper == {n \in Nat : \A s \in S : s <= n}
<1>1. PICK m \in Upper : \A n \in Upper : m <= n
  <2>1. bound \in Upper /\ Upper \in SUBSET Nat
    OBVIOUS
  <2> HIDE DEF Upper
  <2> QED BY <2>1, LeastNumber
<1>2. m \in Nat /\ \A s \in S : s <= m
  OBVIOUS
<1>3. m \in S
  <2> SUFFICES ASSUME m \notin S PROVE FALSE
    OBVIOUS
  <2>1. \A s \in S : s \in Nat /\ s < m
    BY <1>2
  <2>0. m > 0
    <3>1. PICK s \in S : TRUE
      OBVIOUS
    <3>2. s \in Nat /\ s < m
      BY <2>1
    <3> QED BY <1>2, <3>2
  <2>2. m - 1 \in Nat /\ \A s \in S : s <= m - 1
    BY <1>2, <2>0, <2>1
  <2>3. m - 1 \in Upper /\ ~(m <= m - 1)
    BY <1>2, <2>2
  <2> HIDE DEF Upper
  <2> QED BY <1>1, <2>3
<1>4. Panels!Max(S) = CHOOSE x \in S : \A y \in S : x >= y
  BY DEF Panels!Max
<1>5. \E x \in S : \A y \in S : x >= y
  BY <1>2, <1>3
<1> QED BY <1>4, <1>5

(* The axis reaches over the highest bar, in one to four steps. *)
LEMMA AxisReaches ==
    ASSUME NEW bars, NEW bound \in Nat,
           \A t \in DOMAIN bars : Panels!Height(bars[t]) \in Nat /\ Panels!Height(bars[t]) <= bound
    PROVE  LET axis == Panels!Axis(bars)
           IN  /\ \A t \in DOMAIN bars : Panels!Height(bars[t]) * 100 <= axis.top
               /\ axis.top \div axis.step \in 1 .. 5
<1> DEFINE heights == {Panels!Height(bars[t]) : t \in DOMAIN bars} \cup {0}
           highest == Panels!Max(heights)
           raw == IF highest = 0 THEN 100 ELSE highest * 25
           step == Panels!NiceStep(raw)
           count == (highest * 100 + step - 1) \div step
           top == Panels!Max({step, count * step})
<1>1. Panels!Axis(bars) = [step |-> step, top |-> top]
  BY DEF Panels!Axis
<1>2. highest \in Nat /\ \A t \in DOMAIN bars : Panels!Height(bars[t]) \in Nat /\ Panels!Height(bars[t]) <= highest
  <2>1. heights \in SUBSET Nat /\ heights # {} /\ \A h \in heights : h <= bound
    OBVIOUS
  <2>2. \A t \in DOMAIN bars : Panels!Height(bars[t]) \in heights
    OBVIOUS
  <2> HIDE DEF heights
  <2> QED BY <2>1, <2>2, MaxIs
<1> HIDE DEF highest
<1>3. raw \in Nat \ {0} /\ highest * 100 <= 4 * raw
  BY <1>2
<1>4. step \in Nat \ {0} /\ step >= raw
  <2> HIDE DEF raw
  <2> QED BY <1>3, NiceStepReaches
<1> HIDE DEF raw, step
<1> DEFINE r == (highest * 100 + step - 1) % step
           m == step * count
<1>5. count \in Int /\ r \in 0 .. step - 1 /\ highest * 100 + step - 1 = step * count + r
  BY <1>2, <1>4
<1> HIDE DEF count, r
<1>6. m \in Int /\ highest * 100 + step - 1 = m + r /\ count * step = m
  BY <1>4, <1>5
<1>7. highest * 100 <= m /\ m <= highest * 100 + step - 1
  <2> HIDE DEF m
  <2> QED BY <1>2, <1>4, <1>5, <1>6
<1>8. count >= 0 /\ count <= 4
  <2>1. m <= 4 * step + step - 1
    <3> HIDE DEF m
    <3> QED BY <1>2, <1>3, <1>4, <1>6, <1>7
  <2>2. m >= 0
    <3> HIDE DEF m
    <3> QED BY <1>2, <1>6, <1>7
  <2>3. step * count < step * 5
    BY <1>4, <1>5, <2>1
  <2>4. step * count >= 0
    BY <2>2
  <2> QED BY <1>4, <1>5, <2>3, <2>4
<1>9. top = (IF count = 0 THEN step ELSE m) /\ m <= top
  <2>1. count = 0 => m = 0
    BY <1>4
  <2>2. count # 0 => m >= step
    BY <1>4, <1>5, <1>8
  <2> DEFINE S == {step, m}
             big == IF count = 0 THEN step ELSE m
  <2>3. top = CHOOSE x \in S : \A y \in S : x >= y
    BY <1>6 DEF Panels!Max
  <2> HIDE DEF m
  <2>4. big \in S /\ \A x \in S : (\A y \in S : x >= y) <=> x = big
    BY <1>4, <1>6, <2>1, <2>2
  <2>5. top = big
    <3> HIDE DEF S, big, top
    <3> QED BY <2>3, <2>4
  <2> QED BY <1>4, <1>6, <2>1, <2>5
<1>10. top \div step \in 1 .. 5
  <2>1. CASE count = 0
    <3>1. top = step * 1
      BY <1>4, <1>9, <2>1
    <3>2. (step * 1) \div step = 1
      BY <1>4
    <3> QED BY <3>1, <3>2
  <2>2. CASE count \in 1 .. 4
    <3>1. top = step * count
      BY <1>9, <2>2
    <3>2. (step * count) \div step = count
      BY <1>4, <2>2
    <3> QED BY <2>2, <3>1, <3>2
  <2> QED BY <1>5, <1>8, <2>1, <2>2
<1>11. \A t \in DOMAIN bars : Panels!Height(bars[t]) * 100 <= top
  <2> HIDE DEF m
  <2>1. highest * 100 <= top
    BY <1>2, <1>4, <1>6, <1>7, <1>9
  <2>2. top \in Int
    BY <1>4, <1>6, <1>9
  <2> HIDE DEF top
  <2> QED BY <1>2, <2>1, <2>2
<1> HIDE DEF top
<1> QED BY <1>1, <1>10, <1>11

(***************************************************************************)
(* Series: no more have a color of their own than there are slots.         *)
(***************************************************************************)

(* indexOf *)
Index(list, p) == Panels!Min({i \in DOMAIN list : list[i] = p})

LEMMA FirstIndex ==
    ASSUME NEW list \in Seq(STRING), NEW p \in Panels!ToSet(list)
    PROVE  Index(list, p) \in 1 .. Len(list) /\ list[Index(list, p)] = p
<1> DEFINE S == {i \in DOMAIN list : list[i] = p}
<1>1. S \in SUBSET Nat /\ S # {} /\ S \in SUBSET (1 .. Len(list))
  BY DEF Panels!ToSet
<1>2. \A i \in S : list[i] = p
  OBVIOUS
<1>3. Index(list, p) = CHOOSE x \in S : \A y \in S : x <= y
  BY DEF Index, Panels!Min
<1> HIDE DEF S
<1>4. \E x \in S : \A y \in S : x <= y
  BY <1>1, LeastNumber
<1> QED BY <1>1, <1>2, <1>3, <1>4

(* Providers with a position. *)
Known == Panels!ToSet(Catalog) \cup Panels!ToSet(Alphabet)

LEMMA Names == {Catalog, Alphabet} \subseteq Seq(STRING) /\ Slots \in Nat /\ Newest \in Nat /\ Start \in Int
BY PanelsAssumption DEF Panels!DashboardPanelsAssumption

LEMMA PositionsDiffer ==
    ASSUME NEW p \in Known, NEW q \in Known
    PROVE  Panels!Position(p) \in Nat /\ (Panels!Position(p) = Panels!Position(q) => p = q)
<1>1. \A r : Panels!Position(r) = IF r \in Panels!ToSet(Catalog) THEN Index(Catalog, r)
                                  ELSE Len(Catalog) + Index(Alphabet, r)
  BY DEF Panels!Position, Index
<1>2. Len(Catalog) \in Nat /\ Len(Alphabet) \in Nat
  BY Names
<1>3. ASSUME NEW r \in Known
      PROVE  \/ /\ r \in Panels!ToSet(Catalog) /\ Panels!Position(r) \in 1 .. Len(Catalog)
                /\ Catalog[Panels!Position(r)] = r
             \/ /\ Panels!Position(r) > Len(Catalog) /\ Panels!Position(r) \in Nat
                /\ Alphabet[Panels!Position(r) - Len(Catalog)] = r
  <2>1. CASE r \in Panels!ToSet(Catalog)
    BY <1>1, <2>1, Names, FirstIndex
  <2>2. CASE r \notin Panels!ToSet(Catalog)
    <3>1. r \in Panels!ToSet(Alphabet)
      BY <2>2 DEF Known
    <3>2. Index(Alphabet, r) \in 1 .. Len(Alphabet) /\ Alphabet[Index(Alphabet, r)] = r
      BY <3>1, Names, FirstIndex
    <3>3. Panels!Position(r) = Len(Catalog) + Index(Alphabet, r)
      BY <1>1, <2>2
    <3>4. Panels!Position(r) - Len(Catalog) = Index(Alphabet, r)
      BY <1>2, <3>2, <3>3
    <3> QED BY <1>2, <3>2, <3>3, <3>4
  <2> QED BY <2>1, <2>2
<1>4. Panels!Position(p) \in Nat
  BY <1>2, <1>3
<1>5. ASSUME Panels!Position(p) = Panels!Position(q) PROVE p = q
  <2>1. CASE /\ p \in Panels!ToSet(Catalog) /\ Panels!Position(p) \in 1 .. Len(Catalog)
             /\ Catalog[Panels!Position(p)] = p
    BY <1>2, <1>3, <1>5, <2>1
  <2>2. CASE Panels!Position(p) > Len(Catalog) /\ Panels!Position(p) \in Nat
             /\ Alphabet[Panels!Position(p) - Len(Catalog)] = p
    BY <1>2, <1>3, <1>5, <2>2
  <2> QED BY <1>3, <2>1, <2>2
<1> QED BY <1>4, <1>5

LEMMA NamesFinite ==
    ASSUME NEW list \in Seq(STRING)
    PROVE  IsFiniteSet(Panels!ToSet(list))
<1>1. list \in Surjection(1 .. Len(list), Panels!ToSet(list))
  BY DEF Surjection, Panels!ToSet
<1>2. IsFiniteSet(1 .. Len(list))
  BY FS_Interval
<1> QED BY <1>1, <1>2, FS_Surjection

(* Those before p in the order, and those with a color of their own. *)
Before(p, order) == {q \in order : Panels!Position(q) < Panels!Position(p)}

LEMMA BeforeFewer ==
    ASSUME NEW order \in SUBSET Known, NEW p \in order, NEW q \in order,
           Panels!Position(p) < Panels!Position(q)
    PROVE  /\ Cardinality(Before(p, order)) \in Nat
           /\ Cardinality(Before(q, order)) \in Nat
           /\ Cardinality(Before(p, order)) < Cardinality(Before(q, order))
<1>1. IsFiniteSet(order)
  <2>1. IsFiniteSet(Panels!ToSet(Catalog)) /\ IsFiniteSet(Panels!ToSet(Alphabet))
    BY Names, NamesFinite
  <2>2. IsFiniteSet(Known)
    BY <2>1, FS_Union DEF Known
  <2> QED BY <2>2, FS_Subset
<1>2. \A r \in order : Panels!Position(r) \in Nat
  BY PositionsDiffer
<1>3. IsFiniteSet(Before(p, order)) /\ IsFiniteSet(Before(q, order))
  BY <1>1, FS_Subset DEF Before
<1>4. Before(p, order) \in SUBSET Before(q, order) /\ Before(p, order) # Before(q, order)
  BY <1>2 DEF Before
<1>5. /\ Cardinality(Before(p, order)) <= Cardinality(Before(q, order))
      /\ Cardinality(Before(p, order)) # Cardinality(Before(q, order))
  BY <1>3, <1>4, FS_Subset
<1>6. Cardinality(Before(p, order)) \in Nat /\ Cardinality(Before(q, order)) \in Nat
  BY <1>3, FS_CardinalityType
<1> QED BY <1>5, <1>6

Colored(order) == {p \in order : Cardinality(Before(p, order)) < Slots}

LEMMA SlotsSuffice ==
    ASSUME NEW order \in SUBSET Known, NEW some \in SUBSET Colored(order)
    PROVE  Cardinality(some) <= Slots
<1> DEFINE rank == [p \in some |-> Cardinality(Before(p, order))]
<1>1. \A p \in some : p \in order /\ Cardinality(Before(p, order)) < Slots
  BY DEF Colored
<1>0. IsFiniteSet(order)
  <2>1. IsFiniteSet(Panels!ToSet(Catalog)) /\ IsFiniteSet(Panels!ToSet(Alphabet))
    BY Names, NamesFinite
  <2>2. IsFiniteSet(Known)
    BY <2>1, FS_Union DEF Known
  <2> QED BY <2>2, FS_Subset
<1>2. \A p \in some : rank[p] \in 0 .. Slots - 1
  <2> SUFFICES ASSUME NEW p \in some PROVE Cardinality(Before(p, order)) \in 0 .. Slots - 1
    OBVIOUS
  <2>1. IsFiniteSet(Before(p, order))
    BY <1>0, FS_Subset DEF Before
  <2>2. Cardinality(Before(p, order)) \in Nat
    BY <2>1, FS_CardinalityType
  <2> QED BY <1>1, <2>2, Names
<1>3. \A p, q \in some : rank[p] = rank[q] => p = q
  <2> SUFFICES ASSUME NEW p \in some, NEW q \in some, p # q,
                      Cardinality(Before(p, order)) = Cardinality(Before(q, order))
               PROVE FALSE
    OBVIOUS
  <2>1. p \in order /\ q \in order /\ p \in Known /\ q \in Known
    BY <1>1
  <2>2. Panels!Position(p) \in Nat /\ Panels!Position(q) \in Nat /\ Panels!Position(p) # Panels!Position(q)
    BY <2>1, PositionsDiffer
  <2>3. CASE Panels!Position(p) < Panels!Position(q)
    BY <2>1, <2>3, BeforeFewer
  <2>4. CASE Panels!Position(q) < Panels!Position(p)
    BY <2>1, <2>4, BeforeFewer
  <2> QED BY <2>2, <2>3, <2>4
<1>4. rank = [p \in some |-> rank[p]] /\ DOMAIN rank = some
  OBVIOUS
<1> HIDE DEF rank
<1>5. rank \in [some -> 0 .. Slots - 1]
  BY <1>2, <1>4
<1>6. rank \in Injection(some, 0 .. Slots - 1)
  BY <1>3, <1>4, <1>5 DEF Injection, IsInjective
<1>7. IsFiniteSet(0 .. Slots - 1) /\ Cardinality(0 .. Slots - 1) = Slots
  BY FS_Interval, Names
<1> QED BY <1>6, <1>7, FS_Injection

(***************************************************************************)
(* Bars.                                                                   *)
(***************************************************************************)

(* A report of attempts that had begun by now. *)
Reported(rep) ==
    /\ rep.range \in DOMAIN RANGES
    /\ Counted(rep.of) /\ Numbered(rep.of)
    /\ \A a \in rep.of : a.at <= now /\ a.provider \in Panels!ToSet(Alphabet)
    /\ rep.rows = Panels!Rows(rep.of, RANGES[rep.range].bucket)
    /\ rep.recent = SubSeq(Panels!Latest(rep.of), 1, Panels!Min({Newest, Cardinality(rep.of)}))

(* What lies in a bucket; the series that are drawn; the rows of one in a    *)
(* bucket.                                                                  *)
Lies(of, t, bucket) == {a \in of : t <= a.at /\ a.at < t + bucket}

Series(rows, key, order) ==
    {Panels!SeriesKey(r.key.provider, order) : r \in {q \in rows : q.key.bucket \in Panels!Buckets(key)}}

Piece(rows, t, k, order) == {r \in rows : r.key.bucket = t /\ Panels!SeriesKey(r.key.provider, order) = k}

LEMMA BarsAre ==
    ASSUME NEW rows, NEW key, NEW of, NEW order
    PROVE  Panels!Bars(rows, key, of, order) =
             [t \in Panels!Buckets(key) |-> [k \in Series(rows, key, order) |->
                 Panels!Added(Piece(rows, t, k, order), of)]]
BY DEF Panels!Bars, Series, Piece

LEMMA SeriesFinite ==
    ASSUME NEW rows, IsFiniteSet(rows), NEW key, NEW order
    PROVE  IsFiniteSet(Series(rows, key, order))
<1> DEFINE some == {q \in rows : q.key.bucket \in Panels!Buckets(key)}
           f == [r \in some |-> Panels!SeriesKey(r.key.provider, order)]
<1>1. IsFiniteSet(some)
  BY FS_Subset
<1>2. f \in Surjection(some, Series(rows, key, order))
  BY DEF Series, Surjection
<1> HIDE DEF some, f
<1> QED BY <1>1, <1>2, FS_Surjection

(* Bars of a bucket add up to what lies in it. *)
LEMMA BarHeight ==
    ASSUME now \in Int, NEW rep, Reported(rep), NEW of \in {"attempts", "tokens"}, NEW order,
           NEW t \in Panels!Buckets(rep.range)
    PROVE  Panels!Height(Panels!Bars(rep.rows, rep.range, of, order)[t]) =
             Cardinality(Units(Lies(rep.of, t, RANGES[rep.range].bucket), of))
<1> DEFINE key == rep.range
           bucket == RANGES[key].bucket
           rows == Panels!Rows(rep.of, bucket)
           series == Series(rows, key, order)
           piece(k) == Piece(rows, t, k, order)
           f == [k \in series |-> Panels!Added(piece(k), of)]
           cell == [k \in series |-> Units(From(rep.of, bucket, piece(k)), of)]
<1>0. key \in DOMAIN RANGES /\ rep.rows = rows /\ Counted(rep.of)
  BY DEF Reported
<1>1. bucket \in Nat \ {0} /\ t \in Int /\ Aligned(t, bucket)
  BY <1>0, RangeType, BucketsAre
<1>2. Panels!Bars(rep.rows, key, of, order)[t] = f
  BY <1>0, BarsAre
<1>3. Panels!Height(f) = Panels!SumOf(f)
  BY DEF Panels!Height
<1>4. \A k \in series : IsFiniteSet(cell[k]) /\ f[k] = Cardinality(cell[k])
  <2> SUFFICES ASSUME NEW k \in series PROVE IsFiniteSet(cell[k]) /\ f[k] = Cardinality(cell[k])
    OBVIOUS
  <2>1. piece(k) \in SUBSET rows /\ From(rep.of, bucket, piece(k)) \in SUBSET rep.of
    BY DEF Piece, From
  <2>2. Panels!Added(piece(k), of) = Cardinality(Units(From(rep.of, bucket, piece(k)), of))
    <3> HIDE DEF piece
    <3> QED BY <1>0, <2>1, AddedRows DEF Fields, rows
  <2>3. IsFiniteSet(Units(From(rep.of, bucket, piece(k)), of))
    <3> HIDE DEF piece
    <3> QED BY <1>0, <2>1, CountedSubset, UnitsFinite
  <2> HIDE DEF piece, series
  <2> QED BY <2>2, <2>3
<1>5. \A k, l \in series : k # l => cell[k] \cap cell[l] = {}
  <2> SUFFICES ASSUME NEW k \in series, NEW l \in series, NEW u \in cell[k], u \in cell[l] PROVE k = l
    OBVIOUS
  <2> DEFINE fk == From(rep.of, bucket, piece(k))
             fl == From(rep.of, bucket, piece(l))
  <2>1. \A a \in fk : Panels!SeriesKey(a.provider, order) = k
    BY DEF From, Piece, Panels!RowKey
  <2>2. \A a \in fl : Panels!SeriesKey(a.provider, order) = l
    BY DEF From, Piece, Panels!RowKey
  <2>3. u \in Units(fk, of) /\ u \in Units(fl, of)
    OBVIOUS
  <2> HIDE DEF fk, fl
  <2>4. fk \cap fl # {}
    <3>1. CASE of = "attempts"
      BY <2>3, <3>1 DEF Units
    <3>2. CASE of = "tokens"
      <4>1. PICK a \in fk : u \in TokensOf(a)
        BY <2>3, <3>2 DEF Units
      <4>2. PICK b \in fl : u \in TokensOf(b)
        BY <2>3, <3>2 DEF Units
      <4>3. a = b
        BY <4>1, <4>2 DEF TokensOf
      <4> QED BY <4>3
    <3> QED BY <3>1, <3>2
  <2> QED BY <2>1, <2>2, <2>4
<1>6. All(cell, series) = Units(Lies(rep.of, t, bucket), of)
  <2> DEFINE from == {a \in rep.of : \E k \in series : a \in From(rep.of, bucket, piece(k))}
  <2>1. from = Lies(rep.of, t, bucket)
    <3>1. ASSUME NEW a \in rep.of, NEW k \in series, a \in From(rep.of, bucket, piece(k))
          PROVE  Panels!BucketOf(a.at, bucket) = t
      BY <3>1 DEF From, Piece, Panels!RowKey
    <3>2. ASSUME NEW a \in rep.of, Panels!BucketOf(a.at, bucket) = t
          PROVE  \E k \in series : a \in From(rep.of, bucket, piece(k))
      <4>1. PICK r \in rows : r.key = Panels!RowKey(a, bucket)
        BY RowExists
      <4>2. r.key.bucket = t
        BY <3>2, <4>1 DEF Panels!RowKey
      <4> DEFINE k == Panels!SeriesKey(r.key.provider, order)
      <4>3. k \in series
        BY <4>2 DEF Series
      <4>4. r \in piece(k)
        BY <4>2 DEF Piece
      <4> HIDE DEF k, series, rows
      <4> QED BY <4>1, <4>3, <4>4 DEF From
    <3>3. \A a \in rep.of : a.at \in Int
      BY <1>0 DEF Counted
    <3>4. \A a \in rep.of : Panels!BucketOf(a.at, bucket) = t <=> t <= a.at /\ a.at < t + bucket
      BY <1>1, <3>3, BucketUnique
    <3> HIDE DEF series, piece, bucket
    <3> QED BY <3>1, <3>2, <3>4 DEF Lies
  <2>2. All(cell, series) = Units(from, of)
    <3>0. \A k : From(rep.of, bucket, piece(k)) \in SUBSET rep.of
      BY DEF From
    <3>1. CASE of = "attempts"
      <4> HIDE DEF series, piece
      <4> QED BY <3>0, <3>1 DEF All, Units
    <3>2. CASE of = "tokens"
      <4>1. All(cell, series) = UNION {UNION {TokensOf(a) : a \in From(rep.of, bucket, piece(k))} : k \in series}
        BY <3>2 DEF All, Units
      <4>2. Units(from, of) = UNION {TokensOf(a) : a \in from}
        BY <3>2 DEF Units
      <4> HIDE DEF cell, series, piece
      <4> QED BY <3>0, <4>1, <4>2
    <3> QED BY <3>1, <3>2
  <2> HIDE DEF from, cell, series
  <2> QED BY <2>1, <2>2
<1>7. DOMAIN f = series /\ IsFiniteSet(series)
  <2>1. IsFiniteSet(rows)
    BY <1>0, RowsFinite
  <2> HIDE DEF rows
  <2>2. IsFiniteSet(series)
    BY <2>1, SeriesFinite
  <2> QED BY <2>2
<1> HIDE DEF f, cell, series
<1>8. Cells(cell, f, DOMAIN f)
  BY <1>4, <1>5, <1>7 DEF Cells
<1>9. Panels!SumOf(f) = Cardinality(All(cell, series))
  BY <1>7, <1>8, SumOfCells
<1> QED BY <1>2, <1>3, <1>6, <1>9

(***************************************************************************)
(* What is drawn of a report.                                              *)
(***************************************************************************)

(* The properties of what is drawn, of any report. *)
TablesRight(drawn, rep) ==
    LET of == rep.of
    IN  /\ drawn.byModel = [id \in {<<a.provider, a.model>> : a \in of} |->
                               Panels!Counts({a \in of : <<a.provider, a.model>> = id})]
        /\ drawn.byAccount = [id \in {a.account : a \in of} |-> Panels!Counts({a \in of : a.account = id})]
        /\ drawn.kpis.requests = Panels!Cardinality(of)
        /\ drawn.kpis.failed = Panels!Counts(of).failed
        /\ \A i \in DOMAIN drawn.recent :
              Panels!Cardinality({a \in of : a.id > drawn.recent[i].id}) = i - 1

ChartRight(chart, rep) ==
    LET bucket == RANGES[rep.range].bucket
        starts == DOMAIN chart.bars
        weight(some) == IF chart.metric = "attempts" THEN Panels!Cardinality(some)
                        ELSE Panels!Added(some, "tokens")
    IN  /\ \A t \in starts :
              /\ Panels!Height(chart.bars[t]) = weight({a \in rep.of : t <= a.at /\ a.at < t + bucket})
              /\ Panels!Height(chart.bars[t]) * 100 <= chart.axis.top
              /\ Panels!Cardinality(DOMAIN chart.bars[t] \ {"other"}) <= Slots
        /\ \A a \in rep.of : a.at >= Panels!Min(starts) => \E t \in starts : t <= a.at /\ a.at < t + bucket
        /\ chart.axis.top \div chart.axis.step \in 1 .. 5

LEMMA TablesAre ==
    TablesCountAttempts <=> (panels # None => TablesRight(panels, current))
BY DEF TablesCountAttempts, Panels!TablesCountAttempts, TablesRight

LEMMA ChartIs ==
    ChartCountsAttempts <=>
      (panels # None /\ panels.chart.range = current.range => ChartRight(panels.chart, current))
BY DEF ChartCountsAttempts, Panels!ChartCountsAttempts, ChartRight

(* The recent requests of a report. *)
LEMMA RecentCounts ==
    ASSUME NEW rep, Reported(rep), NEW i \in DOMAIN Panels!Recent(rep.recent)
    PROVE  Panels!Cardinality({a \in rep.of : a.id > Panels!Recent(rep.recent)[i].id}) = i - 1
<1> DEFINE of == rep.of
           n == Cardinality(of)
           m == Panels!Min({Newest, n})
           list == Panels!Latest(of)
<1>1. n \in Nat /\ Numbered(of)
  BY FS_CardinalityType DEF Reported, Numbered
<1>2. m \in Nat /\ m <= n
  <2> DEFINE S == {Newest, n}
  <2>1. m = CHOOSE x \in S : \A y \in S : x <= y
    BY DEF Panels!Min
  <2>2. S \in SUBSET Nat /\ S # {} /\ n \in S
    BY <1>1, Names
  <2> HIDE DEF S, m, n
  <2>3. \E x \in S : \A y \in S : x <= y
    BY <2>2, LeastNumber
  <2> QED BY <2>1, <2>2, <2>3
<1>3. list \in [1 .. n -> of]
  BY <1>1, LatestSorted DEF Sorted
<1>4. rep.recent = SubSeq(list, 1, m)
  BY DEF Reported
<1> HIDE DEF n, m, list
<1>5. list \in Seq(of) /\ Len(list) = n
  BY <1>1, <1>3
<1>6. DOMAIN SubSeq(list, 1, m) = 1 .. m /\ \A j \in 1 .. m : SubSeq(list, 1, m)[j] = list[j]
  BY <1>1, <1>2, <1>5
<1>7. i \in 1 .. m /\ Panels!Recent(rep.recent)[i].id = list[i].id
  BY <1>4, <1>6 DEF Panels!Recent
<1>8. i \in 1 .. n
  BY <1>1, <1>2, <1>7
<1>9. Cardinality(Newer(of, list[i])) = i - 1
  BY <1>1, <1>8, LatestCounts DEF n, list
<1>10. {a \in rep.of : a.id > Panels!Recent(rep.recent)[i].id} = Newer(of, list[i])
  BY <1>7 DEF Newer
<1> QED BY <1>9, <1>10, SameCardinality

(* What is drawn of a report counts its attempts. *)
LEMMA RenderCounts ==
    ASSUME NEW rep, Reported(rep), NEW chart
    PROVE  TablesRight([kpis |-> Panels!Kpis(rep.rows), byModel |-> Panels!ByModel(rep.rows),
                        byAccount |-> Panels!ByAccount(rep.rows), recent |-> Panels!Recent(rep.recent),
                        chart |-> chart], rep)
<1> DEFINE bucket == RANGES[rep.range].bucket
           rows == Panels!Rows(rep.of, bucket)
           drawn == [kpis |-> Panels!Kpis(rep.rows), byModel |-> Panels!ByModel(rep.rows),
                     byAccount |-> Panels!ByAccount(rep.rows), recent |-> Panels!Recent(rep.recent),
                     chart |-> chart]
<1>1. rep.rows = rows /\ Counted(rep.of)
  BY DEF Reported
<1>2. /\ drawn.kpis = Panels!Kpis(rep.rows) /\ drawn.byModel = Panels!ByModel(rep.rows)
      /\ drawn.byAccount = Panels!ByAccount(rep.rows) /\ drawn.recent = Panels!Recent(rep.recent)
  OBVIOUS
<1> HIDE DEF drawn
<1>3. drawn.byModel = [id \in {<<a.provider, a.model>> : a \in rep.of} |->
                          Panels!Counts({a \in rep.of : <<a.provider, a.model>> = id})]
  <2>1. Panels!ByModel(rows) = [id \in {<<a.provider, a.model>> : a \in rep.of} |->
                                   Panels!Counts({a \in rep.of : <<a.provider, a.model>> = id})]
    BY <1>1, ByModelCounts
  <2> HIDE DEF rows
  <2> QED BY <1>1, <1>2, <2>1
<1>4. drawn.byAccount = [id \in {a.account : a \in rep.of} |-> Panels!Counts({a \in rep.of : a.account = id})]
  <2>1. Panels!ByAccount(rows) =
            [id \in {a.account : a \in rep.of} |-> Panels!Counts({a \in rep.of : a.account = id})]
    BY <1>1, ByAccountCounts
  <2> HIDE DEF rows
  <2> QED BY <1>1, <1>2, <2>1
<1>5. drawn.kpis.requests = Panels!Cardinality(rep.of) /\ drawn.kpis.failed = Panels!Counts(rep.of).failed
  <2>1. Panels!Kpis(rows).requests = Cardinality(rep.of) /\ Panels!Kpis(rows).failed = Panels!Counts(rep.of).failed
    BY <1>1, KpisCount
  <2> HIDE DEF rows
  <2> QED BY <1>1, <1>2, <2>1, SameCardinality
<1>6. \A i \in DOMAIN drawn.recent :
          Panels!Cardinality({a \in rep.of : a.id > drawn.recent[i].id}) = i - 1
  BY <1>2, RecentCounts
<1>7. TablesRight(drawn, rep)
  <2> HIDE DEF rows
  <2> QED BY <1>3, <1>4, <1>5, <1>6 DEF TablesRight
<1> QED BY <1>7 DEF drawn

(* A chart that is drawn of the range that was asked for is right. *)
LEMMA ChartCounts ==
    ASSUME now \in Int, NEW rep, Reported(rep), NEW of \in {"attempts", "tokens"}
    PROVE  ChartRight(Panels!Chart(rep.rows, rep.range, of, Panels!Order(rep)), rep)
<1> DEFINE key == rep.range
           bucket == RANGES[key].bucket
           order == Panels!Order(rep)
           bars == Panels!Bars(rep.rows, key, of, order)
           chart == Panels!Chart(rep.rows, key, of, order)
           starts == Panels!Buckets(key)
           bound == Cardinality(Units(rep.of, of))
<1>1. chart.bars = bars /\ chart.metric = of /\ chart.axis = Panels!Axis(bars)
  BY DEF Panels!Chart
<1>2. DOMAIN bars = starts /\ \A t \in starts : DOMAIN bars[t] = Series(rep.rows, key, order)
  BY BarsAre
<1>3. /\ key \in DOMAIN RANGES /\ Counted(rep.of) /\ \A a \in rep.of : a.at \in Int /\ a.at <= now
      /\ rep.rows = Panels!Rows(rep.of, bucket)
      /\ \A a \in rep.of : a.provider \in Panels!ToSet(Alphabet)
  BY DEF Reported, Counted
<1>0. bucket \in Nat \ {0}
  BY <1>3, RangeType
<1>4. ASSUME NEW t \in starts PROVE Panels!Height(bars[t]) = Cardinality(Units(Lies(rep.of, t, bucket), of))
  BY BarHeight
<1> HIDE DEF bars, chart
<1>5. bound \in Nat /\ \A t \in DOMAIN bars : Panels!Height(bars[t]) \in Nat /\ Panels!Height(bars[t]) <= bound
  <2>1. IsFiniteSet(Units(rep.of, of)) /\ bound \in Nat
    BY <1>3, UnitsFinite, FS_CardinalityType
  <2>2. ASSUME NEW t \in starts PROVE Panels!Height(bars[t]) \in Nat /\ Panels!Height(bars[t]) <= bound
    <3> DEFINE part == Units(Lies(rep.of, t, bucket), of)
    <3>1. part \in SUBSET Units(rep.of, of)
      BY DEF Units, Lies
    <3> HIDE DEF part
    <3>2. IsFiniteSet(part) /\ Cardinality(part) <= bound
      BY <2>1, <3>1, FS_Subset
    <3>3. Cardinality(part) \in Nat
      BY <3>2, FS_CardinalityType
    <3>4. Panels!Height(bars[t]) = Cardinality(part)
      BY <1>4 DEF part
    <3> QED BY <3>2, <3>3, <3>4
  <2> QED BY <1>2, <2>1, <2>2
<1>6. /\ \A t \in starts : Panels!Height(bars[t]) * 100 <= chart.axis.top
      /\ chart.axis.top \div chart.axis.step \in 1 .. 5
  <2> HIDE DEF bound
  <2> QED BY <1>1, <1>2, <1>5, AxisReaches
<1>7. ASSUME NEW t \in starts
      PROVE  Panels!Height(bars[t]) = IF of = "attempts" THEN Panels!Cardinality(Lies(rep.of, t, bucket))
                                      ELSE Panels!Added(Lies(rep.of, t, bucket), "tokens")
  <2>1. Counted(Lies(rep.of, t, bucket))
    BY <1>3, CountedSubset DEF Lies
  <2>2. CASE of = "attempts"
    BY <1>4, <2>2, SameCardinality DEF Units
  <2>3. CASE of = "tokens"
    BY <1>4, <2>1, <2>3, TokensAre
  <2> QED BY <2>2, <2>3
<1>8. ASSUME NEW t \in starts PROVE Panels!Cardinality(DOMAIN bars[t] \ {"other"}) <= Slots
  <2> DEFINE some == DOMAIN bars[t] \ {"other"}
  <2>1. order = Panels!ToSet(Catalog) \cup {r.key.provider : r \in rep.rows}
    BY DEF Panels!Order, Panels!ProviderOrder
  <2>2. order \in SUBSET Known
    <3>1. ASSUME NEW r \in rep.rows PROVE r.key.provider \in Panels!ToSet(Alphabet)
      <4>1. PICK a \in rep.of : r.key = Panels!RowKey(a, bucket)
        BY <1>3, RowHolds DEF Fields
      <4> QED BY <1>3, <4>1 DEF Panels!RowKey
    <3> QED BY <2>1, <3>1 DEF Known
  <2> HIDE DEF order
  <2>3. some \in SUBSET Colored(order)
    <3> SUFFICES ASSUME NEW k \in Series(rep.rows, key, order), k # "other" PROVE k \in Colored(order)
      BY <1>2
    <3>1. PICK r \in rep.rows : k = Panels!SeriesKey(r.key.provider, order)
      BY DEF Series
    <3> DEFINE p == r.key.provider
    <3>2. k = IF p \in order /\ Cardinality(Before(p, order)) < Slots THEN p ELSE "other"
      BY <3>1, SameCardinality DEF Panels!SeriesKey, Before
    <3> HIDE DEF p
    <3> QED BY <3>2 DEF Colored
  <2> HIDE DEF some
  <2>4. Cardinality(some) <= Slots
    BY <2>2, <2>3, SlotsSuffice
  <2> QED BY <2>4, SameCardinality DEF some
<1>9. ASSUME NEW a \in rep.of, a.at >= Panels!Min(starts)
      PROVE  \E t \in starts : t <= a.at /\ a.at < t + bucket
  <2>1. (\A t \in starts : t \in Int /\ First(key) <= t) /\ First(key) \in starts
    BY <1>3, BucketsAre
  <2>2. Panels!Min(starts) = CHOOSE x \in starts : \A y \in starts : x <= y
    BY DEF Panels!Min
  <2>3. First(key) <= a.at
    <3> HIDE DEF starts
    <3>1. Panels!Min(starts) = First(key)
      BY <2>1, <2>2
    <3> QED BY <1>9, <3>1
  <2>4. a.at \in Int /\ a.at <= now
    BY <1>3
  <2>5. Panels!BucketOf(a.at, bucket) \in starts
    BY <1>3, <2>3, <2>4, BucketsAre
  <2> HIDE DEF starts, bucket
  <2> QED BY <1>0, <2>4, <2>5, BucketSpan
<1>10. ChartRight(chart, rep)
  <2> HIDE DEF starts, order
  <2> QED BY <1>1, <1>2, <1>6, <1>7, <1>8, <1>9 DEF ChartRight, Lies
<1> QED BY <1>10 DEF chart

(***************************************************************************)
(* The invariant: the reports are of attempts that had begun, and what is  *)
(* drawn is of the report in use.                                          *)
(***************************************************************************)

AttemptsInv ==
    /\ now \in Int /\ selected \in DOMAIN RANGES /\ metric \in {"attempts", "tokens"}
    /\ Counted(attempts) /\ Numbered(attempts)
    /\ \A a \in attempts : /\ a.id <= Cardinality(attempts) /\ a.at <= now
                           /\ a.provider \in Panels!ToSet(Alphabet)

Drawn == [kpis |-> panels.kpis, byModel |-> panels.byModel, byAccount |-> panels.byAccount,
          recent |-> panels.recent, chart |-> panels.chart]

(* What is drawn is of the report in use; a chart of another range was       *)
(* drawn when that range was selected, and is of no interest.               *)
PanelsRight ==
    IF current = None THEN panels = None
    ELSE /\ Reported(current) /\ panels = Drawn /\ TablesRight(panels, current)
         /\ panels.chart.range = current.range => ChartRight(panels.chart, current)

PanelsInv == AttemptsInv /\ (answer # None => Reported(answer)) /\ PanelsRight

LEMMA PanelsInit == Panels!Init => PanelsInv
<1> SUFFICES ASSUME Panels!Init PROVE PanelsInv
  OBVIOUS
<1>1. now = Start /\ attempts = {} /\ selected \in DOMAIN RANGES /\ metric = "attempts"
      /\ answer = None /\ current = None /\ panels = None
  BY DEF Panels!Init
<1>2. Counted({}) /\ Numbered({})
  BY FS_EmptySet DEF Counted, Numbered
<1>3. AttemptsInv
  BY <1>1, <1>2, Names DEF AttemptsInv
<1> QED BY <1>1, <1>3 DEF PanelsInv, PanelsRight

(* A new attempt has the next number. *)
LEMMA BeginStep ==
    ASSUME AttemptsInv, NEW kind \in Kinds, Panels!Begin(kind)
    PROVE  AttemptsInv'
<1> DEFINE n == Cardinality(attempts)
           a == [provider |-> kind.provider, model |-> kind.model, account |-> kind.account,
                 status |-> kind.status, auto |-> kind.auto, tokens |-> kind.tokens, id |-> n + 1, at |-> now]
<1>1. attempts' = attempts \cup {a} /\ UNCHANGED <<now, selected, metric>>
  BY SameCardinality DEF Panels!Begin
<1>2. kind.tokens \in Nat /\ kind.provider \in Panels!ToSet(Alphabet)
  BY PanelsAssumption DEF Panels!DashboardPanelsAssumption
<1>3. a.id = n + 1 /\ a.at = now /\ a.tokens \in Nat /\ a.provider \in Panels!ToSet(Alphabet)
  BY <1>2
<1> HIDE DEF a
<1>4. n \in Nat /\ IsFiniteSet(attempts)
  BY FS_CardinalityType DEF AttemptsInv, Counted
<1>5. /\ \A b \in attempts : /\ b.tokens \in Nat /\ b.at \in Int /\ b.id \in Nat /\ b.id <= n /\ b.at <= now
                             /\ b.provider \in Panels!ToSet(Alphabet)
      /\ \A b, c \in attempts : b.id = c.id => b = c
      /\ now \in Int
  BY DEF AttemptsInv, Counted, Numbered
<1>6. a \notin attempts
  BY <1>3, <1>4, <1>5
<1>7. IsFiniteSet(attempts') /\ Cardinality(attempts') = n + 1
  BY <1>1, <1>4, <1>6, FS_AddElement
<1> HIDE DEF n
<1>8. Counted(attempts')
  BY <1>1, <1>3, <1>5, <1>7 DEF Counted
<1>9. Numbered(attempts')
  BY <1>1, <1>3, <1>4, <1>5, <1>7 DEF Numbered
<1>10. \A b \in attempts' : b.id <= Cardinality(attempts') /\ b.at <= now /\ b.provider \in Panels!ToSet(Alphabet)
  BY <1>1, <1>3, <1>4, <1>5, <1>7
<1> QED BY <1>1, <1>8, <1>9, <1>10 DEF AttemptsInv

(* Time passes. *)
LEMMA TickReported ==
    ASSUME now \in Int, now' = now + 1, NEW rep, Reported(rep)
    PROVE  /\ rep.range \in DOMAIN RANGES
           /\ Counted(rep.of) /\ Numbered(rep.of)
           /\ \A a \in rep.of : a.at <= now' /\ a.provider \in Panels!ToSet(Alphabet)
           /\ rep.rows = Panels!Rows(rep.of, RANGES[rep.range].bucket)
           /\ rep.recent = SubSeq(Panels!Latest(rep.of), 1, Panels!Min({Newest, Cardinality(rep.of)}))
BY DEF Reported, Counted

(* A report that is made is of the attempts in its window. *)
LEMMA ServeStep ==
    ASSUME AttemptsInv
    PROVE  Reported(Panels!Report(selected))
<1> DEFINE some == {a \in attempts : a.at >= now - RANGES[selected].window}
           rep == Panels!Report(selected)
<1>1. rep = [range |-> selected, of |-> some, rows |-> Panels!Rows(some, RANGES[selected].bucket),
             recent |-> SubSeq(Panels!Latest(some), 1, Panels!Min({Newest, Panels!Cardinality(some)}))]
  BY DEF Panels!Report
<1>2. some \in SUBSET attempts
  OBVIOUS
<1> HIDE DEF some, rep
<1>3. Counted(some) /\ Numbered(some)
  BY <1>2, CountedSubset, FS_Subset DEF AttemptsInv, Numbered
<1>4. /\ rep.range = selected /\ rep.of = some /\ rep.rows = Panels!Rows(some, RANGES[selected].bucket)
      /\ rep.recent = SubSeq(Panels!Latest(some), 1, Panels!Min({Newest, Cardinality(some)}))
  BY <1>1, SameCardinality
<1> QED BY <1>2, <1>3, <1>4 DEF Reported, AttemptsInv, rep

(* Drawing a report of whatever range and metric. *)
LEMMA DrawStep ==
    ASSUME now \in Int, NEW rep, Reported(rep), NEW of \in {"attempts", "tokens"}, NEW key,
           NEW chart, chart = Panels!Chart(rep.rows, key, of, Panels!Order(rep))
    PROVE  chart.range = rep.range => ChartRight(chart, rep)
<1>1. chart.range = key
  BY DEF Panels!Chart
<1> QED BY <1>1, ChartCounts

LEMMA RenderStep ==
    ASSUME AttemptsInv, Reported(current'), current' # None, AttemptsInv', UNCHANGED now,
           panels' = Panels!RenderUsage(current')
    PROVE  PanelsRight'
<1> DEFINE rep == current'
           chart == Panels!Chart(rep.rows, selected', metric', Panels!Order(rep))
           drawn == [kpis |-> Panels!Kpis(rep.rows), byModel |-> Panels!ByModel(rep.rows),
                     byAccount |-> Panels!ByAccount(rep.rows), recent |-> Panels!Recent(rep.recent),
                     chart |-> chart]
<1>1. panels' = drawn
  BY DEF Panels!RenderUsage
<1> HIDE DEF rep, chart
<1>2. TablesRight(drawn, rep)
  BY RenderCounts DEF rep
<1>3. drawn.chart.range = rep.range => ChartRight(drawn.chart, rep)
  <2>1. chart.range = rep.range => ChartRight(chart, rep)
    BY DrawStep DEF AttemptsInv, chart, rep
  <2> QED BY <2>1
<1>4. drawn = [kpis |-> drawn.kpis, byModel |-> drawn.byModel, byAccount |-> drawn.byAccount,
               recent |-> drawn.recent, chart |-> drawn.chart]
  OBVIOUS
<1> HIDE DEF drawn
<1>5. Reported(current)'
  BY DEF Reported
<1>6. Drawn' = panels'
  BY <1>1, <1>4 DEF Drawn
<1>7. TablesRight(panels, current)'
  BY <1>1, <1>2 DEF rep, TablesRight
<1>8. (panels.chart.range = current.range => ChartRight(panels.chart, current))'
  BY <1>1, <1>3 DEF rep, ChartRight
<1> QED BY <1>5, <1>6, <1>7, <1>8 DEF PanelsRight

LEMMA PanelsStep == PanelsInv /\ [Panels!Next]_(Panels!vars) => PanelsInv'
<1> SUFFICES ASSUME PanelsInv, [Panels!Next]_(Panels!vars) PROVE PanelsInv'
  OBVIOUS
<1>0. /\ AttemptsInv /\ PanelsRight /\ (answer # None => Reported(answer))
      /\ now \in Int /\ selected \in DOMAIN RANGES /\ metric \in {"attempts", "tokens"}
  BY DEF PanelsInv, AttemptsInv
<1>a. ASSUME UNCHANGED now, NEW rep, Reported(rep) PROVE Reported(rep)'
  BY <1>a DEF Reported
<1>b. ASSUME UNCHANGED <<now, current, panels>> PROVE PanelsRight'
  BY <1>0, <1>b DEF PanelsRight, Reported, Drawn, TablesRight, ChartRight
<1>1. CASE UNCHANGED Panels!vars
  <2>1. UNCHANGED <<now, attempts, selected, metric, answer, current, panels>>
    BY <1>1 DEF Panels!vars
  <2> QED BY <1>0, <1>b, <2>1 DEF PanelsInv, AttemptsInv, Reported
<1>2. CASE \E kind \in Kinds : Panels!Begin(kind)
  <2>1. AttemptsInv'
    BY <1>0, <1>2, BeginStep
  <2>2. UNCHANGED <<now, answer, current, panels>>
    BY <1>2 DEF Panels!Begin
  <2> QED BY <1>0, <1>b, <2>1, <2>2 DEF PanelsInv, Reported
<1>3. CASE Panels!Tick
  <2>1. now' = now + 1 /\ UNCHANGED <<attempts, selected, metric, answer, current, panels>>
    BY <1>3 DEF Panels!Tick
  <2>2. AttemptsInv'
    BY <1>0, <2>1 DEF AttemptsInv, Counted
  <2>3. answer # None => Reported(answer)'
    BY <1>0, <2>1, TickReported DEF Reported
  <2>4. PanelsRight'
    <3>1. current # None => Reported(current)'
      BY <1>0, <2>1, TickReported DEF Reported, PanelsRight
    <3> QED BY <1>0, <2>1, <3>1 DEF PanelsRight, Drawn, TablesRight, ChartRight
  <2> QED BY <2>1, <2>2, <2>3, <2>4 DEF PanelsInv
<1>4. CASE Panels!Serve
  <2>1. answer' = Panels!Report(selected) /\ UNCHANGED <<now, attempts, selected, metric, current, panels>>
    BY <1>4 DEF Panels!Serve
  <2>2. Reported(answer)'
    <3>1. Reported(Panels!Report(selected))
      BY <1>0, ServeStep
    <3> HIDE DEF PanelsInv
    <3> QED BY <2>1, <3>1 DEF Reported
  <2>3. AttemptsInv'
    BY <1>0, <2>1 DEF AttemptsInv
  <2> QED BY <1>b, <2>1, <2>2, <2>3 DEF PanelsInv
<1>5. CASE Panels!Arrive
  <2>1. /\ answer # None /\ answer' = None /\ current' = answer
        /\ UNCHANGED <<now, attempts, selected, metric>> /\ panels' = Panels!RenderUsage(answer)
    BY <1>5 DEF Panels!Arrive
  <2>2. AttemptsInv'
    BY <1>0, <2>1 DEF AttemptsInv
  <2>3. PanelsRight'
    BY <1>0, <2>1, <2>2, RenderStep
  <2> QED BY <2>1, <2>2, <2>3 DEF PanelsInv
<1>6. CASE \E key \in DOMAIN RANGES : Panels!SelectRange(key)
  <2>1. selected' \in DOMAIN RANGES /\ UNCHANGED <<now, attempts, metric, answer, current, panels>>
    BY <1>6 DEF Panels!SelectRange
  <2>2. AttemptsInv'
    BY <1>0, <2>1 DEF AttemptsInv
  <2> QED BY <1>0, <1>b, <2>1, <2>2 DEF PanelsInv, Reported
<1>7. CASE \E of \in {"attempts", "tokens"} : Panels!SelectMetric(of)
  <2>1. /\ metric' \in {"attempts", "tokens"} /\ UNCHANGED <<now, attempts, selected, answer, current>>
        /\ panels' = IF current = None THEN panels ELSE Panels!RenderUsage(current)
    BY <1>7 DEF Panels!SelectMetric
  <2>2. AttemptsInv'
    BY <1>0, <2>1 DEF AttemptsInv
  <2>3. CASE current = None
    BY <1>0, <1>b, <2>1, <2>2, <2>3 DEF PanelsInv, Reported
  <2>4. CASE current # None
    <3>1. Reported(current') /\ current' # None /\ panels' = Panels!RenderUsage(current')
      BY <1>0, <2>1, <2>4 DEF PanelsRight
    <3>2. PanelsRight'
      BY <1>0, <2>1, <2>2, <3>1, RenderStep
    <3> QED BY <1>0, <2>1, <2>2, <3>2 DEF PanelsInv, Reported
  <2> QED BY <2>3, <2>4
<1>8. CASE Panels!Resize
  <2> DEFINE chart == Panels!Chart(current.rows, selected, metric, Panels!Order(current))
  <2>1. /\ current # None /\ UNCHANGED <<now, attempts, selected, metric, answer, current>>
        /\ panels' = [panels EXCEPT !.chart = chart]
    BY <1>8 DEF Panels!Resize
  <2>2. AttemptsInv'
    BY <1>0, <2>1 DEF AttemptsInv
  <2>3. Reported(current) /\ panels = Drawn /\ TablesRight(panels, current)
    BY <1>0, <2>1 DEF PanelsRight
  <2>4. chart.range = current.range => ChartRight(chart, current)
    BY <1>0, <2>3, DrawStep
  <2> HIDE DEF chart
  <2>5. /\ panels'.kpis = panels.kpis /\ panels'.byModel = panels.byModel /\ panels'.byAccount = panels.byAccount
        /\ panels'.recent = panels.recent /\ panels'.chart = chart
        /\ panels' = [kpis |-> panels.kpis, byModel |-> panels.byModel, byAccount |-> panels.byAccount,
                      recent |-> panels.recent, chart |-> chart]
    BY <2>1, <2>3 DEF Drawn
  <2>6. panels' = Drawn'
    BY <2>5 DEF Drawn
  <2>7. TablesRight(panels, current)'
    BY <2>1, <2>3, <2>5 DEF TablesRight
  <2>8. (panels.chart.range = current.range => ChartRight(panels.chart, current))'
    BY <2>1, <2>4, <2>5 DEF ChartRight
  <2>9. Reported(current)' /\ (answer # None => Reported(answer))'
    BY <1>0, <2>1, <2>3 DEF Reported
  <2>10. PanelsRight'
    BY <2>1, <2>6, <2>7, <2>8, <2>9 DEF PanelsRight
  <2> QED BY <2>2, <2>9, <2>10 DEF PanelsInv
<1> QED BY <1>1, <1>2, <1>3, <1>4, <1>5, <1>6, <1>7, <1>8 DEF Panels!Next

LEMMA PanelsInvariant == Panels!Spec => []PanelsInv
<1> QED BY PanelsInit, PanelsStep, PTL DEF Panels!Spec

(* Whatever report comes when, and however often what is drawn is drawn     *)
(* again: figures and both tables count every attempt of the report in use  *)
(* once, by its own provider, model and account, and the recent requests    *)
(* are the newest of them (renderUsage).                                    *)
THEOREM TablesTheorem == Panels!Spec => []TablesCountAttempts
<1>1. PanelsInv => TablesCountAttempts
  BY TablesAre DEF PanelsInv, PanelsRight
<1> QED BY <1>1, PanelsInvariant, PTL

(* Each bar of the chart counts what lies in its bucket, the axis reaches   *)
(* over all of them, and no more series than slots have a color, for any    *)
(* windows, buckets, offsets and numbers of attempts (renderChart).         *)
THEOREM ChartTheorem == Panels!Spec => []ChartCountsAttempts
<1>1. PanelsInv => ChartCountsAttempts
  BY ChartIs DEF PanelsInv, PanelsRight
<1> QED BY <1>1, PanelsInvariant, PTL
=============================================================================
