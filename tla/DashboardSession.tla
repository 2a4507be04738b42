--------------------------- MODULE DashboardSession ---------------------------
(***************************************************************************)
(* The dashboard's web client (internal/api/dashboard/app.js): signing in  *)
(* and out, and the calls to the management API that run in between.       *)
(*                                                                         *)
(* The page is single-threaded, but every await lets other handlers run:   *)
(* a call of api() is an element of the bag calls until its answer         *)
(* arrives, in any order, and its function goes on.  A call carries the    *)
(* token that was current when it was sent and the range its function      *)
(* began with; all else is read when the function goes on.  A page that is *)
(* loaded again has lost its memory, but not its session storage.          *)
(***************************************************************************)
EXTENDS Integers, FiniteSets, Bags

CONSTANTS
    Tokens,         \* bearer tokens the viewer can come by
    Flows,          \* the single sign-ons the viewer may start
    Tabs,           \* those of TABS the viewer selects
    Ranges,         \* the keys of RANGES
    Default,        \* the range a page begins with, 24h
    MaxCalls,       \* bound on the functions under way when another one begins
    MaxFailures,    \* bound on the calls that fail for another reason than the token
    None

VARIABLES
    token, models, range, report,   \* state: whether models are loaded, whose range the report has
    shown,                          \* what route() made visible
    calls,                          \* the calls under way
    stored, pending,                \* sessionStorage: TOKEN_KEY, SIGN_IN_KEY
    place, target,                  \* where the browser is, and the flow it takes to the issuer
    signIns, redeeming,             \* where startSignIn and finishSignIn stand
    tab,                            \* location.hash
    valid, failures                 \* the tokens the API accepts; the failures so far

(* The tabs are keys of TABS, and no value stands for its absence. *)
ASSUME DashboardSessionAssumption ==
    /\ Default \in Ranges /\ None \notin Ranges
    /\ "usage" \in Tabs /\ Tabs \subseteq {"usage", "accounts", "models", "config"}
    /\ MaxFailures \in Nat

page == <<token, models, range, report, shown, calls>>
storage == <<stored, pending>>
browser == <<place, target, signIns, redeeming>>
server == <<valid, failures>>
vars == <<page, storage, browser, tab, server>>

-----------------------------------------------------------------------------
(* A call of one of the client's functions, with the token of the moment. *)
Call(fn, ask, r) == [fn |-> fn, ask |-> ask, range |-> r, bearer |-> token']

Functions == {"loadUsage", "loadAccounts", "loadModels", "loadConfig", "action", "login"}
Endpoints == {"models", "usage", "credentials", "quota", "config", "action"}
Calls == [fn : Functions, ask : Endpoints, range : Ranges \cup {None},
          bearer : Tokens \cup {None}]

TypeOK ==
    /\ {token, stored} \subseteq Tokens \cup {None} /\ pending \in Flows \cup {None}
    /\ models \in BOOLEAN /\ range \in Ranges /\ report \in Ranges \cup {None}
    /\ shown \in {"nothing", "login", "tabs"} /\ tab \in Tabs
    /\ IsABag(calls) /\ BagToSet(calls) \subseteq Calls
    /\ \A c \in BagToSet(calls) : c.fn = "loadUsage" <=> c.range # None
    /\ place \in {"page", "leaving", "issuer"} /\ target \in Flows \cup {None}
    /\ signIns \subseteq Flows /\ redeeming \in BOOLEAN
    /\ valid \subseteq Tokens /\ failures \in 0 .. MaxFailures

(* A page of a tab that was opened just now, before it ran route(). *)
Init ==
    /\ token = None /\ models = FALSE /\ range = Default /\ report = None
    /\ shown = "nothing" /\ calls = EmptyBag /\ stored = None /\ pending = None
    /\ place = "page" /\ target = None /\ signIns = {} /\ redeeming = FALSE
    /\ tab = "usage" /\ valid = Tokens /\ failures = 0

-----------------------------------------------------------------------------
(* The set done of calls is over, and the calls new are sent. *)
Exchange(done, new) == calls' = (calls (-) SetToBag(done)) (+) SetToBag(new)

(* loadUsage asks for the models first, unless they are loaded. *)
LoadUsage == {Call("loadUsage", IF models' THEN "usage" ELSE "models", range')}
LoadAccounts == {Call("loadAccounts", "credentials", None), Call("loadAccounts", "quota", None)}
LoadModels == {Call("loadModels", "models", None)}
LoadConfig == {Call("loadConfig", "config", None)}

Loader(name) ==
    CASE name = "usage" -> LoadUsage [] name = "accounts" -> LoadAccounts
      [] name = "models" -> LoadModels [] name = "config" -> LoadConfig

(* route(): the login form, or the tab and what it loads *)
Route(done) ==
    /\ shown' = IF token' = None THEN "login" ELSE "tabs"
    /\ Exchange(done, IF token' = None THEN {} ELSE Loader(tab'))

(* mutant: the copy in the session storage is forgotten *)
SignOut_KeepsStored(done) ==
    /\ token' = None /\ models' = FALSE /\ shown' = "login"
    /\ Exchange(done, {})
    /\ UNCHANGED <<tab, range, report, stored>>

(* The report stays, out of sight. *)
SignOut(done) ==
    /\ token' = None /\ models' = FALSE /\ stored' = None
    /\ UNCHANGED <<tab, range, report>>
    /\ Route(done)

-----------------------------------------------------------------------------
(* Answers *)

(* What happens after an account's button, whatever came of it. *)
Retold(c) == IF c.fn = "action" THEN LoadAccounts ELSE {}

(* api() signs out and throws, whichever token the page has by now. *)
Unauthorized(c) ==
    /\ c.bearer \notin valid
    /\ IF c.fn # "action" THEN SignOut({c})
       ELSE /\ token' = None /\ models' = FALSE /\ stored' = None /\ shown' = "login"
            /\ UNCHANGED <<tab, range, report>>
            /\ Exchange({c}, LoadAccounts)
    /\ UNCHANGED failures

(* Any other error is shown; the token that a login tried stays in memory. *)
Failed(c) ==
    /\ failures < MaxFailures /\ failures' = failures + 1
    /\ UNCHANGED <<token, models, range, report, shown, tab, stored>>
    /\ Exchange({c}, Retold(c))

(* mutant: the range is not handed on *)
ModelsLoaded_NoRange(c) ==
    /\ c.bearer \in valid /\ c.fn = "loadUsage" /\ c.ask = "models"
    /\ models' = TRUE
    /\ UNCHANGED <<token, range, report, shown, tab, stored, failures>>
    /\ Exchange({c}, {Call("loadUsage", "usage", None)})

(* loadUsage goes on with the token of now and the range of its start. *)
ModelsLoaded(c) ==
    /\ c.bearer \in valid /\ c.fn = "loadUsage" /\ c.ask = "models"
    /\ models' = TRUE
    /\ UNCHANGED <<token, range, report, shown, tab, stored, failures>>
    /\ Exchange({c}, {Call("loadUsage", "usage", c.range)})

(* Whichever report comes last is the one shown. *)
UsageLoaded(c) ==
    /\ c.bearer \in valid /\ c.ask = "usage"
    /\ report' = c.range
    /\ UNCHANGED <<token, models, range, shown, tab, stored, failures>>
    /\ Exchange({c}, {})

(* The tables of the other tabs; loadModels remembers the models, and after *)
(* a button's action the accounts are loaded again.                         *)
TableLoaded(c) ==
    /\ c.bearer \in valid /\ c.fn \in {"loadAccounts", "loadModels", "loadConfig", "action"}
    /\ models' = (models \/ c.fn = "loadModels")
    /\ UNCHANGED <<token, range, report, shown, tab, stored, failures>>
    /\ Exchange({c}, Retold(c))

(* mutant: stores the token that was verified, not the one in use *)
LoggedIn_Verified(c) ==
    /\ c.bearer \in valid /\ c.fn = "login"
    /\ stored' = c.bearer
    /\ UNCHANGED <<token, models, range, report, tab, failures>>
    /\ Route({c})

(* The token of now is stored, whichever the API has accepted. *)
LoggedIn(c) ==
    /\ c.bearer \in valid /\ c.fn = "login"
    /\ stored' = token
    /\ UNCHANGED <<token, models, range, report, tab, failures>>
    /\ Route({c})

Answer == \E c \in BagToSet(calls) :
    /\ place # "issuer"
    /\ Unauthorized(c) \/ Failed(c) \/ ModelsLoaded(c) \/ UsageLoaded(c) \/ TableLoaded(c) \/ LoggedIn(c)
    /\ UNCHANGED <<pending, browser, valid>>

-----------------------------------------------------------------------------
(* The viewer and the timer *)

(* The asynchronous functions under way, as far as a bound goes. *)
UnderWay == BagCardinality(calls) + Cardinality(signIns)
Calm == place = "page" /\ UnderWay < MaxCalls

(* The login form takes the token at once and asks for the models to try it.*)
LogIn(t) ==
    /\ Calm /\ shown = "login"
    /\ token' = t
    /\ UNCHANGED <<models, range, report, shown, stored>>
    /\ Exchange({}, {Call("login", "models", None)})
    /\ UNCHANGED <<pending, browser, tab, server>>

ClickSignOut ==
    /\ Calm /\ shown = "tabs"
    /\ SignOut({})
    /\ UNCHANGED <<pending, browser, server>>

SelectTab(name) ==
    /\ Calm /\ tab # name /\ tab' = name
    /\ UNCHANGED <<token, models, range, report, stored>>
    /\ Route({})
    /\ UNCHANGED <<pending, browser, server>>

(* bindSegmented: the range changes before its report is there. *)
SelectRange(r) ==
    /\ Calm /\ shown = "tabs" /\ tab = "usage" /\ r # range
    /\ range' = r
    /\ UNCHANGED <<token, models, report, shown>>
    /\ Exchange({}, LoadUsage)
    /\ UNCHANGED <<storage, browser, tab, server>>

ClickAction ==
    /\ Calm /\ shown = "tabs" /\ tab = "accounts"
    /\ UNCHANGED <<token, models, range, report, shown>>
    /\ Exchange({}, {Call("action", "action", None)})
    /\ UNCHANGED <<storage, browser, tab, server>>

(* mutant: the timer stands still once there is a report *)
Refresh_Once ==
    /\ Calm /\ token # None /\ tab = "usage" /\ report = None
    /\ UNCHANGED <<token, models, range, report, shown>>
    /\ Exchange({}, LoadUsage)
    /\ UNCHANGED <<storage, browser, tab, server>>

(* setInterval, every 30 seconds *)
Refresh ==
    /\ Calm /\ token # None /\ tab = "usage"
    /\ UNCHANGED <<token, models, range, report, shown>>
    /\ Exchange({}, LoadUsage)
    /\ UNCHANGED <<storage, browser, tab, server>>

Revoke(t) ==
    /\ valid' = valid \ {t}
    /\ UNCHANGED <<page, storage, browser, tab, failures>>

-----------------------------------------------------------------------------
(* Single sign-on *)

(* startSignIn awaits the configuration and the digest of its verifier. *)
StartSignIn(f) ==
    /\ Calm /\ shown = "login" /\ f \notin signIns
    /\ signIns' = signIns \cup {f}
    /\ UNCHANGED <<page, storage, place, target, redeeming, tab, server>>

(* mutant: a page that is leaving already is not sent elsewhere *)
Assign_First(f) ==
    /\ place # "issuer" /\ f \in signIns /\ signIns' = signIns \ {f}
    /\ \/ pending' = f /\ place' = "leaving" /\ target' = IF target = None THEN f ELSE target
       \/ UNCHANGED <<pending, place, target>>
    /\ UNCHANGED <<page, stored, redeeming, tab, server>>

(* location.assign: the page goes on until the browser has left it, and the *)
(* last place to go to is the one that counts.  Without a configuration or  *)
(* a digest there is an error instead.                                      *)
Assign(f) ==
    /\ place # "issuer" /\ f \in signIns /\ signIns' = signIns \ {f}
    /\ \/ pending' = f /\ place' = "leaving" /\ target' = f
       \/ UNCHANGED <<pending, place, target>>
    /\ UNCHANGED <<page, stored, redeeming, tab, server>>

(* A page that is loaded: its memory is what the session storage has. *)
Loaded ==
    /\ token' = stored /\ models' = FALSE /\ range' = Default /\ report' = None
    /\ shown' = "nothing" /\ calls' = EmptyBag /\ signIns' = {}

Leave ==
    /\ place = "leaving" /\ place' = "issuer" /\ redeeming' = FALSE
    /\ Loaded
    /\ UNCHANGED <<storage, target, tab, server>>

(* The issuer redirects back with a code or an error, and finishSignIn takes*)
(* the request that is stored: a code for another one is refused.           *)
ComeBack ==
    /\ place = "issuer" /\ place' = "page" /\ target' = None
    /\ pending' = None /\ redeeming' \in {FALSE, pending = target}
    /\ UNCHANGED <<page, stored, signIns, tab, server>>

(* The viewer loads the page again, or goes back to it. *)
Reload ==
    /\ Loaded
    /\ place' = "page" /\ target' = None /\ redeeming' = FALSE
    /\ UNCHANGED <<storage, tab, server>>

(* The startup ends with route(), unless a code is redeemed first. *)
Startup ==
    /\ place = "page" /\ shown = "nothing" /\ ~redeeming
    /\ UNCHANGED <<token, models, range, report, stored, tab>>
    /\ Route({})
    /\ UNCHANGED <<pending, browser, server>>

(* The token is in use and stored at once; or the issuer refuses the code. *)
Redeemed ==
    /\ place # "issuer" /\ redeeming /\ redeeming' = FALSE
    /\ \/ \E t \in valid : token' = t /\ stored' = t
       \/ UNCHANGED <<token, stored>>
    /\ UNCHANGED <<models, range, report, tab>>
    /\ Route({})
    /\ UNCHANGED <<pending, place, target, signIns, server>>

-----------------------------------------------------------------------------
Next ==
    \/ Answer \/ ClickSignOut \/ ClickAction \/ Refresh
    \/ \E t \in Tokens : LogIn(t) \/ Revoke(t)
    \/ \E name \in Tabs : SelectTab(name)
    \/ \E r \in Ranges : SelectRange(r)
    \/ \E f \in Flows : StartSignIn(f) \/ Assign(f)
    \/ Leave \/ ComeBack \/ Reload \/ Startup \/ Redeemed

(* Timers fire, and what is awaited comes or fails in the end. *)
Fairness == WF_vars(Answer) /\ WF_vars(\E f \in Flows : Assign(f)) /\ WF_vars(Refresh)

Spec == Init /\ [][Next]_vars /\ Fairness

-----------------------------------------------------------------------------
(* Properties *)

(* The token that survives a reload of the page is the one it is using, or  *)
(* none: not one that the viewer signed out of, nor one that was replaced   *)
(* while it was being verified (submit handler, signOut, finishSignIn).     *)
StoredTokenIsCurrent == stored \in {None, token}

(* Of several sign-ons begun at once the browser goes to the issuer with    *)
(* the one whose request is stored, so that its code can be redeemed.       *)
LastSignInWins == place # "page" => pending = target

(* A viewer who stays signed in on the usage tab gets the report of the     *)
(* range that is selected, however late the reports of other ranges come.   *)
Watching(r) == token # None /\ place = "page" /\ shown = "tabs" /\ tab = "usage" /\ range = r
ReportCatchesUp == \A r \in Ranges : <>[]Watching(r) => <>[](report = r)
=============================================================================
