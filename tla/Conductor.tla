------------------------------ MODULE Conductor ------------------------------
(***************************************************************************)
(* internal/accounts/conductor.go: the in-memory selector that picks an    *)
(* account (a provider credential) for a client-named model.  Non-streaming*)
(* requests (executor/accounts.go), streams (executor/stream.go), the      *)
(* forwarder, the websocket proxy and the management API call it           *)
(* concurrently; every exported method runs under one mutex, so each is    *)
(* one action, and callers interleave between calls in any order.  The     *)
(* callers are left free here: any request may be selected for, and any    *)
(* account reported, at any time.                                          *)
(*                                                                         *)
(* Settings are those after Settings.Normalize.  Account.ID is a number,   *)
(* so that the sort by (Priority, ID) has an order to follow; prefixes and *)
(* excluded models are the set of models an account serves (modelAllowed). *)
(***************************************************************************)
EXTENDS Integers, FiniteSets, FiniteSetsExt

CONSTANTS
    Accounts,             \* account IDs
    Providers, Models,    \* provider names and model IDs
    Sessions,             \* session keys of named requests
    None,                 \* an empty string or an absent setting
    Pools,                \* account lists that configuration and auth directory can hold
    Requests,             \* selections that callers ask for
    Strategy,             \* "round-robin", "weighted-round-robin" or "fill-first"
    SessionAffinity, Subagents, RebindAny, DisableCooling,
    RequestRetry, MaxRetryCredentials, MaxWeight,
    AffinityTTL,          \* session_affinity_ttl
    AuthCooldown, QuotaCooldown, TransientCooldown,
    MaxCursor,            \* bound on the weighted cursor
    MaxTime               \* bound on the clock

Account == [id : Accounts, provider : Providers \cup {None}, enabled : BOOLEAN,
            weight : Int, priority : Int,
            retry : Nat \cup {None},  \* None: the settings' RequestRetry
            serves : SUBSET Models]

SelectRequest == [model : Models, provider : Providers \cup {None},
                  session : Sessions \cup {None}, parent : Sessions \cup {None},
                  round : Nat, guardian : BOOLEAN, tried : SUBSET Accounts]

ASSUME ConductorAssumption ==
    /\ Accounts \subseteq Nat /\ IsFiniteSet(Accounts)
    /\ None \notin Providers \cup Models \cup Sessions \cup Nat
    /\ \A accounts \in Pools :
          /\ accounts \subseteq Account /\ IsFiniteSet(accounts)
          /\ \A a, b \in accounts : a.id = b.id => a = b
    /\ Requests \subseteq SelectRequest
    /\ Strategy \in {"round-robin", "weighted-round-robin", "fill-first"}
    /\ {SessionAffinity, Subagents, RebindAny, DisableCooling} \subseteq BOOLEAN
    /\ {RequestRetry, MaxRetryCredentials, MaxWeight, MaxCursor, MaxTime} \subseteq Nat
    /\ {AffinityTTL, AuthCooldown, QuotaCooldown, TransientCooldown} \subseteq Nat \ {0}

VARIABLES
    now,       \* the clock
    pool,      \* the accounts in order of priority, then ID
    cursor,
    bindings,  \* session key -> the account it sticks to
    cooldown,  \* account ID -> end of its cooldown; 0 is "no entry"
    outcome,   \* what the last Select returned
    failed,    \* history: when an account was last reported, -1 if not since a reset
    tally      \* history: picks since the eligible accounts last changed

vars == <<now, pool, cursor, bindings, cooldown, outcome, failed, tally>>

NoBinding == [account |-> None, model |-> None, expires |-> 0]
NoTally == [among |-> {}, picks |-> [a \in Accounts |-> 0]]

Granted(id) == [kind |-> "account", account |-> id]
Refused(kind) == [kind |-> kind, account |-> None]  \* "unavailable" or "none"

(* slices.SortFunc by Priority, then ID *)
Before(a, b) == a.priority < b.priority \/ (a.priority = b.priority /\ a.id < b.id)

Sortings(accounts) ==
    {order \in [1 .. Cardinality(accounts) -> accounts] :
        \A i, j \in DOMAIN order : i < j => Before(order[i], order[j])}

TypeOK ==
    /\ now \in Nat /\ cursor \in Nat
    /\ \E accounts \in Pools : pool \in Sortings(accounts)
    /\ bindings \in [Sessions ->
           [account : Accounts, model : Models, expires : Nat] \cup {NoBinding}]
    /\ cooldown \in [Accounts -> Nat]
    /\ outcome \in {Granted(a) : a \in Accounts} \cup {Refused("unavailable"), Refused("none")}
    /\ failed \in [Accounts -> Nat \cup {-1}]
    /\ tally \in [among : SUBSET Account, picks : [Accounts -> Nat]]

(* NewConductor *)
Init ==
    /\ now = 0 /\ cursor = 0
    /\ \E accounts \in Pools : pool \in Sortings(accounts)
    /\ bindings = [s \in Sessions |-> NoBinding]
    /\ cooldown = [a \in Accounts |-> 0]
    /\ outcome = Refused("none")
    /\ failed = [a \in Accounts |-> -1]
    /\ tally = NoTally

-----------------------------------------------------------------------------
(* Eligibility *)

RetryLimit(account) == IF account.retry = None THEN RequestRetry ELSE account.retry

(* The conditions of admits that come before and after the cooldown's. *)
Addressed(account, req) ==
    /\ account.enabled /\ account.provider # None
    /\ req.provider \in {None, account.provider}
    /\ account.id \notin req.tried

Qualified(account, req) ==
    /\ req.round <= RetryLimit(account)
    /\ Strategy = "weighted-round-robin" => account.weight \in 1 .. MaxWeight
    /\ req.model \in account.serves

Admits(account, req) ==
    /\ Addressed(account, req)
    /\ cooldown[account.id] <= now
    /\ Qualified(account, req)

Eligible(req) == {i \in DOMAIN pool : Admits(pool[i], req)}

(* max_retry_credentials is spent: candidate gives up before it looks. *)
Exhausted(req) == MaxRetryCredentials > 0 /\ Cardinality(req.tried) >= MaxRetryCredentials

(* admits deletes the ended cooldown of every account it gets to. *)
Thaw(req) ==
    cooldown' = [a \in Accounts |->
        IF /\ cooldown[a] <= now
           /\ ~Exhausted(req)
           /\ \E i \in DOMAIN pool : pool[i].id = a /\ Addressed(pool[i], req)
        THEN 0 ELSE cooldown[a]]

(* A cooldown of any account at all counts (soonest). *)
Cooling == \E a \in Accounts : cooldown[a] > now

-----------------------------------------------------------------------------
(* Session bindings *)

Alive(s) == bindings[s].expires > now

(* expire *)
Unexpired == [s \in Sessions |-> IF Alive(s) THEN bindings[s] ELSE NoBinding]

(* mutant: the account of the latest selection replaces the bound one *)
Bound_Steals(req, id) ==
    IF SessionAffinity /\ req.session # None
    THEN [Unexpired EXCEPT ![req.session] =
             [account |-> id, model |-> req.model, expires |-> now + AffinityTTL]]
    ELSE Unexpired

(* bind, after expire *)
Bound(req, id) ==
    IF SessionAffinity /\ req.session # None /\ ~Alive(req.session)
    THEN [Unexpired EXCEPT ![req.session] =
             [account |-> id, model |-> req.model, expires |-> now + AffinityTTL]]
    ELSE Unexpired

Inherits(req, id) ==
    /\ Subagents /\ req.parent # None
    /\ Alive(req.parent) /\ bindings[req.parent].account = id
    /\ bindings[req.parent].model = req.model \/ req.guardian

Holds(req, id) == req.session # None /\ Alive(req.session) /\ bindings[req.session].account = id

(* The parent's account comes before the session's own. *)
Sticky(req) ==
    LET inherited == {i \in Eligible(req) : Inherits(req, pool[i].id)}
        own == {i \in Eligible(req) : Holds(req, pool[i].id)}
    IN  IF ~SessionAffinity THEN {} ELSE IF inherited # {} THEN inherited ELSE own

-----------------------------------------------------------------------------
(* Strategies *)

First(indices) == CHOOSE i \in indices : \A j \in indices : i <= j

(* How far the round-robin cursor is from position i. *)
Ahead(i) == (i - 1 - cursor) % Cardinality(DOMAIN pool)

(* mutant: the cursor counts from the head of the list *)
RoundRobin_FromHead(req, i) ==
    /\ i \in Eligible(req)
    /\ \A j \in Eligible(req) : Ahead(i) <= Ahead(j)
    /\ cursor' = (Ahead(i) + 1) % Cardinality(DOMAIN pool)

RoundRobin(req, i) ==
    /\ i \in Eligible(req)
    /\ \A j \in Eligible(req) : Ahead(i) <= Ahead(j)
    /\ cursor' = i % Cardinality(DOMAIN pool)

WeightUpTo(req, i) ==
    MapThenSumSet(LAMBDA j : pool[j].weight, {j \in Eligible(req) : j <= i})

(* mutant: an account keeps one turn too many *)
Weighted_OneMore(req, i) ==
    LET total == MapThenSumSet(LAMBDA j : pool[j].weight, Eligible(req))
        index == cursor % total
    IN  /\ i = First({j \in Eligible(req) : index <= WeightUpTo(req, j)})
        /\ cursor' = cursor + 1

Weighted(req, i) ==
    LET total == MapThenSumSet(LAMBDA j : pool[j].weight, Eligible(req))
        index == cursor % total
    IN  /\ i = First({j \in Eligible(req) : index < WeightUpTo(req, j)})
        /\ cursor' = cursor + 1

-----------------------------------------------------------------------------
(* History: how often each account was picked by the strategy since the set *)
(* of eligible accounts last changed, starting over after a full turn.      *)

Share(account) == IF Strategy = "weighted-round-robin" THEN account.weight ELSE 1

Count(req, i) ==
    LET among == {pool[j] : j \in Eligible(req)}
        before == IF tally.among = among THEN tally.picks ELSE NoTally.picks
        picks == [before EXCEPT ![pool[i].id] = @ + 1]
    IN  tally' = IF \A a \in among : picks[a.id] = Share(a) THEN NoTally
                 ELSE [among |-> among, picks |-> picks]

-----------------------------------------------------------------------------
(* Operations.  A selection is a step and what it returns. *)

(* candidate finds no account; only its bookkeeping stays. *)
Refuse(req, result) ==
    /\ Exhausted(req) \/ Eligible(req) = {}
    /\ result = Refused(IF ~Exhausted(req) /\ Cooling THEN "unavailable" ELSE "none")
    /\ bindings' = Unexpired
    /\ UNCHANGED <<cursor, tally>>

Stick(req, result) ==
    /\ ~Exhausted(req)
    /\ \E i \in Sticky(req) :
          /\ result = Granted(pool[i].id)
          /\ bindings' = Bound(req, pool[i].id)
    /\ UNCHANGED <<cursor, tally>>

(* byStrategy with consume *)
Rotate(req, result) ==
    /\ ~Exhausted(req) /\ Sticky(req) = {}
    /\ \E i \in Eligible(req) :
          /\ \/ /\ Strategy = "fill-first"
                /\ i = First(Eligible(req))
                /\ UNCHANGED <<cursor, tally>>
             \/ /\ Strategy = "round-robin"
                /\ RoundRobin(req, i)
                /\ Count(req, i)
             \/ /\ Strategy = "weighted-round-robin"
                /\ cursor < MaxCursor
                /\ Weighted(req, i)
                /\ Count(req, i)
          /\ result = Granted(pool[i].id)
          /\ bindings' = Bound(req, pool[i].id)

Returns(req, result) ==
    /\ Refuse(req, result) \/ Stick(req, result) \/ Rotate(req, result)
    /\ Thaw(req)
    /\ UNCHANGED <<now, pool, failed>>

Select(req) == Returns(req, outcome')

(* candidate without consume: its answer takes nothing, but expired entries go. *)
HasEligible(req) ==
    /\ bindings' = Unexpired
    /\ Thaw(req)
    /\ UNCHANGED <<now, pool, cursor, outcome, failed, tally>>

(* mutant: the binding's account is not compared *)
ReportSuccess_AnyBinding(session, account) ==
    /\ SessionAffinity /\ account \in Accounts
    /\ bindings' = [bindings EXCEPT ![session] =
           [account |-> @.account, model |-> @.model, expires |-> now + AffinityTTL]]
    /\ UNCHANGED <<now, pool, cursor, cooldown, outcome, failed, tally>>

(* An expired binding that no selection has reaped yet is extended too. *)
ReportSuccess(session, account) ==
    /\ SessionAffinity
    /\ bindings[session].account = account
    /\ bindings' = [bindings EXCEPT ![session] =
           [account |-> @.account, model |-> @.model, expires |-> now + AffinityTTL]]
    /\ UNCHANGED <<now, pool, cursor, cooldown, outcome, failed, tally>>

CooldownFor(class) ==
    CASE class = "auth" -> AuthCooldown
      [] class = "quota" -> QuotaCooldown
      [] OTHER -> TransientCooldown

(* mutant: a cooldown that has not been reaped is not extended *)
CooledDown_KeepsFirst(account, class) ==
    [cooldown EXCEPT ![account] = IF @ > now THEN @ ELSE now + CooldownFor(class)]

(* The latest report counts, even when it ends before an earlier one's. *)
CooledDown(account, class) == [cooldown EXCEPT ![account] = now + CooldownFor(class)]

(* Whichever account the session is bound to is released.  Permanent        *)
(* failures return early.                                                   *)
ReportFailure(session, account, class) ==
    /\ IF DisableCooling THEN UNCHANGED <<cooldown, failed>>
       ELSE /\ cooldown' = CooledDown(account, class)
            /\ failed' = [failed EXCEPT ![account] = now]
    /\ IF SessionAffinity /\ session # None /\ (RebindAny \/ class \in {"quota", "auth"})
       THEN bindings' = [bindings EXCEPT ![session] = NoBinding]
       ELSE UNCHANGED bindings
    /\ UNCHANGED <<now, pool, cursor, outcome, tally>>

(* One account, or every account for an empty ID. *)
ResetCooldown(ids) ==
    /\ cooldown' = [a \in Accounts |-> IF a \in ids THEN 0 ELSE cooldown[a]]
    /\ failed' = [a \in Accounts |-> IF a \in ids THEN -1 ELSE failed[a]]
    /\ UNCHANGED <<now, pool, cursor, bindings, outcome, tally>>

(* Bindings, cooldowns and the cursor outlive a reload. *)
ReplaceAccounts(accounts) ==
    /\ pool' \in Sortings(accounts)
    /\ tally' = NoTally
    /\ UNCHANGED <<now, cursor, bindings, cooldown, outcome, failed>>

Tick ==
    /\ now < MaxTime
    /\ now' = now + 1
    /\ UNCHANGED <<pool, cursor, bindings, cooldown, outcome, failed, tally>>

-----------------------------------------------------------------------------
Next ==
    \/ \E req \in Requests : Select(req) \/ HasEligible(req)
    \/ \E account \in Accounts :
          \/ \E session \in Sessions : ReportSuccess(session, account)
          \/ \E session \in Sessions \cup {None}, class \in {"auth", "quota", "transient"} :
                ReportFailure(session, account, class)
    \/ \E ids \in {{a} : a \in Accounts} \cup {Accounts} : ResetCooldown(ids)
    \/ \E accounts \in Pools : ReplaceAccounts(accounts)
    \/ Tick

Spec == Init /\ [][Next]_vars

-----------------------------------------------------------------------------
(* Properties *)

(* "A failover attempt must not steal a binding that ReportFailure left in  *)
(* place" (bind): while a session's binding is alive no step hands it to    *)
(* another account or model, nor shortens it; it has to be released first.  *)
BindingsAreKept == [][
    \A s \in Sessions : Alive(s) =>
        \/ bindings'[s] = NoBinding
        \/ /\ bindings'[s].account = bindings[s].account
           /\ bindings'[s].model = bindings[s].model
           /\ bindings'[s].expires >= bindings[s].expires]_vars

(* As long as the same accounts are eligible, the strategy takes each of    *)
(* them its share of times before it takes any of them once more, whatever  *)
(* sticky selections, refusals and reports come in between.                 *)
FairShare == \A a \in tally.among : tally.picks[a.id] <= Share(a)

(* An account that was reported is not selected again before the shortest   *)
(* cooldown has passed, unless an operator reset it, in whatever order      *)
(* concurrent requests report it and the pool is reloaded.                  *)
RestsAfterFailure == [][
    \A req \in Requests, a \in Accounts :
        Select(req) /\ outcome' = Granted(a) /\ failed[a] >= 0 =>
            \E rest \in {AuthCooldown, QuotaCooldown, TransientCooldown} : now >= failed[a] + rest]_vars

(* "UnavailableError reports that every eligible account is cooling down"   *)
(* (types.go): the caller is told to come back only when some account would *)
(* serve it but for a cooldown.                                             *)
UnavailableMeansCooling == [][
    \A req \in Requests : Select(req) /\ outcome' = Refused("unavailable") =>
        \E i \in DOMAIN pool :
            Addressed(pool[i], req) /\ Qualified(pool[i], req) /\ cooldown[pool[i].id] > now]_vars
=============================================================================
