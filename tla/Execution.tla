------------------------------ MODULE Execution ------------------------------
(***************************************************************************)
(* What streaming and non-streaming requests (internal/executor) share:    *)
(* the conversation store and the account selector they run on, the errors *)
(* an attempt can end with, and the calls both make in the same way.       *)
(*                                                                         *)
(* Session idleness belongs to RoutingStore: the store's clock stands      *)
(* still here.                                                             *)
(***************************************************************************)
EXTENDS Integers, FiniteSets, SequencesExt

CONSTANTS
    Clients, Keys, Conversations, Responses, Models, None, MaxTier,  \* see RoutingStore
    TierOf, ProviderOf,     \* the catalog: model -> tier, provider
    ExplicitOnly,           \* models that only explicit requests may use
    Asks,                   \* the models requests ask for; None is automatic
    Breaks,                 \* the errors an attempt may end with
    Impatient,              \* the requests whose callers may hang up
    StorageFails,           \* whether transactions may fail
    ReloadFails,            \* whether the directory of accounts may be unreadable
    MaxAttempts,            \* bound on the attempts of a request
    MaxWait,                \* the longest wait for a cooldown, 30 seconds
    Accounts, Providers, Sessions, Pools,                            \* see Conductor
    Strategy, SessionAffinity, Subagents, RebindAny, DisableCooling,
    RequestRetry, MaxRetryCredentials, MaxWeight,
    AffinityTTL, AuthCooldown, QuotaCooldown, TransientCooldown,
    MaxCursor, MaxTime

VARIABLES
    conversations, sessions, responses, attempts, saved,  \* RoutingStore
    now, pool, cursor, bindings, cooldown, failed, tally  \* Conductor

storeVars == <<conversations, sessions, responses, attempts, saved>>
selectorVars == <<now, pool, cursor, bindings, cooldown, failed, tally>>

Repository == INSTANCE RoutingStore WITH
    Attempts <- Responses \X (1 .. MaxAttempts), now <- 0,
    SessionTTL <- 0, MaxLag <- 0, MaxTime <- 0

(* What a selection returns goes to the request that asked for it. *)
Selector == INSTANCE Conductor WITH
    Requests <- {}, outcome <- [kind |-> "none", account |-> None]

(* Errors by the way the executor treats them; "unexpected" is a status that*)
(* is no error with a body that is no answer (retryable by its kind, and    *)
(* permanent by its status); "other" is every error that is not a           *)
(* provider's: storage, a writer whose caller is gone.                      *)
Errors == {"retryable", "unexpected", "rate_limit", "authentication", "refused", "canceled", "other"}

ASSUME ExecutionAssumption ==
    /\ Repository!RoutingStoreAssumption /\ Selector!ConductorAssumption
    /\ IsFiniteSet(Models)
    /\ TierOf \in [Models -> 0 .. MaxTier] /\ ProviderOf \in [Models -> Providers]
    /\ ExplicitOnly \subseteq Models /\ Asks \subseteq Models \cup {None} /\ Breaks \subseteq Errors
    /\ {StorageFails, ReloadFails} \subseteq BOOLEAN /\ Impatient \subseteq Responses
    /\ MaxAttempts \in Nat /\ MaxWait \in Nat \ {0}

FailureClass(error) ==
    CASE error = "rate_limit" -> "quota"
      [] error = "authentication" -> "auth"
      [] error \in {"refused", "canceled", "unexpected"} -> "permanent"
      [] OTHER -> "transient"

-----------------------------------------------------------------------------
(* conversations.Start writes the turn; what it read back is in the row of  *)
(* the turn's conversation.                                                 *)
StartTurn(r, client, named) ==
    \/ \E key \in Keys \cup {None}, c \in Conversations :
          Repository!CreateTurn(client, key, c, r, named # None, 0)
    \/ \E previous \in Responses : Repository!ContinueTurn(client, previous, r, named # None)

TurnOf(r) == conversations[Repository!ConversationOf(r)]

(* Every attempt of a request has an ID of its own. *)
NextAttempt(r) == <<r, Cardinality(Repository!AttemptsOf(r)) + 1>>

(* A request at the bound stands still; that all end shows none reaches it. *)
Bounded(r) == Cardinality(Repository!AttemptsOf(r)) < MaxAttempts

(* The model a request decided on is too weak for its conversation by now. *)
Outgrown(r, model) == ~Repository!TierAccepted(Repository!ConversationOf(r), TierOf[model])

-----------------------------------------------------------------------------
(* The selector *)

AccountRequest(model, session, round, tried) ==
    [model |-> model, provider |-> ProviderOf[model], session |-> session, parent |-> None,
     round |-> round, guardian |-> FALSE, tried |-> tried]

(* soonest: the first of all cooldowns to end, as far as one waits for it. *)
WaitEnd ==
    LET ends == {cooldown[a] : a \in {b \in Accounts : cooldown[b] > now}}
    IN  CHOOSE t \in ends \cup {now + MaxWait} : \A u \in ends \cup {now + MaxWait} : t <= u

(* mutant: extends a binding without looking whose it is *)
ReportSuccess_AnyBinding(session, account) ==
    IF account # None /\ session # None /\ SessionAffinity
    THEN /\ bindings' = [bindings EXCEPT ![session].expires = now + AffinityTTL]
         /\ UNCHANGED <<now, pool, cursor, cooldown, failed, tally>>
    ELSE UNCHANGED selectorVars

ReportSuccess(session, account) ==
    IF /\ account # None /\ session # None /\ SessionAffinity
       /\ bindings[session].account = account
    THEN Selector!ReportSuccess(session, account)
    ELSE UNCHANGED selectorVars

ReportFailure(session, account, error) ==
    IF account = None \/ FailureClass(error) = "permanent" THEN UNCHANGED selectorVars
    ELSE Selector!ReportFailure(session, account, FailureClass(error))

Reload == \E accounts \in Pools : Selector!ReplaceAccounts(accounts)

(* The clock matters to cooldowns and bindings only, and stands otherwise. *)
Tick ==
    /\ Selector!Cooling \/ \E s \in Sessions : Selector!Alive(s)
    /\ Selector!Tick
=============================================================================
