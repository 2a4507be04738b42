\* Automatic requests: two streams of one conversation.
SPECIFICATION Spec
CHECK_DEADLOCK FALSE
CONSTANTS
    Clients = {client}
    Keys = {}
    Conversations = {c1}
    Responses = {r1, r2}
    Models = {"small", "large", "review"}
    ExplicitOnly = {"review"}
    Controls = {None}
    Asks = {None}
    Breaks = {"retryable", "other"}
    Impatient = {r1, r2}
    StorageFails = TRUE
    ReloadFails = FALSE
    MaxAttempts = 3
    Accounts = {}
    Sessions = {}
    Pools <- NoAccounts
    SessionAffinity = FALSE
    AffinityTTL = 1
    MaxTime = 0
    None = None
    MaxTier = 2
    TierOf <- CatalogTiers
    ProviderOf <- CatalogProviders
    Providers = {"openai"}
    Strategy = "round-robin"
    Subagents = FALSE
    RebindAny = FALSE
    DisableCooling = FALSE
    RequestRetry = 3
    MaxRetryCredentials = 0
    MaxWeight = 1
    AuthCooldown = 1
    QuotaCooldown = 1
    TransientCooldown = 1
    MaxCursor = 0
    MaxWait = 1
SYMMETRY Interchangeable
INVARIANTS
    TypeOK
    CompletionIsStored
    CallerLearnsTheEnd
    AttemptsSettled
PROPERTIES
    NoRetryAfterOutput
    BrokenStreamsEscalate
