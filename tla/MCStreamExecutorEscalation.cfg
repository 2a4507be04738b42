\* Explicit requests that may escalate, over an account that comes and goes.
SPECIFICATION Spec
CHECK_DEADLOCK FALSE
CONSTANTS
    Clients = {client}
    Keys = {}
    Conversations = {c1}
    Responses = {r1, r2}
    Models = {"small", "large", "review"}
    ExplicitOnly = {"review"}
    Controls = {TRUE, FALSE}
    Asks = {None, "small", "review"}
    Breaks = {"retryable", "unexpected", "refused"}
    Impatient = {r1}
    StorageFails = FALSE
    ReloadFails = TRUE
    MaxAttempts = 2
    Accounts = {1}
    Sessions = {}
    Pools <- OneOrNone
    SessionAffinity = FALSE
    AffinityTTL = 1
    MaxTime = 4
    None = None
    MaxTier = 2
    TierOf <- CatalogTiers
    ProviderOf <- CatalogProviders
    Providers = {"openai"}
    Strategy = "fill-first"
    Subagents = FALSE
    RebindAny = FALSE
    DisableCooling = FALSE
    RequestRetry = 3
    MaxRetryCredentials = 0
    MaxWeight = 1
    AuthCooldown = 1
    QuotaCooldown = 1
    TransientCooldown = 1
    MaxCursor = 0
    MaxWait = 1
INVARIANTS
    FallbacksAreAllowed
