\* Automatic requests and requests of a session over two accounts, one of which comes and goes.
SPECIFICATION Spec
CHECK_DEADLOCK FALSE
CONSTANTS
    Responses = {r1, r2}
    Models = {"small"}
    ExplicitOnly = {}
    Asks = {None, "small"}
    Breaks = {"rate_limit", "unexpected"}
    Impatient = {r1}
    StorageFails = FALSE
    ReloadFails = TRUE
    MaxAttempts = 3
    MaxRounds = 1
    Accounts = {1, 2}
    Sessions = {"s"}
    Pools <- ComesAndGoes
    Strategy = "fill-first"
    SessionAffinity = TRUE
    AffinityTTL = 1
    MaxTime = 1
    Clients = {client}
    Keys = {}
    Conversations = {c1}
    None = None
    MaxTier = 2
    TierOf <- CatalogTiers
    ProviderOf <- CatalogProviders
    Providers = {"openai"}
    Subagents = FALSE
    RebindAny = FALSE
    DisableCooling = FALSE
    RequestRetry = 3
    MaxRetryCredentials = 0
    MaxWeight = 1
    AuthCooldown = 1
    QuotaCooldown = 1
    TransientCooldown = 1
    MaxCursor = 0
    MaxWait = 1
INVARIANTS
    TypeOK
    OutputIsStored
    CallsWithinRetryLimit
