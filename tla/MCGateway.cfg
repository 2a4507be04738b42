\* Streams and plain requests that name a model: two, of either kind, over two accounts.
SPECIFICATION GatewaySpec
CHECK_DEADLOCK FALSE
CONSTANTS
    Responses = {r1, r2}
    Models = {"small"}
    ExplicitOnly = {}
    Asks = {"small"}
    Breaks = {"retryable"}
    Impatient = {}
    StorageFails = FALSE
    ReloadFails = FALSE
    MaxAttempts = 4
    MaxRounds = 1
    Controls = {None}
    Accounts = {1, 2}
    Sessions = {}
    Pools <- TwoAccounts
    Strategy = "fill-first"
    SessionAffinity = FALSE
    AffinityTTL = 1
    MaxTime = 4
    Clients = {client}
    Keys = {}
    Conversations = {c1}
    None = None
    MaxTier = 2
    TierOf <- CatalogTiers
    ProviderOf <- CatalogProviders
    Providers = {"openai"}
    Subagents = FALSE
    RebindAny = FALSE
    DisableCooling = FALSE
    RequestRetry = 0
    MaxRetryCredentials = 0
    MaxWeight = 1
    AuthCooldown = 1
    QuotaCooldown = 1
    TransientCooldown = 1
    MaxCursor = 0
    MaxWait = 1
PROPERTIES
    RequestsEnd
