\* Retry rounds that have run out while an unrelated account cools.
CONSTANTS
    Accounts = {1, 2, 3}
    Providers = {"openai", "anthropic"}
    Models = {"big", "small"}
    Sessions = {}
    None = None
    Pools <- RetryPools
    Requests <- RetryRequests
    Strategy = "round-robin"
    SessionAffinity = FALSE
    Subagents = TRUE
    RebindAny = TRUE
    DisableCooling = FALSE
    RequestRetry = 3
    MaxRetryCredentials = 0
    MaxWeight = 2
    AffinityTTL = 1
    AuthCooldown = 3
    QuotaCooldown = 1
    TransientCooldown = 1
    MaxCursor = 0
    MaxTime = 2
SPECIFICATION Spec
PROPERTIES UnavailableMeansCooling
