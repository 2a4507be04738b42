\* Round robin over three accounts with reloads and cooldowns.
CONSTANTS
    Accounts = {1, 2, 3}
    Providers = {"openai"}
    Models = {"big", "small"}
    Sessions = {}
    None = None
    Pools <- RotationPools
    Requests <- RotationRequests
    Strategy = "round-robin"
    SessionAffinity = FALSE
    Subagents = TRUE
    RebindAny = TRUE
    DisableCooling = FALSE
    RequestRetry = 3
    MaxRetryCredentials = 0
    MaxWeight = 2
    AffinityTTL = 1
    AuthCooldown = 3
    QuotaCooldown = 2
    TransientCooldown = 2
    MaxCursor = 0
    MaxTime = 2
SPECIFICATION Spec
INVARIANTS FairShare
PROPERTIES RestsAfterFailure
