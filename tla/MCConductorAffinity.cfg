\* Weighted round robin and session affinity: a session and its subagent over two accounts.
CONSTANTS
    Accounts = {1, 2}
    Providers = {"openai"}
    Models = {"big", "small"}
    Sessions = {"main", "sub"}
    None = None
    Pools <- AffinityPools
    Requests <- AffinityRequests
    Strategy = "weighted-round-robin"
    SessionAffinity = TRUE
    Subagents = TRUE
    RebindAny = FALSE
    DisableCooling = FALSE
    RequestRetry = 3
    MaxRetryCredentials = 0
    MaxWeight = 2
    AffinityTTL = 1
    AuthCooldown = 1
    QuotaCooldown = 1
    TransientCooldown = 1
    MaxCursor = 4
    MaxTime = 2
SPECIFICATION Spec
INVARIANTS TypeOK FairShare
PROPERTIES BindingsAreKept
