SPECIFICATION Spec
CONSTANTS
    Clients = {client}
    Keys = {key}
    Conversations = {c1, c2}
    Responses = {r1, r2}
    Attempts = {a1, a2}
    Models = {m1}
    None = None
    MaxTier = 2
    SessionTTL = 1
    MaxLag = 1
    MaxTime = 1
SYMMETRY Interchangeable
PROPERTY ExplicitLeavesSessionsAlone
