SPECIFICATION Spec
CONSTANTS
    Clients = {client}
    Keys = {key}
    Conversations = {c1, c2}
    Responses = {r1, r2}
    Attempts = {a1, a2}
    Models = {m1}
    None = None
    MaxTier = 2
    SessionTTL = 1
    MaxLag = 1
    MaxTime = 3
SYMMETRY Interchangeable
INVARIANTS
    TypeOK
    PinWithinFloor
    CompletedByOneAttempt
    AnswersWithinPin
    SessionCoversConversations
    SessionCoversAnswers
    UsageNeedsPin
PROPERTIES
    ConversationRatchet
    SessionRatchet
    OutcomesStand
