SPECIFICATION OutgoingSpec
CONSTANTS
    Idle = Idle
    None = None
    d1 = d1
    d2 = d2
    c1 = c1
    c2 = c2
    q1 = q1
    q2 = q2
    visitor = visitor
    a1 = a1
    Deliveries = {d1, d2}
    Senders = {c1, c2}
    Quotes = {q1, q2}
    Visitors = {visitor}
    Admins = {a1}
    MaxRetries = 1
    MaxRows = 3
    MaxReady = 1
    MaxAttempts = 2
    MaxReplays = 1
SYMMETRY Symmetry
INVARIANTS
    TypesOK
    DeliveredOnce
    SignatureFollowsDelivery
    ExportsAccounted
PROPERTIES
    LateAnswersDecideNothing
    DecisionsAreFinal
    ReadyStaysUsable
