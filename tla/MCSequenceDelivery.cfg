SPECIFICATION Spec
CONSTANTS
    e1 = e1
    c1 = c1
    w1 = w1
    w2 = w2
    Enrollments = {e1}
    Contacts = {c1}
    ContactOf <- MCContactOf
    Workers = {w1, w2}
    NoSend = NoSend
    Nobody = Nobody
    Steps = 2
    MaxAttempts = 1
    MaxRearms = 1
    Archiving = FALSE
SYMMETRY Symmetry
INVARIANTS
    TypeOK
    StepsInOrder
    SendsAccountedFor
    NothingAfterSuppression
PROPERTIES
    EndedStaysEnded
