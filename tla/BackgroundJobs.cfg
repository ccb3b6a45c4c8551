SPECIFICATION BackgroundSpec
CONSTANTS
    Mails = {a1}
    Senders = {w1, w2}
    Lease = 2
    Margin = 1
    Backoff = 1
    Window = 3
    KeyLife = 4
    MaxDispatch = 2
    Nobody = Nobody
    None = None
    Slots = {1}
    MaxGens = 1
    MaxCovers = 2
    MaxBusy = 2
    a1 = a1
    w1 = w1
    w2 = w2
INVARIANTS
    MailInvariant
    CoverInvariant
PROPERTIES
    KeepsPromise
    DispatchSettles
    ShotsSettle
CHECK_DEADLOCK FALSE
