SPECIFICATION MoneySpec
CONSTANTS
    None = None
    Details = {"a", "b"}
    MaxAttempts = 2
    Handlers = {"h1", "h2"}
    Identities = {"i", "j"}
    Limit = 2
    Window = 2
    Life = 4
    MaxBuckets = 1
    Tiers = {"v", "w"}
    MaxQuantity = 2
    Panels = {"a", "b"}
    Hooks = {"h"}
    MaxEvents = 1
    Refreshers = {"r1", "r2"}
    Hook = "hook"
    MaxBegins = 2
    MaxAccounts = 2
    MaxMounts = 3
    MaxSessions = 3
    ItemCounts = {1, 10}
    Amounts = {50, 999999990}
INVARIANTS
    AttemptInvariant
    TermsPromise
    RefundInvariant
    ConnectInvariant
    SetupInvariant
    NothingIsDropped
CHECK_DEADLOCK FALSE
