SPECIFICATION VisitorsSpec
CONSTANTS
    None = None
    Packages <- Published
    Lease = 1
    Margin = 0
    Residents = 2
    Limit = 1
    Memory = 1
    Tries = 2
    MaxChanges = 1
    MapEvents = {"a", "b"}
    CellOf <- Cell
    PassesOf <- Matches
    Areas = {{1}, {2}, {3}}
    Padded <- Vicinity
    Sieves = {"all", "free"}
    Fresh = 2
    MaxPublished = 1
    Searches = {"all", "free"}
    Candidates <- CandidatesOf
    Listings = {1, 2}
    Starts = {1, 2}
    Finds <- FindsOf
    ListSearches = {"all", "free"}
    PageSize = 1
    CursorLife = 1
    Block = 1
    MaxMoves = 1
    Counts <- CountsOf
    LinkLife = 1
    SessionLife = 2
    MaxNow = 1
    MaxTurns = 1
    MaxReads = 2
    Tabs = {"s", "t"}
    Quantities = {1, 2}
    Capacity = 2
    MaxRsvps = 2
    Passes = {"p", "q"}
    Scanners = {"s"}
    MaxCalls = 2
INVARIANTS
    MapPreviewInvariant
    DiscoveryPromise
    RsvpInvariant
    

    
CHECK_DEADLOCK FALSE
