SPECIFICATION PagesSpec
CONSTANTS
    None = None
    SiteTabs = {"t1"}
    Users = {"u", "v"}
    MaxTokens = 3
    MaxNews = 2
    Workers = {"w"}
    Addresses = {"a", "mapped a", "b"}
    HostOf <- Host
    Threshold = 2
    Attempts = 2
    MaxRevision = 2
    MaxVersion = 3
    MaxEvaluations = 2
    Texts = {"s", "t"}
    Answers = {"yes"}
    MaxEdition = 2
    MaxSaves = 2
    MaxTiers = 1
    FormTexts = {"a", "b"}
    MaxEdits = 2
    MaxPages = 2
    MaxVersions = 3
    Copies = {1, 2}
    Editors = {"e"}
    Profiles = {"p"}
    MaxUploads = 1
    MediaLimit = 2
    MerchLimit = 2
    MaxStamps = 2
    MaxStoreCalls = 2
    Drafts <- DraftsOf
    MaxFacts = 2
    MaxSends = 3
    HourLimit = 2
    Files = {2}
    MaxRows = 2
    MaxRequests = 1
    Leases = 1
    Budget = 2
    MaxTries = 1
INVARIANTS
    DraftsAreMadeOnce
    MessagePromise
PROPERTIES
    SessionPromise
    
    EditorPromise
    
    ImportPromise
CHECK_DEADLOCK FALSE
