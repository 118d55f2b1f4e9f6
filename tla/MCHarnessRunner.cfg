SPECIFICATION Spec
CONSTANTS
    root = root
    follow = follow
    Messages = {root, follow}
    a = a
    Urls = {a, b}
    None = None
    Unknown = Unknown
    Home <- MCHome
    Channel <- MCChannel
    Scope <- MCScope
    KnowledgePlace = {root, follow}
    Directed = {follow}
    MessageUrls <- MCUrls
    RetryLimit = 2
    MaxFaults = 2
INVARIANTS LinksAreWhole OnlyOwnSourcesAreSent DirectedFollowUpIsAnswered ApprovedWritesAreLinked
CHECK_DEADLOCK FALSE
