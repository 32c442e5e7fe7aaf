CONSTANTS
    Users = {u1}
    Tokens = {l1, t1, t2, t3}
    LegacyPairs = {l1}
    Requests = {p1}
    NoToken = NoToken
    AccessLifetime = 1
    RetryWindow = 1
    ChainLimit = 2
    SessionExpiries = {1, 2}
    LegacyDeadline = 2
    Endpoints = {"passkey", "browser_refresh", "roles", "active", "settings"}
    MaxTime = 2
    MaxVersion = 1
SPECIFICATION FairSpec
INVARIANTS
    OneLiveCredentialPerLogin
    RetryChainStaysInLogin
    DeadlineFixedAtLogin
PROPERTIES
    BrowserAnswerIsCurrent
    StoredRowsAreSwept
