CONSTANTS
    Users = {u1}
    Tokens = {l1, t1, t2}
    LegacyPairs = {l1}
    Requests = {p1, p2}
    NoToken = NoToken
    AccessLifetime = 1
    RetryWindow = 1
    ChainLimit = 2
    SessionExpiries = {2}
    LegacyDeadline = 2
    Endpoints = {"login", "password"}
    MaxTime = 2
    MaxVersion = 1
SPECIFICATION Spec
INVARIANTS
    PasswordChangeEndsSessions
