CONSTANTS
    c1 = c1
    c2 = c2
    Conns = {c1, c2}
    MaxConnections = 1
    Upper <- MCUpper
    Persons <- MCPersons
    RoleNames <- MCRoleNames
    BadDn <- MCBadDn
    UsizeOctets = 1
    MaxBerDepth = 3
    MaxBerSize = 6
    Addresses = {a1}
    MaxRequests = 2
    Window = 2
    MaxClock = 5
    Workloads <- MCWorkloads
    MaxGeneration = 2
    Passwords = {1, 2}
    MaxApps = 1
    MaxChanges = 2
SPECIFICATION Spec
INVARIANTS
    TypeOK
    BoundSearchesAreCurrent
    UserBindsAreJustified
    BindRateBounded
    SearchAnswersScope
    FramesAreDecided
PROPERTY ConnectionsEnd
CHECK_DEADLOCK FALSE
