CONSTANTS
    u1 = u1
    l1 = l1
    r1 = r1
    w1 = w1
    w2 = w2
    v1 = v1
    v2 = v2
    h1 = h1
    h2 = h2
    Users = {u1}
    Logins = {l1, n1}
    Legacy <- MCLegacy
    Clients = {a1, a2}
    NoApplication = NoApplication
    Roles = {r1}
    RedirectUris = {w1, w2}
    Verifiers = {v1, v2}
    Challenges = {h1, h2}
    S256 <- MCS256
    Codes = {k1}
    NoCode = NoCode
    Requests = {p1, p2}
    AccessLifetime = 1
    SessionExpiry = 2
    AUTHORIZATION_CODE_LIFETIME = 2
    OIDC_ACCESS_TOKEN_LIFETIME = 2
    ID_TOKEN_LIFETIME = 2
    SweepGrace = 0
    Configurations <- MCConfigurations
    MaxTime = 2
    MaxVersion = 1
    MaxCredentials = 2
SPECIFICATION Spec
INVARIANTS
    TypeOK
    CodeAnsweredOnce
    RevocationReachesTokens
    GrantsWithinSession
PROPERTIES
    CodeSpentByItsClient
SYMMETRY Symmetry
