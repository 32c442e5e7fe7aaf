CONSTANTS
    u1 = u1
    l1 = l1
    l2 = l2
    b1 = b1
    b2 = b2
    r1 = r1
    site = site
    a1 = a1
    a2 = a2
    Users = {u1}
    Logins = {l1, l2}
    Legacy <- MCLegacy
    Apps = {a1, a2}
    NoApplication = NoApplication
    Hosts = {site, other, authere}
    AuthereHost = authere
    Roles = {r1}
    Names = {"a", "b"}
    PathPrefixes <- MCPrefixes
    Paths <- MCPaths
    Browsers = {b1, b2}
    Nonces = {n1, n2}
    NoNonce = NoNonce
    Handoffs = {h1}
    NoHandoff = NoHandoff
    Requests = {p1, p2}
    Configurations <- MCConfigurations
    Installations <- MCInstallations
    Workloads <- MCWorkloads
    AccessLifetime = 1
    SessionExpiry = 2
    HandoffLifetime = 1
    MaxTime = 2
    MaxVersion = 1
    MaxCredentials = 2
SPECIFICATION Spec
INVARIANTS
    TypeOK
    HandoffRedeemedOnce
    RevocationReachesForward
    ForwardWithinSession
    SessionsStartInTheirBrowser
    MostSpecificPolicyDecides
    PolicyPathIsCanonical
SYMMETRY Symmetry
