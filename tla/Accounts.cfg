CONSTANTS
    u1 = u1
    u2 = u2
    u3 = u3
    l1 = l1
    l2 = l2
    Users = {u1, u2, u3}
    Logins = {l1, l2, l3}
    Legacy <- MCLegacy
    Usernames = {n1, n2, n3}
    NoUser = NoUser
    Roles = {admin, user, r1}
    AdminRole = admin
    UserRole = user
    Invitations = {i1}
    NoInvitation = NoInvitation
    Requests = {p1, p2}
    PoolSize = 2
    MaxUses = 1
    MaxTime = 1
    Keys = {k1, k2}
    Challenges = {x1, x2}
    NoChallenge = NoChallenge
    NoKey = NoKey
    Browsers = {b1, b2}
    Ceremonies = {p1, p2}
    MaxPasskeys = 1
    ChallengeTtl = 1
    AccessLifetime = 1
    SessionExpiry = 1
    Workloads <- MCWorkloads
    MaxVersion = 1
    MaxCredentials = 3
SPECIFICATION Spec
INVARIANTS
    InvitationsCountAccounts
    PoolNeverStarved
    PasskeysWithinLimit
    ChallengeTakenOnce
    DeletedKeySignsOut
PROPERTY KeysAddedByLiveSessions
CHECK_DEADLOCK FALSE
SYMMETRY Symmetry
