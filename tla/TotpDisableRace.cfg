CONSTANTS
    sA = sA
    sB = sB
    d0 = d0
    d1 = d1
    d2 = d2
    Secrets = {sA, sB}
    NoSecret = NoSecret
    Digits = {d0, d1, d2}
    Hotp <- MCHotp
    NoCode = NoCode
    CodeNumbers = {1}
    Requests = {p1, p2}
    TOTP_PERIOD = 2
    MaxTime = 4
SPECIFICATION Spec
INVARIANTS
    ActiveFactorKeepsItsCodes
