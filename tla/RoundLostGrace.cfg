SPECIFICATION FairSpec
CONSTANTS
    c1 = c1
    c2 = c2
    r1 = r1
    r2 = r2
    r3 = r3
    Requests = {r1}
    Cartelas = {c1, c2}
    CartelaOf <- MCCartelaOf
    Balls <- MCBalls
    Patterns <- MCPatterns
    NoRequest = NoRequest
    Interval = 1
    WindowLen = 1
    ClaimGrace = 1
    NoWinnerGrace = 1
    AdminOps = {"call"}
    Failures = FALSE
PROPERTY ExhaustedRoundEnds
