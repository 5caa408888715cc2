SPECIFICATION Spec
CONSTANTS
    c1 = c1
    c2 = c2
    r1 = r1
    r2 = r2
    r3 = r3
    Requests = {r1, r2}
    Cartelas = {c1, c2}
    CartelaOf <- MCCartelaOf
    Balls <- MCTwoBalls
    Patterns <- MCTwoBallPatterns
    NoRequest = NoRequest
    Interval = 1
    WindowLen = 1
    ClaimGrace = 1
    NoWinnerGrace = 1
    AdminOps = {"call", "start", "stop", "cancel", "early"}
    Failures = TRUE
INVARIANTS
    TypeOK
    WinnersOnlyInWonRounds
    OpenWindowHasWinner
    PrizePaidOnce
    RefundedIffCancelled
PROPERTY
    TerminalIsFinal
