SPECIFICATION Spec
CONSTANTS
    u1 = u1
    u2 = u2
    c1 = c1
    c2 = c2
    c3 = c3
    r1 = r1
    r2 = r2
    h1 = h1
    h2 = h2
    Users = {u1, u2}
    Cartelas = {c1, c2, c3}
    Items <- MCItems
    CartelaOf <- MCCartelaOf
    PlayerOf <- MCPlayerOf
    NoOne = NoOne
    EntryFee = 2
    PrizePerCartela = 1
    Duration = 1
    HoldLen = 1
    Opening <- MCOpening
    Requests = {r1, r2}
    Holds = {h1, h2}
    OperationModes = {"AUTO"}
    Switches = 0
    Others = 0
    Failures = FALSE
PROPERTIES
    ConfirmedStays
    HoldRespected
    ClosedAtDeadline
